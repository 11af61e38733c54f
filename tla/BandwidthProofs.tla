----------------------------- MODULE BandwidthProofs -----------------------------
(***************************************************************************)
(* Proofs about module Bandwidth.  A worker whom nobody disturbs finds the *)
(* host, at each of its commands, as the commands before have left it      *)
(* (Progress): then no later command is refused, and at the end the limit  *)
(* is in force.  That nobody disturbs it is Alone, and that nobody does    *)
(* so afterwards is Undisturbed.                                           *)
(***************************************************************************)
EXTENDS Bandwidth, TLAPS

AfterUp == {"list"} \cup PortPlaces \cup {"htbifb", "classifb", "leafifb"}
AfterList == PortPlaces \cup {"htbifb", "classifb", "leafifb", "upsert"}
InContainer == {"delifb", "addslot", "u32", "tbfifb"}

\* A worker is at a command of its own limit, and of the part that this limit has.
Placed(w) ==
    LET j == job[w]
    IN  /\ j \in Job
        /\ IF j.who = Bridge
             THEN /\ at[w] \in NetworkPlaces \cup {"upsert"}
                  /\ at[w] \in EnsurePlaces \cup AfterUp => j.ingress > 0
                  /\ at[w] \in PortPlaces => port[w] >= 1
                  /\ at[w] \notin AfterList => port[w] = 0
             ELSE /\ at[w] \in ContainerPlaces \cup {"upsert"}
                  /\ at[w] = "tbf" => j.egress > 0
                  /\ at[w] \in IngressPlaces => j.ingress > 0
PlacesInv == \A w \in Workers : Busy(w) => Placed(w)

\* A client that has left was being served, and is not undisturbed.
GoneInv == \A r \in gone : at[r] # "new" /\ r \notin fair

\* While stored limits are applied no request is served, so they stay what they are.
BootInv ==
    /\ boot # "done" => \A r \in Requests : ~Busy(r)
    /\ boot = "done" => ~Busy(Boot) /\ todo = {}
    /\ Busy(Boot) => at[Boot] # "upsert" /\ job[Boot] = stored[job[Boot].who]
    /\ \A t \in todo : stored[t] # None

\* Undisturbed workers share nothing with others.
Alone ==
    \A w \in fair, v \in Workers :
        Busy(w) /\ Busy(v) /\ v # w => Touches(job[v]) \cap Touches(job[w]) = {}

\* Nobody disturbs a target whose limit is in force.
Undisturbed == \A t \in clean : Quiescent(t)

\* Only a network redirects from a clsact qdisc; without a qdisc there is no redirection.
SlotInv ==
    \A d \in Targets : /\ slot[d].kind = "none" => slot[d].to = None
                       /\ slot[d].kind = "clsact" => slot[d].to \in {None, Ifb[Bridge]}

\* An ifb is up before anything is redirected to it, and stays so.
LinksInv ==
    /\ NoBlackHole
    /\ \A w \in Workers :
          /\ Busy(w) /\ at[w] \in (IF job[w].who = Bridge THEN AfterUp ELSE InContainer)
          => link[Ifb[job[w].who]] = "up"

\* What an undisturbed limit of a container finds at l.
ContainerProgress(j, l) ==
    LET c == j.who
        i == Ifb[c]
    IN  /\ l \in {"delslot", "tbf"} => root[c] = None
        /\ l \in {"tbf", "show", "addlink", "up", "delifb", "addslot"} => slot[c].kind # "ingress"
        /\ l \in IngressPlaces => Rate(c) = IF j.egress > 0 THEN formatRate(j.egress) ELSE None
        /\ l = "addlink" => link[i] = "absent"
        /\ l = "up" => link[i] # "absent"
        /\ l \in {"addslot", "u32", "tbfifb"} => root[i] = None
        /\ l = "u32" => slot[c].kind = "ingress"
        /\ l = "tbfifb" => slot[c].to = i
        /\ l = "upsert" => ContainerLimited(c, j)

NetworkRate(j) == formatRate(IF j.egress > 0 THEN j.egress ELSE j.ingress)

\* What the commands of the n-th port find; the ports before redirect already.
PortProgress(l, n) ==
    LET kind == slot[Ports[n]].kind
    IN  /\ \A m \in 1..(n - 1) : slot[Ports[m]].to = Ifb[Bridge]
        /\ l \in {"delclsact", "undo"} => kind # "ingress"
        /\ l \in {"addclsact", "addingress"} => kind = "none"
        /\ l = "matchall" => kind = "clsact"
        /\ l \in {"u32v4", "u32v6"} => kind = "ingress"

\* What an undisturbed limit of the network finds at l.
NetworkProgress(j, l, n) ==
    LET i == Ifb[Bridge]
    IN  /\ l \in {"delslot", "delslot2", "delifb", "htb"} => root[Bridge] = None
        /\ l = "class" => root[Bridge] # None /\ root[Bridge].rate = None
        /\ l = "leaf" => Rate(Bridge) = NetworkRate(j) /\ ~root[Bridge].leaf
        /\ l \in EnsurePlaces \cup AfterUp => Rate(Bridge) = NetworkRate(j)
        /\ l \in {"htb", "class", "leaf", "list", "htbifb"} \cup EnsurePlaces \cup PortPlaces =>
               root[i] = None
        /\ l = "addlink" => link[i] = "absent"
        /\ l = "up" => link[i] # "absent"
        /\ l \in PortPlaces => PortProgress(l, n)
        /\ l \in {"htbifb", "classifb", "leafifb"} =>
               \A m \in DOMAIN Ports : slot[Ports[m]].to = i
        /\ l = "classifb" => root[i] # None /\ root[i].rate = None
        /\ l = "leafifb" => Rate(i) = formatRate(j.ingress) /\ ~root[i].leaf
        /\ l = "upsert" => NetworkLimited(j)

ProgressAt(j, l, n) ==
    IF j.who = Bridge THEN NetworkProgress(j, l, n) ELSE ContainerProgress(j, l)
Progress(w) == \A j \in {job[w]}, l \in {at[w]}, n \in {port[w]} : ProgressAt(j, l, n)
ProgressInv == \A w \in fair : Busy(w) => Progress(w)

Limited(t, j) == IF t = Bridge THEN NetworkLimited(j) ELSE ContainerLimited(t, j)
ForceInv == \A t \in clean : \A j \in {stored[t]} : j # None /\ Limited(t, j)

BandwidthInv ==
    /\ TypeOK /\ PlacesInv /\ GoneInv /\ BootInv /\ Alone /\ Undisturbed
    /\ SlotInv /\ LinksInv /\ ProgressInv /\ ForceInv

-----------------------------------------------------------------------------
(* The commands, place by place. *)

\* The command of w, and what follows it.
Is(w, op, dev, arg, ok, fail) ==
    /\ Now(w).cmd.op = op /\ Now(w).cmd.dev = dev /\ Now(w).cmd.arg = arg
    /\ Now(w).ok = ok /\ Now(w).fail = fail

\* The commands of a container's limit: at each place the command, its device, its argument,
\* and the places that follow.
LEMMA ContainerTable ==
    ASSUME NEW w \in Workers, job[w].who # Bridge
    PROVE  LET j == job[w]
               c == j.who
               i == Ifb[c]
           IN  /\ at[w] = "look" => Is(w, "look", c, None, "delroot", "failed")
               /\ at[w] = "delroot" => Is(w, "delroot", c, None, "delslot", "delslot")
               /\ at[w] = "delslot" => Is(w, "delslot", c, "ingress", IF j.egress > 0 THEN "tbf" ELSE "show",
                                                                     IF j.egress > 0 THEN "tbf" ELSE "show")
               /\ at[w] = "tbf" => Is(w, "tbf", c, formatRate(j.egress),
                                              IF j.ingress > 0 THEN "show" ELSE "upsert", "failed")
               /\ at[w] = "show" => Is(w, "show", i, None, "up", "addlink")
               /\ at[w] = "addlink" => Is(w, "addlink", i, None, "up", "failed")
               /\ at[w] = "up" => Is(w, "up", i, None, "delifb", "failed")
               /\ at[w] = "delifb" => Is(w, "delroot", i, None, "addslot", "addslot")
               /\ at[w] = "addslot" => Is(w, "addslot", c, "ingress", "u32", "failed")
               /\ at[w] = "u32" => Is(w, "u32", c, i, "tbfifb", "failed")
               /\ at[w] = "tbfifb" => Is(w, "tbf", i, formatRate(j.ingress), "upsert", "failed")
BY DEF Is, Now, Apply, LimitContainer, IngressPlaces, EnsurePlaces, applyIngressLimit, ensureIFB,
       Cmd, Try, Quiet, Must

\* The commands of a network's limit.
LEMMA NetworkTable ==
    ASSUME NEW w \in Workers, job[w].who = Bridge
    PROVE  LET j == job[w]
               n == port[w]
               i == Ifb[Bridge]
               next == IF n < Len(Ports) THEN "delingress" ELSE "htbifb"
           IN  /\ at[w] = "look" => Is(w, "look", Bridge, None, "delroot", "failed")
               /\ at[w] = "delroot" => Is(w, "delroot", Bridge, None, "delslot", "delslot")
               /\ at[w] = "delslot" => Is(w, "delslot", Bridge, "ingress", "delslot2", "delslot2")
               /\ at[w] = "delslot2" => Is(w, "delslot", Bridge, "clsact", "delifb", "delifb")
               /\ at[w] = "delifb" => Is(w, "delroot", i, None, "htb", "htb")
               /\ at[w] = "htb" => Is(w, "htb", Bridge, None, "class", "failed")
               /\ at[w] = "class" => Is(w, "class", Bridge, NetworkRate(j), "leaf", "failed")
               /\ at[w] = "leaf" => Is(w, "leaf", Bridge, None,
                                               IF j.ingress > 0 THEN "show" ELSE "upsert", "failed")
               /\ at[w] = "show" => Is(w, "show", i, None, "up", "addlink")
               /\ at[w] = "addlink" => Is(w, "addlink", i, None, "up", "failed")
               /\ at[w] = "up" => Is(w, "up", i, None, "list", "failed")
               /\ at[w] = "list" => Is(w, "look", Bridge, None, "delingress", "failed")
               /\ at[w] = "delingress" => Is(w, "delslot", Ports[n], "ingress", "delclsact", "delclsact")
               /\ at[w] = "delclsact" => Is(w, "delslot", Ports[n], "clsact", "addclsact", "addclsact")
               /\ at[w] = "addclsact" => Is(w, "addslot", Ports[n], "clsact", "matchall", "undo")
               /\ at[w] = "matchall" => Is(w, "matchall", Ports[n], i, next, "undo")
               /\ at[w] = "undo" => Is(w, "delslot", Ports[n], "clsact", "addingress", "addingress")
               /\ at[w] = "addingress" => Is(w, "addslot", Ports[n], "ingress", "u32v4", "failed")
               /\ at[w] = "u32v4" => Is(w, "u32", Ports[n], i, "u32v6", "failed")
               /\ at[w] = "u32v6" => Is(w, "u32", Ports[n], i, next, "failed")
               /\ at[w] = "htbifb" => Is(w, "htb", i, None, "classifb", "failed")
               /\ at[w] = "classifb" => Is(w, "class", i, formatRate(j.ingress), "leafifb", "failed")
               /\ at[w] = "leafifb" => Is(w, "leaf", i, None, "upsert", "failed")
BY DEF Is, Now, Apply, LimitNetwork, EnsurePlaces, PortPlaces, ensureIFB, applySharedCap, BridgeCap,
       IfbCap, applyIngressRedirectOnPorts, RedirectPort, NetworkRate, Cmd, Try, Quiet, Must

\* The statement that stores a limit.
LEMMA UpsertTable ==
    ASSUME NEW w \in Workers, at[w] = "upsert"
    PROVE  Is(w, "upsert", job[w].who, job[w], "ok", "failed")
BY DEF Is, Now, Cmd, Try, Must

USE IdentityAssumption, IndexAssumption, PortsAssumption

\* Rates are positive, ifbs and veths are told apart.
LEMMA Facts ==
    /\ \A m \in Nat : formatRate(m) \in Rates
    /\ \A t \in Targets : Ifb[t] \in Ifbs /\ Ifb[t] \notin Targets /\ t \in Devices /\ Ifb[t] \in Devices
    /\ Len(Ports) \in Nat /\ Len(Ports) >= 1 /\ DOMAIN Ports = 1..Len(Ports)
    /\ \A n \in 1..Len(Ports) : Ports[n] \in Containers /\ Ports[n] \in Targets /\ Ports[n] # Bridge
    /\ Bridge \in Targets
BY DEF formatRate, Rates, Targets, Ifbs, Devices

\* A qdisc is not the lack of one.
LEMMA QdiscFacts ==
    ASSUME NEW q, NEW r \in Rates \cup {None}
    PROVE  /\ q = [rate |-> r, leaf |-> TRUE] => q # None /\ q.rate = r
           /\ q = [rate |-> r, leaf |-> FALSE] => q # None /\ q.rate = r /\ ~q.leaf
<1>1. [rate |-> r, leaf |-> TRUE] \in Qdisc /\ [rate |-> r, leaf |-> FALSE] \in Qdisc
      BY DEF Qdisc
<1>2. None \notin Qdisc
      OBVIOUS
<1>3. CASE q = [rate |-> r, leaf |-> TRUE]
  <2>1. q # None
        BY <1>1, <1>2, <1>3, Zenon
  <2>2. q.rate = r /\ q.leaf
        BY <1>3
  <2>3. QED BY <2>1, <2>2
<1>4. CASE q = [rate |-> r, leaf |-> FALSE]
  <2>1. q # None
        BY <1>1, <1>2, <1>4, Zenon
  <2>2. q.rate = r /\ ~q.leaf
        BY <1>4
  <2>3. QED BY <2>1, <2>2
<1>5. QED BY <1>3, <1>4

\* A qdisc gets a leaf.
LEMMA LeafFacts ==
    ASSUME NEW q \in Qdisc, NEW e, e = [q EXCEPT !.leaf = TRUE]
    PROVE  e = [rate |-> q.rate, leaf |-> TRUE]
BY DEF Qdisc

\* A port the network's limit comes to is one it touches.
LEMMA TouchesFacts ==
    ASSUME NEW j \in Job
    PROVE  /\ j.who \in Touches(j) /\ j.who \in Targets
           /\ j.who = Bridge /\ j.ingress > 0 => \A n \in 1..Len(Ports) : Ports[n] \in Touches(j)
           /\ \A n \in 1..Len(Ports) : j.who = Ports[n] => Bridge \in Touches(j)
BY Facts DEF Touches, Job

\* What a command may change, and to what.
May(j, l, op, dev, arg) ==
    /\ op \in {"delroot", "tbf", "htb", "class", "leaf"} => dev \in {j.who, Ifb[j.who]}
    /\ op \in {"tbf", "class"} => arg \in Rates
    /\ op \in {"delslot", "addslot", "matchall", "u32"} => dev \in Touches(j) \cap Targets
    /\ op = "addslot" => arg \in {"ingress", "clsact"}
    /\ op \in {"matchall", "u32"} =>
           arg = Ifb[j.who] /\ l \in (IF j.who = Bridge THEN AfterUp ELSE InContainer)
    /\ op = "matchall" => j.who = Bridge
    /\ op \in {"show", "addlink", "up"} => dev = Ifb[j.who]
    /\ op = "upsert" => dev = j.who /\ arg = j /\ l = "upsert"

\* The command of a busy worker stays within May.
LEMMA Reach ==
    ASSUME TypeOK, NEW w \in Workers, Busy(w), Placed(w)
    PROVE  May(job[w], at[w], Now(w).cmd.op, Now(w).cmd.dev, Now(w).cmd.arg)
<1> DEFINE j == job[w]
<1>0. j \in Job /\ j.who \in Targets /\ j.egress \in Nat /\ j.ingress \in Nat
      BY DEF Placed, Job
<1>1. j.who \in Touches(j) \cap Targets
      BY <1>0, TouchesFacts
<1>2. formatRate(j.egress) \in Rates /\ formatRate(j.ingress) \in Rates
      BY <1>0, Facts
<1>3. CASE at[w] = "upsert"
      BY <1>3, UpsertTable DEF Is, May
<1>4. CASE at[w] # "upsert" /\ j.who # Bridge
  <2>1. at[w] \in {"look", "delroot", "delslot", "tbf"} \/ at[w] \in EnsurePlaces \/ at[w] \in InContainer
        BY <1>4 DEF Placed, ContainerPlaces, IngressPlaces, InContainer
  <2>2. CASE at[w] \in {"look", "delroot", "delslot", "tbf"}
        BY <2>2, <1>1, <1>2, <1>4, ContainerTable DEF Is, May
  <2>3. CASE at[w] \in EnsurePlaces
        BY <2>3, <1>4, ContainerTable DEF Is, May, EnsurePlaces
  <2>4. CASE at[w] \in InContainer
        BY <2>4, <1>1, <1>2, <1>4, ContainerTable DEF Is, May, InContainer
  <2>5. QED BY <2>1, <2>2, <2>3, <2>4
<1>5. CASE at[w] # "upsert" /\ j.who = Bridge
  <2>1. \/ at[w] \in {"look", "delroot", "delslot", "delslot2", "delifb"} \/ at[w] \in {"htb", "class", "leaf"}
        \/ at[w] \in EnsurePlaces \cup {"list"} \/ at[w] \in PortPlaces
        \/ at[w] \in {"htbifb", "classifb", "leafifb"}
        BY <1>5 DEF Placed, NetworkPlaces
  <2>2. CASE at[w] \in {"look", "delroot", "delslot", "delslot2", "delifb"}
        BY <2>2, <1>1, <1>5, NetworkTable DEF Is, May
  <2>3. CASE at[w] \in {"htb", "class", "leaf"}
    <3>1. NetworkRate(j) \in Rates
          BY <1>2 DEF NetworkRate
    <3>2. QED BY <3>1, <2>3, <1>1, <1>5, NetworkTable DEF Is, May
  <2>4. CASE at[w] \in EnsurePlaces \cup {"list"}
        BY <2>4, <1>5, NetworkTable DEF Is, May, EnsurePlaces
  <2>5. CASE at[w] \in PortPlaces
    <3>1. port[w] \in 1..Len(Ports) /\ j.ingress > 0
          BY <2>5, <1>5, Facts DEF Placed, TypeOK, AfterUp
    <3>2. Ports[port[w]] \in Touches(j) \cap Targets
          BY <3>1, <1>0, <1>5, Facts, TouchesFacts
    <3>3. at[w] \in AfterUp
          BY <2>5 DEF AfterUp
    <3>4. QED BY <3>2, <3>3, <2>5, <1>5, NetworkTable DEF Is, May, PortPlaces
  <2>6. CASE at[w] \in {"htbifb", "classifb", "leafifb"}
        BY <2>6, <1>2, <1>5, NetworkTable DEF Is, May
  <2>7. QED BY <2>1, <2>2, <2>3, <2>4, <2>5, <2>6
<1>6. QED BY <1>3, <1>4, <1>5

\* The places that may follow.
Follows(w, l) ==
    LET j == job[w]
    IN  IF j.who = Bridge
          THEN /\ l \in NetworkPlaces \cup {"upsert"}
               /\ l \in EnsurePlaces \cup AfterUp => j.ingress > 0
               /\ l \in PortPlaces => (IF l = "delingress" THEN port[w] < Len(Ports) ELSE port[w] >= 1)
               /\ l \notin AfterList => port[w] = 0
          ELSE /\ l \in ContainerPlaces \cup {"upsert"}
               /\ l = "tbf" => j.egress > 0
               /\ l \in IngressPlaces => j.ingress > 0

\* A command is followed by another of the same limit; a refused one ends nothing well.
LEMMA Follow ==
    ASSUME TypeOK, NEW w \in Workers, Busy(w), Placed(w)
    PROVE  /\ IF at[w] = "upsert" THEN Now(w).ok = "ok" ELSE Follows(w, Now(w).ok)
           /\ Now(w).fail = "failed" \/ (Follows(w, Now(w).fail) /\ Now(w).fail # "upsert")
<1> DEFINE j == job[w]
<1>0. /\ j.egress \in Nat /\ j.ingress \in Nat /\ (j.egress > 0 \/ j.ingress > 0)
      /\ port[w] \in 0..Len(Ports) /\ Len(Ports) \in Nat /\ Len(Ports) >= 1
      BY Facts DEF Placed, Job, TypeOK
<1>1. CASE at[w] = "upsert"
      BY <1>1, UpsertTable DEF Is
<1>2. CASE at[w] # "upsert" /\ j.who # Bridge
  <2>1. \A l : Follows(w, l) <=> /\ l \in ContainerPlaces \cup {"upsert"}
                                 /\ l = "tbf" => j.egress > 0
                                 /\ l \in IngressPlaces => j.ingress > 0
        BY <1>2 DEF Follows
  <2>2. at[w] \in {"look", "delroot", "delslot", "tbf"} \/ at[w] \in IngressPlaces
        BY <1>2 DEF Placed, ContainerPlaces
  <2>3. CASE at[w] \in {"look", "delroot", "delslot", "tbf"}
        BY <2>1, <2>3, <1>0, <1>2, ContainerTable DEF Is, ContainerPlaces, IngressPlaces, EnsurePlaces
  <2>4. CASE at[w] \in IngressPlaces
    <3>1. j.ingress > 0
          BY <2>4, <1>2 DEF Placed
    <3>2. QED BY <3>1, <2>1, <2>4, <1>2, ContainerTable DEF Is, ContainerPlaces, IngressPlaces, EnsurePlaces
  <2>5. QED BY <2>2, <2>3, <2>4
<1>3. CASE at[w] # "upsert" /\ j.who = Bridge
  <2>1. \A l : Follows(w, l) <=>
                  /\ l \in NetworkPlaces \cup {"upsert"}
                  /\ l \in EnsurePlaces \cup AfterUp => j.ingress > 0
                  /\ l \in PortPlaces => (IF l = "delingress" THEN port[w] < Len(Ports) ELSE port[w] >= 1)
                  /\ l \notin AfterList => port[w] = 0
        BY <1>3 DEF Follows
  <2>2. \/ at[w] \in {"look", "delroot", "delslot", "delslot2", "delifb"} \/ at[w] \in {"htb", "class", "leaf"}
        \/ at[w] \in EnsurePlaces \cup {"list"} \/ at[w] \in PortPlaces
        \/ at[w] \in {"htbifb", "classifb", "leafifb"}
        BY <1>3 DEF Placed, NetworkPlaces
  <2>3. /\ at[w] \in EnsurePlaces \cup AfterUp => j.ingress > 0
        /\ at[w] \in PortPlaces => port[w] >= 1
        /\ at[w] \notin AfterList => port[w] = 0
        BY <1>3 DEF Placed
  <2> USE DEF PortPlaces, AfterUp, AfterList, EnsurePlaces, NetworkPlaces
  <2>4. CASE at[w] \in {"look", "delroot", "delslot", "delslot2", "delifb"}
        BY <2>1, <2>3, <2>4, <1>3, NetworkTable DEF Is
  <2>5. CASE at[w] \in {"htb", "class", "leaf"}
        BY <2>1, <2>3, <2>5, <1>0, <1>3, NetworkTable DEF Is
  <2>6. CASE at[w] \in EnsurePlaces \cup {"list"}
        BY <2>1, <2>3, <2>6, <1>0, <1>3, NetworkTable DEF Is
  <2>7. CASE at[w] \in PortPlaces
        BY <2>1, <2>3, <2>7, <1>0, <1>3, NetworkTable DEF Is
  <2>8. CASE at[w] \in {"htbifb", "classifb", "leafifb"}
        BY <2>1, <2>3, <2>8, <1>3, NetworkTable DEF Is
  <2>9. QED BY <2>2, <2>4, <2>5, <2>6, <2>7, <2>8
<1>4. QED BY <1>1, <1>2, <1>3

RootOps == {"delroot", "tbf", "htb", "class", "leaf"}
SlotOps == {"delslot", "addslot", "matchall", "u32"}

\* What a command that succeeds changes: devices of its own target, links never away from
\* "up", and a redirection only to an ifb that is up.
LEMMA Changes ==
    ASSUME TypeOK, SlotInv, LinksInv, NEW w \in Workers, Busy(w), Placed(w),
           Accepts(Now(w).cmd), Effect(Now(w).cmd)
    PROVE  LET j == job[w]
           IN  /\ root' \in [Devices -> Qdisc \cup {None}]
               /\ slot' \in [Targets -> [kind : {"none", "ingress", "clsact"}, to : Ifbs \cup {None}]]
               /\ link' \in [Ifbs -> {"absent", "down", "up"}]
               /\ stored' \in [Targets -> Job \cup {None}]
               /\ \A t \in Targets : stored'[t] # None => stored'[t].who = t
               /\ \A d \in Devices : d \notin {j.who, Ifb[j.who]} => root'[d] = root[d]
               /\ \A d \in Targets : d \notin Touches(j) => slot'[d] = slot[d]
               /\ \A i \in Ifbs : i # Ifb[j.who] => link'[i] = link[i]
               /\ \A i \in Ifbs : link[i] = "up" => link'[i] = "up"
               /\ at[w] # "upsert" => stored' = stored
               /\ at[w] = "upsert" => UNCHANGED host /\ stored' = [stored EXCEPT ![j.who] = j]
               /\ SlotInv' /\ NoBlackHole'
<1> DEFINE c == Now(w).cmd
           j == job[w]
<1>1. May(j, at[w], c.op, c.dev, c.arg)
      BY Reach
<1>2. j \in Job /\ j.who \in Targets /\ Ifb[j.who] \in Ifbs /\ Ifb[j.who] \in Devices /\ j.who \in Devices
      BY Facts DEF Placed, Job
<1>3. at[w] = "upsert" => c.op = "upsert"
      BY UpsertTable DEF Is
<1>4. Accepts(c) /\ Effect(c)
      OBVIOUS
<1> HIDE DEF c, j
<1>5. CASE c.op \in RootOps
  <2>1. root' = [root EXCEPT ![c.dev] = Root(c)] /\ UNCHANGED <<slot, link, stored>>
        BY <1>4, <1>5 DEF Effect, RootOps
  <2>2. c.dev \in {j.who, Ifb[j.who]} /\ (c.op \in {"tbf", "class"} => c.arg \in Rates)
        BY <1>1, <1>5 DEF May, RootOps
  <2>3. Root(c) \in Qdisc \cup {None}
    <3>1. CASE c.op = "leaf"
      <4>1. Root(c) = [root[c.dev] EXCEPT !.leaf = TRUE] /\ root[c.dev] # None
            BY <3>1, <1>4 DEF Root, Accepts
      <4>2. root[c.dev] \in Qdisc
            BY <4>1, <2>2, <1>2 DEF TypeOK
      <4>3. Root(c) = [rate |-> root[c.dev].rate, leaf |-> TRUE] /\ root[c.dev].rate \in Rates \cup {None}
            BY <4>1, <4>2 DEF Qdisc
      <4>4. QED BY <4>3 DEF Qdisc
    <3>2. CASE c.op # "leaf"
          BY <3>2, <1>5, <2>2 DEF Root, RootOps, Qdisc
    <3>3. QED BY <3>1, <3>2
  <2>4. root' \in [Devices -> Qdisc \cup {None}]
        BY <2>1, <2>2, <2>3, <1>2 DEF TypeOK
  <2>5. SlotInv' /\ NoBlackHole'
        BY <2>1 DEF SlotInv, LinksInv, NoBlackHole
  <2>6. \A d \in Devices : d \notin {j.who, Ifb[j.who]} => root'[d] = root[d]
        BY <2>1, <2>2 DEF TypeOK
  <2>7. QED BY <2>1, <2>4, <2>5, <2>6, <1>3, <1>5 DEF TypeOK, RootOps, j
<1>6. CASE c.op \in SlotOps
  <2>1. slot' = [slot EXCEPT ![c.dev] = Slot(c)] /\ UNCHANGED <<root, link, stored>>
        BY <1>4, <1>6 DEF Effect, SlotOps
  <2>2. /\ c.dev \in Touches(j) \cap Targets
        /\ c.op = "addslot" => c.arg \in {"ingress", "clsact"}
        /\ c.op \in {"matchall", "u32"} => c.arg = Ifb[j.who] /\ link[Ifb[j.who]] = "up"
        /\ c.op = "matchall" => j.who = Bridge
        BY <1>1, <1>6 DEF May, SlotOps, LinksInv, j
  <2>3. /\ Slot(c) \in [kind : {"none", "ingress", "clsact"}, to : Ifbs \cup {None}]
        /\ Slot(c).kind = "none" => Slot(c).to = None
        /\ Slot(c).kind = "clsact" => Slot(c).to \in {None, Ifb[Bridge]}
        /\ Slot(c).to # None => link[Slot(c).to] = "up"
    <3>1. CASE c.op = "addslot"
          BY <3>1, <2>2 DEF Slot
    <3>2. CASE c.op = "delslot"
          BY <3>2 DEF Slot, NoSlot
    <3>3. CASE c.op \in {"matchall", "u32"}
      <4>1. Slot(c) = [slot[c.dev] EXCEPT !.to = c.arg] /\ slot[c.dev].kind # "none"
            /\ (c.op = "u32" => slot[c.dev].kind = "ingress")
            BY <3>3, <1>4 DEF Slot, Accepts
      <4>2. slot[c.dev] \in [kind : {"none", "ingress", "clsact"}, to : Ifbs \cup {None}]
            BY <2>2 DEF TypeOK
      <4>3. Slot(c) = [kind |-> slot[c.dev].kind, to |-> c.arg]
            BY <4>1, <4>2
      <4>4. QED BY <4>1, <4>2, <4>3, <3>3, <2>2, <1>2
    <3>4. QED BY <3>1, <3>2, <3>3, <1>6 DEF SlotOps
  <2>4. \A d \in Targets : slot'[d] = IF d = c.dev THEN Slot(c) ELSE slot[d]
        BY <2>1, <2>2 DEF TypeOK
  <2>5. slot' \in [Targets -> [kind : {"none", "ingress", "clsact"}, to : Ifbs \cup {None}]]
        BY <2>1, <2>2, <2>3 DEF TypeOK
  <2>6. SlotInv'
        BY <2>3, <2>4 DEF SlotInv
  <2>7. NoBlackHole'
        BY <2>1, <2>3, <2>4 DEF LinksInv, NoBlackHole
  <2>8. \A d \in Targets : d \notin Touches(j) => slot'[d] = slot[d]
        BY <2>2, <2>4
  <2>9. QED BY <2>1, <2>5, <2>6, <2>7, <2>8, <1>3, <1>6 DEF TypeOK, SlotOps, j
<1>7. CASE c.op \in {"addlink", "up"}
  <2>1. link' = [link EXCEPT ![Ifb[j.who]] = IF c.op = "up" THEN "up" ELSE "down"]
        /\ UNCHANGED <<root, slot, stored>>
        BY <1>1, <1>4, <1>7 DEF Effect, May
  <2>2. c.op = "addlink" => link[Ifb[j.who]] = "absent"
        BY <1>1, <1>2, <1>4 DEF Accepts, Exists, May
  <2>3. \A i \in Ifbs : link[i] = "up" => link'[i] = "up"
        BY <2>1, <2>2, <1>2, <1>7 DEF TypeOK
  <2>4. \A i \in Ifbs : i # Ifb[j.who] => link'[i] = link[i]
        BY <2>1 DEF TypeOK
  <2>5. NoBlackHole'
        BY <2>1, <2>3 DEF LinksInv, NoBlackHole, TypeOK
  <2>6. SlotInv'
        BY <2>1 DEF SlotInv
  <2>7. link' \in [Ifbs -> {"absent", "down", "up"}]
        BY <2>1 DEF TypeOK
  <2>8. QED BY <2>1, <2>3, <2>4, <2>5, <2>6, <2>7, <1>3, <1>7 DEF TypeOK, j
<1>8. CASE c.op = "upsert"
  <2>1. UNCHANGED host /\ stored' = [stored EXCEPT ![j.who] = j] /\ at[w] = "upsert"
        BY <1>1, <1>4, <1>8 DEF Effect, May
  <2>2. stored' \in [Targets -> Job \cup {None}]
        BY <2>1, <1>2 DEF TypeOK
  <2>3. \A t \in Targets : stored'[t] # None => stored'[t].who = t
        BY <2>1, <1>2 DEF TypeOK
  <2>4. SlotInv' /\ NoBlackHole'
        BY <2>1 DEF SlotInv, LinksInv, NoBlackHole, host
  <2>5. QED BY <2>1, <2>2, <2>3, <2>4 DEF TypeOK, host, j
<1>9. CASE c.op \in {"show", "look"}
  <2>1. UNCHANGED <<root, slot, link, stored>> /\ at[w] # "upsert"
        BY <1>3, <1>4, <1>9 DEF Effect, host
  <2>2. SlotInv' /\ NoBlackHole'
        BY <2>1 DEF SlotInv, LinksInv, NoBlackHole
  <2>3. QED BY <2>1, <2>2 DEF TypeOK
<1>10. QED BY <1>4, <1>5, <1>6, <1>7, <1>8, <1>9 DEF Effect, RootOps, SlotOps

\* An ifb is brought up before anything is redirected to it.
LEMMA UpFirst ==
    ASSUME TypeOK, NEW w \in Workers, Busy(w), Placed(w)
    PROVE  LET after == IF job[w].who = Bridge THEN AfterUp ELSE InContainer
           IN  /\ Now(w).ok \in after => at[w] \in after \cup {"up"}
               /\ Now(w).fail \in after => at[w] \in after
               /\ at[w] = "up" => Now(w).cmd.op = "up" /\ Now(w).cmd.dev = Ifb[job[w].who]
<1>1. CASE at[w] = "upsert"
      BY <1>1, UpsertTable DEF Is, AfterUp, PortPlaces, InContainer
<1>2. CASE at[w] # "upsert" /\ job[w].who # Bridge
      BY <1>2, ContainerTable
      DEF Is, Placed, ContainerPlaces, IngressPlaces, EnsurePlaces, InContainer
<1>3. CASE at[w] # "upsert" /\ job[w].who = Bridge
  <2>1. \/ at[w] \in {"look", "delroot", "delslot", "delslot2", "delifb", "htb", "class"}
        \/ at[w] \in {"leaf"} \cup EnsurePlaces \/ at[w] \in AfterUp
        BY <1>3 DEF Placed, NetworkPlaces, AfterUp
  <2>2. CASE at[w] \in {"look", "delroot", "delslot", "delslot2", "delifb", "htb", "class"}
        BY <2>2, <1>3, NetworkTable DEF Is, AfterUp, PortPlaces
  <2>3. CASE at[w] \in {"leaf"} \cup EnsurePlaces
        BY <2>3, <1>3, NetworkTable DEF Is, AfterUp, PortPlaces, EnsurePlaces
  <2>4. CASE at[w] \in AfterUp
        BY <2>4, <1>3 DEF AfterUp, PortPlaces
  <2>5. QED BY <2>1, <2>2, <2>3, <2>4
<1>4. QED BY <1>1, <1>2, <1>3

\* A worker goes on to a place of its limit, or ends.
LEMMA Advances ==
    ASSUME TypeOK, NEW w \in Workers, Busy(w), Placed(w), NEW l, Advance(w, l), job' = job,
           l = "failed" \/ l = "ok" \/ Follows(w, l)
    PROVE  /\ at' \in [Workers -> Idle \cup ContainerPlaces \cup NetworkPlaces \cup {"upsert"}]
           /\ port' \in [Workers -> 0..Len(Ports)]
           /\ \A v \in Workers \ {w} : at'[v] = at[v] /\ port'[v] = port[v]
           /\ at'[w] = IF w = Boot /\ l = "upsert" THEN "ok" ELSE l
           /\ l \notin Idle => Follows(w, l)
           /\ Busy(w)' => Placed(w)'
<1>1. l \in Idle \cup ContainerPlaces \cup NetworkPlaces \cup {"upsert"}
      BY DEF Follows, Idle
<1>2. at' = [at EXCEPT ![w] = IF w = Boot /\ l = "upsert" THEN "ok" ELSE l]
      BY DEF Advance
<1>3. l = "delingress" => port[w] < Len(Ports)
      BY DEF Follows, NetworkPlaces, ContainerPlaces, PortPlaces, IngressPlaces, EnsurePlaces
<1>4. port[w] \in 0..Len(Ports) /\ Len(Ports) \in Nat
      BY Facts DEF TypeOK
<1>5. port' = [port EXCEPT ![w] = IF l = "delingress" THEN @ + 1 ELSE @]
      BY DEF Advance
<1>6. /\ at' \in [Workers -> Idle \cup ContainerPlaces \cup NetworkPlaces \cup {"upsert"}]
      /\ \A v \in Workers \ {w} : at'[v] = at[v]
      /\ at'[w] = IF w = Boot /\ l = "upsert" THEN "ok" ELSE l
      BY <1>1, <1>2 DEF TypeOK, Idle
<1>7. /\ port' \in [Workers -> 0..Len(Ports)]
      /\ \A v \in Workers \ {w} : port'[v] = port[v]
      /\ port'[w] = IF l = "delingress" THEN port[w] + 1 ELSE port[w]
      BY <1>3, <1>4, <1>5 DEF TypeOK
<1>8. l \notin Idle => Follows(w, l)
      BY DEF Idle
<1>9. Busy(w)' => Placed(w)'
  <2>1. SUFFICES ASSUME Busy(w)' PROVE Placed(w)'
        OBVIOUS
  <2>2. Follows(w, l) /\ at'[w] = l
        BY <1>6, <1>8, <2>1 DEF Busy, Idle
  <2>3. CASE job[w].who = Bridge
        BY <2>2, <2>3, <1>4, <1>7 DEF Follows, Placed, AfterList, PortPlaces
  <2>4. CASE job[w].who # Bridge
        BY <2>2, <2>4 DEF Follows, Placed
  <2>5. QED BY <2>3, <2>4
<1>10. QED BY <1>6, <1>7, <1>8, <1>9

\* What the four steps of a worker have in common.
Move(w, l) ==
    /\ Busy(w) /\ Advance(w, l)
    /\ \/ l = Now(w).ok /\ Accepts(Now(w).cmd) /\ Effect(Now(w).cmd)
       \/ /\ l = Now(w).fail /\ UNCHANGED <<host, stored>>
          /\ w \in fair' => ~Accepts(Now(w).cmd) \/ Now(w).cmd.op \in {"addslot", "matchall"}
       \/ l = Now(w).fail /\ Accepts(Now(w).cmd) /\ Effect(Now(w).cmd) /\ w \notin fair'
    /\ UNCHANGED <<job, boot, todo, restarts>>
    /\ faults' = faults \/ (faults < MaxFaults /\ faults' = faults + 1)
    /\ fair' \subseteq fair
    /\ gone' = gone \/ (w \in Requests /\ gone' = gone \cup {w} /\ w \notin fair')
    /\ clean' = clean \/ (clean' = clean \cup {job[w].who} /\ at'[w] = "ok" /\ w \in fair)

\* They are moves.
LEMMA Moves ==
    ASSUME GoneInv, NEW w \in Workers, Work(w) \/ (w \in Requests /\ Leaves(w))
    PROVE  \E l : Move(w, l)
<1>1. CASE Runs(w)
  <2>1. Move(w, Now(w).ok)
        BY <1>1 DEF Runs, Answered, Move, bounds
  <2>2. QED BY <2>1
<1>2. CASE Refused(w)
  <2>1. Move(w, Now(w).fail)
        BY <1>2 DEF Refused, Answered, Move, bounds, GoneInv
  <2>2. QED BY <2>1
<1>3. CASE Fails(w)
  <2>1. Move(w, Now(w).fail)
        BY <1>3 DEF Fails, Move
  <2>2. QED BY <2>1
<1>4. CASE w \in Requests /\ Leaves(w)
  <2>1. w \notin fair' /\ fair' \subseteq fair
        BY <1>4 DEF Leaves
  <2>2. Move(w, Now(w).fail)
        BY <1>4, <2>1 DEF Leaves, Move
  <2>3. QED BY <2>2
<1>5. QED BY <1>1, <1>2, <1>3, <1>4 DEF Work

\* Where a move goes, and that it changes the host as Changes says, or not at all.
LEMMA MoveFacts ==
    ASSUME BandwidthInv, NEW w \in Workers, NEW l, Move(w, l)
    PROVE  /\ Placed(w) /\ (l = "failed" \/ l = "ok" \/ Follows(w, l))
           /\ l = "ok" => at[w] = "upsert"
           /\ \/ UNCHANGED <<host, stored>>
              \/ Accepts(Now(w).cmd) /\ Effect(Now(w).cmd)
<1>1. Busy(w) /\ Placed(w)
      BY DEF Move, BandwidthInv, PlacesInv
<1>2. TypeOK
      BY DEF BandwidthInv
<1>3. /\ IF at[w] = "upsert" THEN Now(w).ok = "ok" ELSE Follows(w, Now(w).ok)
      /\ Now(w).fail = "failed" \/ (Follows(w, Now(w).fail) /\ Now(w).fail # "upsert")
      BY <1>1, <1>2, Follow
<1>4. ~Follows(w, "ok")
      BY DEF Follows, NetworkPlaces, ContainerPlaces, IngressPlaces, EnsurePlaces, PortPlaces
<1>5. QED BY <1>1, <1>3, <1>4 DEF Move

\* The steps of a worker keep what does not depend on the progress of others.
LEMMA MoveKeeps ==
    ASSUME BandwidthInv, NEW w \in Workers, NEW l, Move(w, l)
    PROVE  /\ TypeOK' /\ PlacesInv' /\ GoneInv' /\ BootInv' /\ Alone' /\ Undisturbed'
           /\ SlotInv' /\ LinksInv'
<1>0. TypeOK /\ PlacesInv /\ GoneInv /\ BootInv /\ Alone /\ Undisturbed /\ SlotInv /\ LinksInv
      BY DEF BandwidthInv
<1>1. /\ Busy(w) /\ Placed(w) /\ Advance(w, l) /\ job' = job /\ boot' = boot /\ todo' = todo
      /\ restarts' = restarts /\ fair' \subseteq fair
      /\ l = "failed" \/ l = "ok" \/ Follows(w, l)
      BY MoveFacts DEF Move
<1>2. /\ at' \in [Workers -> Idle \cup ContainerPlaces \cup NetworkPlaces \cup {"upsert"}]
      /\ port' \in [Workers -> 0..Len(Ports)]
      /\ \A v \in Workers \ {w} : at'[v] = at[v] /\ port'[v] = port[v]
      /\ at'[w] = IF w = Boot /\ l = "upsert" THEN "ok" ELSE l
      /\ Busy(w)' => Placed(w)'
      BY <1>0, <1>1, Advances
<1>3. /\ root' \in [Devices -> Qdisc \cup {None}]
      /\ slot' \in [Targets -> [kind : {"none", "ingress", "clsact"}, to : Ifbs \cup {None}]]
      /\ link' \in [Ifbs -> {"absent", "down", "up"}]
      /\ stored' \in [Targets -> Job \cup {None}]
      /\ \A t \in Targets : stored'[t] # None => stored'[t].who = t
      /\ \A i \in Ifbs : link[i] = "up" => link'[i] = "up"
      /\ at[w] # "upsert" => stored' = stored
      /\ at[w] = "upsert" => stored' = stored \/ stored' = [stored EXCEPT ![job[w].who] = job[w]]
      /\ SlotInv' /\ NoBlackHole'
  <2>1. CASE UNCHANGED <<host, stored>>
        BY <2>1, <1>0 DEF host, TypeOK, SlotInv, LinksInv, NoBlackHole
  <2>2. CASE Accepts(Now(w).cmd) /\ Effect(Now(w).cmd)
        BY <2>2, <1>0, <1>1, Changes
  <2>3. QED BY <2>1, <2>2, MoveFacts
<1>4. \A v \in Workers : Busy(v)' => Busy(v)
      BY <1>1, <1>2 DEF Busy
<1>5. job[w] \in Job /\ job[w].who \in Targets
      BY <1>1 DEF Placed, Job
<1>6. TypeOK'
  <2>1. faults' \in 0..MaxFaults
        BY <1>0, BoundsAssumption DEF TypeOK, Move
  <2>2. gone' \subseteq Requests
        BY <1>0 DEF TypeOK, Move
  <2>3. clean' \subseteq Targets
        BY <1>0, <1>5 DEF TypeOK, Move
  <2>4. fair' \subseteq Workers
        BY <1>0, <1>1 DEF TypeOK
  <2>5. QED BY <1>0, <1>1, <1>2, <1>3, <2>1, <2>2, <2>3, <2>4 DEF TypeOK
<1>7. PlacesInv'
  <2>1. \A v \in Workers \ {w} : Placed(v) => Placed(v)'
        BY <1>1, <1>2 DEF Placed
  <2>2. QED BY <2>1, <1>0, <1>2, <1>4 DEF PlacesInv
<1>8. GoneInv'
  <2>1. SUFFICES ASSUME NEW r \in gone' PROVE at'[r] # "new" /\ r \notin fair'
        BY DEF GoneInv
  <2>2. CASE r = w
    <3>1. at'[w] # "new"
          BY <1>1, <1>2 DEF Follows, ContainerPlaces, NetworkPlaces, IngressPlaces, EnsurePlaces, PortPlaces
    <3>2. QED BY <3>1, <2>1, <2>2, <1>0, <1>1 DEF GoneInv, Move
  <2>3. CASE r # w
    <3>1. r \in gone /\ r \in Workers
          BY <2>1, <2>3, <1>0 DEF Move, TypeOK, Workers
    <3>2. QED BY <3>1, <2>3, <1>0, <1>1, <1>2 DEF GoneInv
  <2>4. QED BY <2>2, <2>3
<1>9. BootInv'
  <2>1. stored' = stored \/ (boot = "done" /\ todo = {} /\ ~Busy(Boot))
    <3>1. CASE at[w] = "upsert"
      <4>1. w # Boot
            BY <3>1, <1>0, <1>1 DEF BootInv
      <4>2. w \in Requests
            BY <4>1 DEF Workers
      <4>3. QED BY <4>2, <1>0, <1>1 DEF BootInv
    <3>2. QED BY <3>1, <1>3
  <2>2. Busy(Boot)' => Busy(Boot) /\ at'[Boot] # "upsert"
    <3>1. Boot \in Workers
          BY DEF Workers
    <3>2. CASE w = Boot
          BY <3>1, <3>2, <1>2, <1>4 DEF Busy, Idle
    <3>3. CASE w # Boot
          BY <3>1, <3>3, <1>0, <1>2, <1>4 DEF BootInv
    <3>4. QED BY <3>2, <3>3
  <2>3. \A r \in Requests : ~Busy(r) => ~Busy(r)'
        BY <1>4 DEF Workers
  <2>4. QED BY <2>1, <2>2, <2>3, <1>0, <1>1 DEF BootInv
<1>10. Alone'
      BY <1>0, <1>1, <1>4 DEF Alone, TypeOK, Touches
<1>11. Undisturbed'
  <2>1. SUFFICES ASSUME NEW t \in clean', NEW v \in Workers, Busy(v)' PROVE t \notin Touches(job[v])
        BY <1>1 DEF Undisturbed, Quiescent, Touches
  <2>2. CASE t \in clean
        BY <2>1, <2>2, <1>0, <1>4 DEF Undisturbed, Quiescent
  <2>3. CASE t \notin clean
    <3>1. t = job[w].who /\ at'[w] = "ok" /\ w \in fair
          BY <2>1, <2>3 DEF Move
    <3>2. v # w
          BY <2>1, <3>1 DEF Busy, Idle
    <3>3. Touches(job[v]) \cap Touches(job[w]) = {}
          BY <3>1, <3>2, <2>1, <1>0, <1>1, <1>4 DEF Alone
    <3>4. QED BY <3>1, <3>3, <1>5, TouchesFacts
  <2>4. QED BY <2>2, <2>3
<1>12. LinksInv'
  <2>1. SUFFICES ASSUME NEW v \in Workers, Busy(v)',
                        at'[v] \in (IF job[v].who = Bridge THEN AfterUp ELSE InContainer)
                 PROVE  link'[Ifb[job[v].who]] = "up"
        BY <1>1, <1>3 DEF LinksInv
  <2>2. Ifb[job[v].who] \in Ifbs
        BY <2>1, <1>0, <1>4, Facts DEF PlacesInv, Placed, Job
  <2>3. CASE v # w
        BY <2>1, <2>2, <2>3, <1>0, <1>2, <1>3, <1>4 DEF LinksInv
  <2>4. CASE v = w
    <3>1. l \in (IF job[w].who = Bridge THEN AfterUp ELSE InContainer)
          BY <2>1, <2>4, <1>2 DEF AfterUp, PortPlaces, InContainer
    <3>2. CASE at[w] \in (IF job[w].who = Bridge THEN AfterUp ELSE InContainer)
          BY <3>2, <2>2, <2>4, <1>0, <1>1, <1>3 DEF LinksInv
    <3>3. CASE at[w] \notin (IF job[w].who = Bridge THEN AfterUp ELSE InContainer)
      <4>1. l # Now(w).fail /\ at[w] = "up"
            BY <3>1, <3>3, <1>0, <1>1, UpFirst DEF Move
      <4>2. Effect(Now(w).cmd) /\ Now(w).cmd.op = "up" /\ Now(w).cmd.dev = Ifb[job[w].who]
            BY <4>1, <1>0, <1>1, UpFirst DEF Move
      <4>3. link' = [link EXCEPT ![Ifb[job[w].who]] = "up"]
            BY <4>2 DEF Effect
      <4>4. QED BY <4>3, <2>2, <2>4, <1>0 DEF TypeOK
    <3>4. QED BY <3>2, <3>3
  <2>5. QED BY <2>3, <2>4
<1>13. QED BY <1>3, <1>6, <1>7, <1>8, <1>9, <1>10, <1>11, <1>12

-----------------------------------------------------------------------------
(* What one worker does to the devices of another's target. *)

\* The devices on which the limit of t depends are as they were.
Same(t) ==
    /\ root'[t] = root[t] /\ root'[Ifb[t]] = root[Ifb[t]]
    /\ slot'[t] = slot[t] /\ link'[Ifb[t]] = link[Ifb[t]]
    /\ t = Bridge => \A n \in 1..Len(Ports) : slot'[Ports[n]] = slot[Ports[n]]

\* A limit, and the progress of one, depend on these devices only.
LEMMA SameLimit ==
    ASSUME NEW t \in Targets, Same(t), NEW j, j.who = t, NEW l,
           NEW n \in 0..Len(Ports), l \in PortPlaces => n >= 1
    PROVE  /\ Limited(t, j) => Limited(t, j)'
           /\ t # Bridge /\ ContainerProgress(j, l) => ContainerProgress(j, l)'
           /\ t = Bridge /\ NetworkProgress(j, l, n) => NetworkProgress(j, l, n)'
<1>1. Rate(t)' = Rate(t) /\ Rate(Ifb[t])' = Rate(Ifb[t])
      BY DEF Same, Rate
<1>2. ASSUME t # Bridge
      PROVE  ContainerLimited(t, j) => ContainerLimited(t, j)'
      BY <1>1 DEF Same, ContainerLimited, Redirected
<1>3. ASSUME t = Bridge
      PROVE  NetworkLimited(j) => NetworkLimited(j)'
      BY <1>1, <1>3, Facts DEF Same, NetworkLimited, Redirected
<1>4. ASSUME t # Bridge
      PROVE  ContainerProgress(j, l) => ContainerProgress(j, l)'
      BY <1>1, <1>2, <1>4 DEF Same, ContainerProgress
<1>5. ASSUME t = Bridge
      PROVE  NetworkProgress(j, l, n) => NetworkProgress(j, l, n)'
  <2>1. l \in PortPlaces /\ PortProgress(l, n) => PortProgress(l, n)'
        BY <1>5, Facts DEF Same, PortProgress
  <2>2. \A m \in DOMAIN Ports : slot'[Ports[m]] = slot[Ports[m]]
        BY <1>5, Facts DEF Same
  <2>3. /\ root'[Bridge] = root[Bridge] /\ root'[Ifb[Bridge]] = root[Ifb[Bridge]]
        /\ link'[Ifb[Bridge]] = link[Ifb[Bridge]]
        /\ Rate(Bridge)' = Rate(Bridge) /\ Rate(Ifb[Bridge])' = Rate(Ifb[Bridge])
        BY <1>1, <1>5 DEF Same
  <2>4. QED BY <2>1, <2>2, <2>3, <1>3, <1>5 DEF NetworkProgress
<1>6. QED BY <1>2, <1>3, <1>4, <1>5 DEF Limited

\* A worker that does not touch t leaves its devices alone.
LEMMA Apart ==
    ASSUME BandwidthInv, NEW w \in Workers, NEW l, Move(w, l),
           NEW t \in Targets, t \notin Touches(job[w])
    PROVE  Same(t) /\ stored'[t] = stored[t]
<1>1. TypeOK /\ SlotInv /\ LinksInv /\ Busy(w) /\ Placed(w)
      BY MoveFacts DEF BandwidthInv, Move
<1>2. job[w] \in Job /\ job[w].who \in Targets /\ job[w].who \in Touches(job[w])
      BY <1>1, TouchesFacts DEF Placed, Job
<1>3. CASE UNCHANGED <<host, stored>>
      BY <1>3 DEF host, Same
<1>4. CASE Accepts(Now(w).cmd) /\ Effect(Now(w).cmd)
  <2>1. LET j == job[w]
        IN  /\ \A d \in Devices : d \notin {j.who, Ifb[j.who]} => root'[d] = root[d]
            /\ \A d \in Targets : d \notin Touches(j) => slot'[d] = slot[d]
            /\ \A i \in Ifbs : i # Ifb[j.who] => link'[i] = link[i]
            /\ at[w] # "upsert" => stored' = stored
            /\ at[w] = "upsert" => UNCHANGED host /\ stored' = [stored EXCEPT ![j.who] = j]
        BY <1>1, <1>4, Changes
  <2>2. t # job[w].who /\ Ifb[t] # Ifb[job[w].who] /\ t # Ifb[job[w].who] /\ Ifb[t] # job[w].who
        BY <1>2, Facts
  <2>3. root'[t] = root[t] /\ root'[Ifb[t]] = root[Ifb[t]] /\ slot'[t] = slot[t] /\ link'[Ifb[t]] = link[Ifb[t]]
        BY <2>1, <2>2, Facts
  <2>4. ASSUME t = Bridge, NEW n \in 1..Len(Ports)
        PROVE  Ports[n] \notin Touches(job[w])
        BY <2>4, <2>2, <1>2, Facts DEF Touches
  <2>5. stored'[t] = stored[t]
        BY <2>1, <2>2, <1>1 DEF TypeOK
  <2>6. QED BY <2>1, <2>3, <2>4, <2>5, Facts DEF Same
<1>5. QED BY <1>3, <1>4, MoveFacts

-----------------------------------------------------------------------------
(* What one command of a limit leaves behind is what the next one finds. *)

\* A refused deletion had nothing to delete.
LEMMA ContainerRefused ==
    ASSUME TypeOK, NEW w \in Workers, Busy(w), Placed(w), NEW j, j = job[w], j.who # Bridge,
           ContainerProgress(j, at[w]),
           ~Accepts(Now(w).cmd) \/ Now(w).cmd.op \in {"addslot", "matchall"},
           NEW l, l = Now(w).fail, l # "failed"
    PROVE  ContainerProgress(j, l)
<1> DEFINE c == j.who
           i == Ifb[c]
<1>1. /\ c \in Targets /\ i \in Ifbs /\ i \notin Targets
      /\ c \in Devices /\ i \in Devices /\ j.egress \in Nat /\ j.ingress \in Nat
      BY Facts DEF Placed, Job
<1>2. at[w] \in {"delroot", "delslot", "show", "delifb"}
      BY ContainerTable, UpsertTable
      DEF Is, Placed, ContainerPlaces, IngressPlaces, EnsurePlaces
<1>3. CASE at[w] = "delroot"
      BY <1>1, <1>3, ContainerTable DEF Is, Accepts, ContainerProgress, IngressPlaces, EnsurePlaces
<1>4. CASE at[w] = "delslot"
      BY <1>1, <1>4, ContainerTable
      DEF Is, Accepts, ContainerProgress, IngressPlaces, EnsurePlaces, Rate
<1>5. CASE at[w] = "show"
      BY <1>1, <1>5, ContainerTable
      DEF Is, Accepts, Exists, ContainerProgress, IngressPlaces, EnsurePlaces
<1>6. CASE at[w] = "delifb"
      BY <1>1, <1>6, ContainerTable DEF Is, Accepts, ContainerProgress, IngressPlaces, EnsurePlaces
<1>7. QED BY <1>2, <1>3, <1>4, <1>5, <1>6

\* A command of a container's limit that succeeds leaves what the next one needs.
LEMMA ContainerRuns ==
    ASSUME TypeOK, SlotInv, LinksInv, NEW w \in Workers, Busy(w), Placed(w), at[w] # "upsert",
           NEW j, j = job[w], j.who # Bridge, ContainerProgress(j, at[w]),
           Accepts(Now(w).cmd), Effect(Now(w).cmd), NEW l, l = Now(w).ok
    PROVE  ContainerProgress(j, l)'
<1> DEFINE c == j.who
           i == Ifb[c]
<1>1. /\ c \in Targets /\ i \in Ifbs /\ i \notin Targets /\ i # c /\ i # Ifb[Bridge]
      /\ c \in Devices /\ i \in Devices /\ j.egress \in Nat /\ j.ingress \in Nat
      /\ formatRate(j.egress) \in Rates /\ formatRate(j.ingress) \in Rates
      BY Facts DEF Placed, Job
<1>2. /\ None \notin Rates /\ None # i
      BY <1>1 DEF Rates
<1>3. slot[c].kind # "ingress" => slot[c].to # i
      BY <1>1, <1>2 DEF SlotInv, TypeOK
<1>4. /\ at[w] \in {"look", "delroot", "delslot", "tbf"} \cup IngressPlaces
      /\ at[w] = "tbf" => j.egress > 0
      /\ at[w] \in IngressPlaces => j.ingress > 0
      BY DEF Placed, ContainerPlaces
<1> USE DEF ContainerProgress, IngressPlaces, EnsurePlaces
<1>5. CASE at[w] = "look"
  <2>1. l = "delroot"
        BY <1>5, ContainerTable DEF Is
  <2>2. QED BY <2>1
<1>6. CASE at[w] = "delroot"
  <2>1. root' = [root EXCEPT ![c] = None] /\ l = "delslot"
        BY <1>6, ContainerTable DEF Is, Effect, Root
  <2>2. QED BY <2>1, <1>1 DEF TypeOK
<1>7. CASE at[w] = "delslot"
  <2>1. slot' = [slot EXCEPT ![c] = NoSlot] /\ UNCHANGED <<root, link>>
        BY <1>7, ContainerTable DEF Is, Effect, Slot
  <2>2. slot'[c].kind # "ingress" /\ root'[c] = None
        BY <2>1, <1>1, <1>7 DEF TypeOK, NoSlot
  <2>3. l = IF j.egress > 0 THEN "tbf" ELSE "show"
        BY <1>7, ContainerTable DEF Is
  <2>4. Rate(c)' = None
        BY <2>2 DEF Rate
  <2>5. CASE j.egress > 0
        BY <2>2, <2>3, <2>5
  <2>6. CASE ~(j.egress > 0)
        BY <2>2, <2>3, <2>4, <2>6
  <2>7. QED BY <2>5, <2>6
<1>8. CASE at[w] = "tbf"
  <2>1. root' = [root EXCEPT ![c] = [rate |-> formatRate(j.egress), leaf |-> TRUE]]
        /\ UNCHANGED <<slot, link>>
        BY <1>8, ContainerTable DEF Is, Effect, Root
  <2>2. root'[c] # None /\ root'[c].rate = formatRate(j.egress)
    <3>1. root'[c] = [rate |-> formatRate(j.egress), leaf |-> TRUE]
          BY <2>1, <1>1 DEF TypeOK
    <3>2. QED BY <3>1, <1>1, QdiscFacts
  <2>3. Rate(c)' = formatRate(j.egress)
        BY <2>2 DEF Rate
  <2>4. slot'[c].kind # "ingress" /\ slot'[c].to # i
        BY <2>1, <1>3, <1>8
  <2>5. l = IF j.ingress > 0 THEN "show" ELSE "upsert"
        BY <1>8, ContainerTable DEF Is
  <2>6. CASE j.ingress > 0
        BY <2>3, <2>4, <2>5, <2>6, <1>4, <1>8
  <2>7. CASE ~(j.ingress > 0)
    <3>1. ContainerLimited(c, j)'
          BY <2>3, <2>4, <2>7, <1>4, <1>8 DEF ContainerLimited
    <3>2. QED BY <3>1, <2>5, <2>7
  <2>8. QED BY <2>6, <2>7
<1>9. CASE at[w] = "show"
  <2>1. UNCHANGED <<root, slot, link>> /\ l = "up" /\ link[i] # "absent"
        BY <1>1, <1>9, ContainerTable DEF Is, Effect, Accepts, Exists, host
  <2>2. QED BY <2>1, <1>9 DEF Rate
<1>10. CASE at[w] = "addlink"
  <2>1. link' = [link EXCEPT ![i] = "down"] /\ UNCHANGED <<root, slot>> /\ l = "up"
        BY <1>10, ContainerTable DEF Is, Effect
  <2>2. link'[i] # "absent"
        BY <2>1, <1>1 DEF TypeOK
  <2>3. QED BY <2>1, <2>2, <1>10 DEF Rate
<1>11. CASE at[w] = "up"
  <2>1. UNCHANGED <<root, slot>> /\ l = "delifb"
        BY <1>11, ContainerTable DEF Is, Effect
  <2>2. QED BY <2>1, <1>11 DEF Rate
<1>12. CASE at[w] = "delifb"
  <2>1. root' = [root EXCEPT ![i] = None] /\ UNCHANGED slot /\ l = "addslot"
        BY <1>12, ContainerTable DEF Is, Effect, Root
  <2>2. root'[i] = None /\ root'[c] = root[c]
        BY <2>1, <1>1 DEF TypeOK
  <2>3. QED BY <2>1, <2>2, <1>12 DEF Rate
<1>13. CASE at[w] = "addslot"
  <2>1. slot' = [slot EXCEPT ![c] = [kind |-> "ingress", to |-> None]] /\ UNCHANGED root
        /\ l = "u32"
        BY <1>13, ContainerTable DEF Is, Effect, Slot
  <2>2. slot'[c].kind = "ingress"
        BY <2>1, <1>1 DEF TypeOK
  <2>3. root[i] = None /\ Rate(c) = IF j.egress > 0 THEN formatRate(j.egress) ELSE None
        BY <1>13
  <2>4. QED BY <2>1, <2>2, <2>3 DEF Rate
<1>14. CASE at[w] = "u32"
  <2>1. slot' = [slot EXCEPT ![c] = [slot[c] EXCEPT !.to = i]] /\ UNCHANGED root
        /\ l = "tbfifb"
        BY <1>14, ContainerTable DEF Is, Effect, Slot
  <2>2. slot'[c].to = i
        BY <2>1, <1>1 DEF TypeOK
  <2>3. root[i] = None /\ Rate(c) = IF j.egress > 0 THEN formatRate(j.egress) ELSE None
        BY <1>14
  <2>4. QED BY <2>1, <2>2, <2>3 DEF Rate
<1>15. CASE at[w] = "tbfifb"
  <2>1. root' = [root EXCEPT ![i] = [rate |-> formatRate(j.ingress), leaf |-> TRUE]]
        /\ UNCHANGED <<slot, link>> /\ l = "upsert"
        BY <1>15, ContainerTable DEF Is, Effect, Root
  <2>2. root'[i] # None /\ root'[i].rate = formatRate(j.ingress) /\ root'[c] = root[c]
    <3>1. root'[i] = [rate |-> formatRate(j.ingress), leaf |-> TRUE] /\ root'[c] = root[c]
          BY <2>1, <1>1 DEF TypeOK
    <3>2. QED BY <3>1, <1>1, QdiscFacts
  <2>3. Rate(i)' = formatRate(j.ingress) /\ Rate(c)' = Rate(c)
        BY <2>2 DEF Rate
  <2>4. Redirected(c, i)'
        BY <2>1, <1>15 DEF Redirected, LinksInv, InContainer
  <2>5. ContainerLimited(c, j)'
        BY <2>3, <2>4, <1>4, <1>15 DEF ContainerLimited
  <2>6. QED BY <2>1, <2>5
<1>16. QED BY <1>4, <1>5, <1>6, <1>7, <1>8, <1>9, <1>10, <1>11, <1>12, <1>13, <1>14, <1>15

\* The same of a network's limit; a port refused one redirection is to have the other.
LEMMA NetworkRefused ==
    ASSUME TypeOK, NEW w \in Workers, Busy(w), Placed(w), NEW j, j = job[w], j.who = Bridge,
           NEW n, n = port[w], NetworkProgress(j, at[w], n),
           ~Accepts(Now(w).cmd) \/ Now(w).cmd.op \in {"addslot", "matchall"},
           NEW l, l = Now(w).fail, l # "failed"
    PROVE  NetworkProgress(j, l, n) /\ l # "delingress"
<1> DEFINE b == Bridge
           i == Ifb[Bridge]
<1>1. b \in Targets /\ b \in Devices /\ b \notin Ifbs /\ i \in Ifbs /\ i \in Devices
      BY Facts
<1>2. at[w] \in {"delroot", "delslot", "delslot2", "delifb", "show"}
      \/ at[w] \in {"delingress", "delclsact", "addclsact", "matchall", "undo"}
      BY NetworkTable, UpsertTable DEF Is, Placed, NetworkPlaces, EnsurePlaces, PortPlaces
<1>3. at[w] \in PortPlaces => PortProgress(at[w], n) /\ Rate(b) = NetworkRate(j) /\ root[i] = None
      BY DEF NetworkProgress, AfterUp
<1>4. ASSUME l \in PortPlaces, PortProgress(l, n), Rate(b) = NetworkRate(j), root[i] = None
      PROVE  NetworkProgress(j, l, n)
      BY <1>4 DEF NetworkProgress, PortPlaces, EnsurePlaces
<1>5. CASE at[w] = "delroot"
  <2>1. l = "delslot" /\ root[b] = None
        BY <1>1, <1>5, NetworkTable DEF Is, Accepts
  <2>2. QED BY <2>1 DEF NetworkProgress, PortPlaces, EnsurePlaces, AfterUp
<1>6. CASE at[w] \in {"delslot", "delslot2"}
  <2>1. l \in {"delslot2", "delifb"} /\ root[b] = None
        BY <1>6, NetworkTable DEF Is, NetworkProgress
  <2>2. QED BY <2>1 DEF NetworkProgress, PortPlaces, EnsurePlaces, AfterUp
<1>7. CASE at[w] = "delifb"
  <2>1. l = "htb" /\ root[b] = None /\ root[i] = None
        BY <1>1, <1>7, NetworkTable DEF Is, Accepts, NetworkProgress
  <2>2. QED BY <2>1 DEF NetworkProgress, PortPlaces, EnsurePlaces, AfterUp
<1>8. CASE at[w] = "show"
  <2>1. l = "addlink" /\ link[i] = "absent"
        BY <1>1, <1>8, NetworkTable DEF Is, Accepts, Exists
  <2>2. root[i] = None /\ Rate(b) = NetworkRate(j)
        BY <1>8 DEF NetworkProgress, EnsurePlaces
  <2>3. QED BY <2>1, <2>2 DEF NetworkProgress, PortPlaces
<1>9. CASE at[w] \in {"delingress", "delclsact", "undo"}
  <2>1. l = (CASE at[w] = "delingress" -> "delclsact" [] at[w] = "delclsact" -> "addclsact"
               [] at[w] = "undo" -> "addingress")
        BY <1>9, NetworkTable DEF Is
  <2>2. slot[Ports[n]].kind # (IF at[w] = "delingress" THEN "ingress" ELSE "clsact")
        BY <1>9, NetworkTable DEF Is, Accepts
  <2>3. Ports[n] \in Targets
        BY <1>9, Facts DEF Placed, TypeOK, PortPlaces
  <2>4. PortProgress(l, n)
        BY <2>1, <2>2, <2>3, <1>3, <1>9 DEF PortProgress, PortPlaces, TypeOK
  <2>5. QED BY <2>1, <2>4, <1>3, <1>4, <1>9 DEF PortPlaces
<1>10. CASE at[w] \in {"addclsact", "matchall"}
  <2>1. l = "undo"
        BY <1>10, NetworkTable DEF Is
  <2>2. PortProgress(l, n)
        BY <2>1, <1>3, <1>10 DEF PortProgress, PortPlaces
  <2>3. QED BY <2>1, <2>2, <1>3, <1>4, <1>10 DEF PortPlaces
<1>11. QED BY <1>2, <1>5, <1>6, <1>7, <1>8, <1>9, <1>10

\* The ports: one after the other is redirected.
LEMMA PortRuns ==
    ASSUME TypeOK, LinksInv, NEW w \in Workers, Busy(w), Placed(w),
           NEW j, j = job[w], j.who = Bridge, NEW n, n = port[w], at[w] \in PortPlaces,
           PortProgress(at[w], n), Rate(Bridge) = NetworkRate(j), root[Ifb[Bridge]] = None,
           Accepts(Now(w).cmd), Effect(Now(w).cmd), NEW l, l = Now(w).ok
    PROVE  NetworkProgress(j, l, IF l = "delingress" THEN n + 1 ELSE n)'
<1> DEFINE i == Ifb[Bridge]
           p == Ports[n]
<1>1. /\ n \in 1..Len(Ports) /\ p \in Targets /\ i \in Ifbs /\ Len(Ports) \in Nat
      /\ DOMAIN Ports = 1..Len(Ports)
      BY Facts DEF Placed, TypeOK
<1>2. \A m \in 1..Len(Ports) : Ports[m] \in Targets /\ (m # n => Ports[m] # p)
      BY <1>1, Facts
<1>3. \A m \in 1..(n - 1) : slot[Ports[m]].to = i
      BY DEF PortProgress
<1>4. Now(w).cmd.op \in {"delslot", "addslot", "matchall", "u32"} /\ Now(w).cmd.dev = p
      BY NetworkTable DEF Is, PortPlaces
<1>5. slot' = [slot EXCEPT ![p] = Slot(Now(w).cmd)] /\ UNCHANGED <<root, link, stored>>
      BY <1>4 DEF Effect
<1>6. Rate(Bridge)' = NetworkRate(j) /\ root'[i] = None
      BY <1>5 DEF Rate
<1>7. /\ \A m \in 1..Len(Ports) : m # n => slot'[Ports[m]] = slot[Ports[m]]
      /\ slot'[p] = Slot(Now(w).cmd)
      BY <1>1, <1>2, <1>5 DEF TypeOK
<1>8. \A m \in 1..(n - 1) : slot'[Ports[m]].to = i
      BY <1>1, <1>3, <1>7
<1>9. ASSUME l \in PortPlaces \ {"delingress"}, PortProgress(l, n)'
      PROVE  NetworkProgress(j, l, n)'
      BY <1>6, <1>9 DEF NetworkProgress, PortPlaces, EnsurePlaces
<1>10. CASE at[w] \in {"delingress", "delclsact", "undo"}
  <2>1. l = (CASE at[w] = "delingress" -> "delclsact" [] at[w] = "delclsact" -> "addclsact"
               [] at[w] = "undo" -> "addingress")
        BY <1>10, NetworkTable DEF Is
  <2>2. slot'[p] = NoSlot
        BY <1>7, <1>10, NetworkTable DEF Is, Slot
  <2>3. PortProgress(l, n)'
        BY <2>1, <2>2, <1>8, <1>10 DEF PortProgress, NoSlot
  <2>4. QED BY <2>1, <2>3, <1>9, <1>10 DEF PortPlaces
<1>11. CASE at[w] \in {"addclsact", "addingress"}
  <2>1. l = (IF at[w] = "addclsact" THEN "matchall" ELSE "u32v4")
        BY <1>11, NetworkTable DEF Is
  <2>2. slot'[p].kind = (IF at[w] = "addclsact" THEN "clsact" ELSE "ingress")
        BY <1>7, <1>11, NetworkTable DEF Is, Slot
  <2>3. PortProgress(l, n)'
        BY <2>1, <2>2, <1>8, <1>11 DEF PortProgress
  <2>4. QED BY <2>1, <2>3, <1>9, <1>11 DEF PortPlaces
<1>12. CASE at[w] \in {"matchall", "u32v4", "u32v6"}
  <2>1. slot'[p] = [slot[p] EXCEPT !.to = i]
        BY <1>7, <1>12, NetworkTable DEF Is, Slot
  <2>2. slot'[p].to = i /\ slot'[p].kind = slot[p].kind
        BY <2>1, <1>1 DEF TypeOK
  <2>3. CASE at[w] = "u32v4"
    <3>1. l = "u32v6" /\ slot'[p].kind = "ingress"
          BY <2>2, <2>3, NetworkTable DEF Is, PortProgress
    <3>2. PortProgress(l, n)'
          BY <3>1, <1>8 DEF PortProgress
    <3>3. QED BY <3>1, <3>2, <1>9 DEF PortPlaces
  <2>4. CASE at[w] # "u32v4"
    <3>1. l = IF n < Len(Ports) THEN "delingress" ELSE "htbifb"
          BY <2>4, <1>12, NetworkTable DEF Is
    <3>2. \A m \in 1..n : slot'[Ports[m]].to = i
          BY <2>2, <1>1, <1>8
    <3>3. CASE n < Len(Ports)
      <4>1. PortProgress("delingress", n + 1)'
            BY <3>2, <1>1 DEF PortProgress
      <4>2. QED BY <4>1, <3>1, <3>3, <1>6 DEF NetworkProgress, PortPlaces, EnsurePlaces
    <3>4. CASE ~(n < Len(Ports))
      <4>1. \A m \in DOMAIN Ports : slot'[Ports[m]].to = i
            BY <3>2, <3>4, <1>1
      <4>2. QED BY <4>1, <3>1, <3>4, <1>6 DEF NetworkProgress, PortPlaces, EnsurePlaces
    <3>5. QED BY <3>3, <3>4
  <2>5. QED BY <2>3, <2>4
<1>13. QED BY <1>10, <1>11, <1>12 DEF PortPlaces

\* The same of a network's limit, ports and both shared caps included.
LEMMA NetworkRuns ==
    ASSUME TypeOK, SlotInv, LinksInv, NEW w \in Workers, Busy(w), Placed(w), at[w] # "upsert",
           NEW j, j = job[w], j.who = Bridge, NEW n, n = port[w], NetworkProgress(j, at[w], n),
           Accepts(Now(w).cmd), Effect(Now(w).cmd), NEW l, l = Now(w).ok
    PROVE  NetworkProgress(j, l, IF l = "delingress" THEN n + 1 ELSE n)'
<1> DEFINE b == Bridge
           i == Ifb[Bridge]
           m == IF l = "delingress" THEN n + 1 ELSE n
<1>1. /\ b \in Targets /\ b \in Devices /\ b \notin Ifbs /\ i \in Ifbs /\ i \in Devices /\ b # i
      /\ j.ingress \in Nat /\ NetworkRate(j) \in Rates /\ formatRate(j.ingress) \in Rates
      /\ DOMAIN Ports = 1..Len(Ports) /\ Len(Ports) \in Nat
      BY Facts DEF Placed, Job, NetworkRate
<1>2. \/ at[w] \in {"look", "delroot", "delslot", "delslot2", "delifb", "htb", "class", "leaf"}
      \/ at[w] \in EnsurePlaces \cup {"list"} \/ at[w] \in PortPlaces
      \/ at[w] \in {"htbifb", "classifb", "leafifb"}
      BY DEF Placed, NetworkPlaces
<1>3. at[w] \in EnsurePlaces \cup AfterUp => j.ingress > 0
      BY DEF Placed
<1>4. /\ at[w] \in {"delslot", "delslot2", "delifb", "htb"} => root[b] = None
      /\ at[w] = "class" => root[b] # None /\ root[b].rate = None
      /\ at[w] = "leaf" => Rate(b) = NetworkRate(j) /\ ~root[b].leaf
      /\ at[w] \in EnsurePlaces \cup AfterUp => Rate(b) = NetworkRate(j)
      /\ at[w] \in {"htb", "class", "leaf", "list", "htbifb"} \cup EnsurePlaces \cup PortPlaces =>
             root[i] = None
      /\ at[w] \in PortPlaces => PortProgress(at[w], n)
      /\ at[w] \in {"htbifb", "classifb", "leafifb"} =>
             \A k \in DOMAIN Ports : slot[Ports[k]].to = i
      /\ at[w] = "classifb" => root[i] # None /\ root[i].rate = None
      /\ at[w] = "leafifb" => Rate(i) = formatRate(j.ingress) /\ ~root[i].leaf
      BY DEF NetworkProgress
<1> HIDE DEF m
<1> USE DEF EnsurePlaces, AfterUp, PortPlaces
<1>5. CASE at[w] = "look"
  <2>1. l = "delroot"
        BY <1>5, NetworkTable DEF Is
  <2>2. QED BY <2>1 DEF NetworkProgress
<1>6. CASE at[w] = "delroot"
  <2>1. l = "delslot" /\ root' = [root EXCEPT ![b] = None]
        BY <1>6, NetworkTable DEF Is, Effect, Root
  <2>2. root'[b] = None
        BY <2>1, <1>1 DEF TypeOK
  <2>3. QED BY <2>1, <2>2 DEF NetworkProgress
<1>7. CASE at[w] \in {"delslot", "delslot2"}
  <2>1. l \in {"delslot2", "delifb"} /\ root' = root
        BY <1>7, NetworkTable DEF Is, Effect
  <2>2. QED BY <2>1, <1>4, <1>7 DEF NetworkProgress
<1>8. CASE at[w] = "delifb"
  <2>1. l = "htb" /\ root' = [root EXCEPT ![i] = None]
        BY <1>8, NetworkTable DEF Is, Effect, Root
  <2>2. root'[b] = None /\ root'[i] = None
        BY <2>1, <1>1, <1>4, <1>8 DEF TypeOK
  <2>3. QED BY <2>1, <2>2 DEF NetworkProgress
<1>9. CASE at[w] = "htb"
  <2>1. l = "class" /\ root' = [root EXCEPT ![b] = [rate |-> None, leaf |-> FALSE]]
        BY <1>9, NetworkTable DEF Is, Effect, Root
  <2>2. root'[b] = [rate |-> None, leaf |-> FALSE] /\ root'[i] = root[i]
        BY <2>1, <1>1 DEF TypeOK
  <2>3. root'[b] # None /\ root'[b].rate = None /\ root'[i] = None
        BY <2>2, <1>4, <1>9, QdiscFacts
  <2>4. QED BY <2>1, <2>3 DEF NetworkProgress
<1>10. CASE at[w] = "class"
  <2>1. l = "leaf" /\ root' = [root EXCEPT ![b] = [rate |-> NetworkRate(j), leaf |-> FALSE]]
        BY <1>10, NetworkTable DEF Is, Effect, Root
  <2>2. root'[b] = [rate |-> NetworkRate(j), leaf |-> FALSE] /\ root'[i] = root[i]
        BY <2>1, <1>1 DEF TypeOK
  <2>3. root'[b] # None /\ root'[b].rate = NetworkRate(j) /\ ~root'[b].leaf /\ root'[i] = None
        BY <2>2, <1>1, <1>4, <1>10, QdiscFacts
  <2>4. QED BY <2>1, <2>3 DEF NetworkProgress, Rate
<1>11. CASE at[w] = "leaf"
  <2>1. /\ l = IF j.ingress > 0 THEN "show" ELSE "upsert"
        /\ root' = [root EXCEPT ![b] = [root[b] EXCEPT !.leaf = TRUE]] /\ root[b] # None
        BY <1>11, NetworkTable DEF Is, Effect, Accepts, Root
  <2>2. root[b].rate = NetworkRate(j) /\ root[b] \in Qdisc /\ root[i] = None
        BY <2>1, <1>1, <1>4, <1>11 DEF Rate, TypeOK
  <2>3. [root[b] EXCEPT !.leaf = TRUE] = [rate |-> NetworkRate(j), leaf |-> TRUE]
        BY <2>2, LeafFacts
  <2>4. root'[b] = [rate |-> NetworkRate(j), leaf |-> TRUE] /\ root'[i] = None
        BY <2>1, <2>2, <2>3, <1>1 DEF TypeOK
  <2>5. Rate(b)' = NetworkRate(j) /\ Rate(i)' = None
        BY <2>4, <1>1, QdiscFacts DEF Rate
  <2>6. CASE j.ingress > 0
        BY <2>1, <2>4, <2>5, <2>6 DEF NetworkProgress
  <2>7. CASE ~(j.ingress > 0)
    <3>1. NetworkLimited(j)'
          BY <2>5, <2>7 DEF NetworkLimited, NetworkRate
    <3>2. QED BY <3>1, <2>1, <2>7 DEF NetworkProgress
  <2>8. QED BY <2>6, <2>7
<1>12. CASE at[w] \in EnsurePlaces \cup {"list"}
  <2>1. UNCHANGED root /\ l \in {"up", "list", "delingress"} /\ (l = "up" <=> at[w] \in {"show", "addlink"})
        /\ (l = "delingress" <=> at[w] = "list")
        BY <1>12, NetworkTable DEF Is, Effect, host
  <2>2. Rate(b)' = NetworkRate(j) /\ root'[i] = None
        BY <2>1, <1>4, <1>12 DEF Rate
  <2>3. CASE at[w] \in {"show", "addlink"}
    <3>1. CASE at[w] = "show"
      <4>1. link'[i] # "absent"
            BY <3>1, <1>1, NetworkTable DEF Is, Effect, Accepts, Exists, host
      <4>2. QED BY <4>1, <2>1, <2>2, <2>3 DEF NetworkProgress
    <3>2. CASE at[w] = "addlink"
      <4>1. link' = [link EXCEPT ![i] = "down"]
            BY <3>2, NetworkTable DEF Is, Effect
      <4>2. link'[i] # "absent"
            BY <4>1, <1>1 DEF TypeOK
      <4>3. QED BY <4>2, <2>1, <2>2, <2>3 DEF NetworkProgress
    <3>3. QED BY <3>1, <3>2, <2>3
  <2>4. CASE at[w] = "up"
        BY <2>1, <2>2, <2>4, <1>12 DEF NetworkProgress
  <2>5. CASE at[w] = "list"
    <3>1. l = "delingress" /\ n = 0
          BY <2>1, <2>5 DEF Placed, AfterList
    <3>2. PortProgress("delingress", 1)'
          BY DEF PortProgress
    <3>3. QED BY <3>1, <3>2, <2>2 DEF NetworkProgress
  <2>6. QED BY <2>3, <2>4, <2>5, <1>12
<1>13. CASE at[w] \in PortPlaces
      BY <1>4, <1>13, PortRuns
<1>14. CASE at[w] \in {"htbifb", "classifb", "leafifb"}
  <2>1. link[i] = "up" /\ j.ingress > 0 /\ \A k \in DOMAIN Ports : slot[Ports[k]].to = i
        BY <1>3, <1>4, <1>14 DEF LinksInv
  <2>2. UNCHANGED <<slot, link>>
        BY <1>14, NetworkTable DEF Is, Effect
  <2>3. Rate(b) = NetworkRate(j)
        BY <1>4, <1>14
  <2>4. CASE at[w] = "htbifb"
    <3>1. l = "classifb" /\ root' = [root EXCEPT ![i] = [rate |-> None, leaf |-> FALSE]]
          BY <2>4, NetworkTable DEF Is, Effect, Root
    <3>2. root'[i] = [rate |-> None, leaf |-> FALSE] /\ root'[b] = root[b]
          BY <3>1, <1>1 DEF TypeOK
    <3>3. root'[i] # None /\ root'[i].rate = None /\ Rate(b)' = NetworkRate(j)
          BY <3>2, <2>3, QdiscFacts DEF Rate
    <3>4. QED BY <3>1, <3>3, <2>1, <2>2 DEF NetworkProgress
  <2>5. CASE at[w] = "classifb"
    <3>1. l = "leafifb" /\ root' = [root EXCEPT ![i] = [rate |-> formatRate(j.ingress), leaf |-> FALSE]]
          BY <2>5, NetworkTable DEF Is, Effect, Root
    <3>2. root'[i] = [rate |-> formatRate(j.ingress), leaf |-> FALSE] /\ root'[b] = root[b]
          BY <3>1, <1>1 DEF TypeOK
    <3>3. root'[i] # None /\ root'[i].rate = formatRate(j.ingress) /\ ~root'[i].leaf
          BY <3>2, <1>1, QdiscFacts
    <3>4. Rate(i)' = formatRate(j.ingress) /\ Rate(b)' = NetworkRate(j)
          BY <3>2, <3>3, <2>3 DEF Rate
    <3>5. QED BY <3>1, <3>3, <3>4, <2>1, <2>2 DEF NetworkProgress
  <2>6. CASE at[w] = "leafifb"
    <3>1. l = "upsert" /\ root' = [root EXCEPT ![i] = [root[i] EXCEPT !.leaf = TRUE]] /\ root[i] # None
          BY <2>6, NetworkTable DEF Is, Effect, Accepts, Root
    <3>2. root[i].rate = formatRate(j.ingress) /\ root[i] \in Qdisc
          BY <3>1, <2>6, <1>1, <1>4 DEF Rate, TypeOK
    <3>3. [root[i] EXCEPT !.leaf = TRUE] = [rate |-> formatRate(j.ingress), leaf |-> TRUE]
          BY <3>2, LeafFacts
    <3>4. root'[i] = [rate |-> formatRate(j.ingress), leaf |-> TRUE] /\ root'[b] = root[b]
          BY <3>1, <3>3, <1>1 DEF TypeOK
    <3>5. Rate(i)' = formatRate(j.ingress) /\ Rate(b)' = NetworkRate(j)
          BY <3>4, <2>3, <1>1, QdiscFacts DEF Rate
    <3>6. NetworkLimited(j)'
          BY <3>5, <2>1, <2>2 DEF NetworkLimited, NetworkRate, Redirected
    <3>7. QED BY <3>1, <3>6 DEF NetworkProgress
  <2>7. QED BY <2>4, <2>5, <2>6, <1>14
<1>15. QED BY <1>2, <1>5, <1>6, <1>7, <1>8, <1>9, <1>10, <1>11, <1>12, <1>13, <1>14

\* A command that succeeds leaves what the next one needs.
LEMMA RunsProgress ==
    ASSUME BandwidthInv, NEW w \in Workers, Busy(w), w \in fair, at[w] # "upsert",
           NEW j, j = job[w], NEW n, n = port[w],
           Accepts(Now(w).cmd), Effect(Now(w).cmd), NEW l, l = Now(w).ok
    PROVE  ProgressAt(j, l, IF l = "delingress" THEN n + 1 ELSE n)'
<1> DEFINE m == IF l = "delingress" THEN n + 1 ELSE n
<1>1. TypeOK /\ SlotInv /\ LinksInv /\ Placed(w) /\ ProgressAt(j, at[w], n)
      BY DEF BandwidthInv, PlacesInv, ProgressInv, Progress
<1>2. CASE j.who = Bridge
  <2>1. NetworkProgress(j, at[w], n)
        BY <1>1, <1>2 DEF ProgressAt
  <2>2. NetworkProgress(j, l, m)'
        BY <1>1, <1>2, <2>1, NetworkRuns
  <2>3. QED BY <1>2, <2>2 DEF ProgressAt
<1>3. CASE j.who # Bridge
  <2>1. ContainerProgress(j, at[w])
        BY <1>1, <1>3 DEF ProgressAt
  <2>2. ContainerProgress(j, l)'
        BY <1>1, <1>3, <2>1, ContainerRuns
  <2>3. QED BY <1>3, <2>2 DEF ProgressAt
<1>4. QED BY <1>2, <1>3

\* An undisturbed worker makes its own progress, whether its command succeeds or not.
LEMMA OwnProgress ==
    ASSUME BandwidthInv, NEW w \in Workers, NEW l, Move(w, l), w \in fair', Busy(w)'
    PROVE  Progress(w)'
<1>1. /\ TypeOK /\ Placed(w) /\ Busy(w) /\ w \in fair /\ Progress(w) /\ job' = job
      /\ Advance(w, l) /\ (l = "failed" \/ l = "ok" \/ Follows(w, l))
      BY MoveFacts DEF BandwidthInv, ProgressInv, Move
<1>2. at'[w] = l /\ l \notin Idle
      BY <1>1, Advances DEF Busy, Idle
<1>3. port'[w] = IF l = "delingress" THEN port[w] + 1 ELSE port[w]
      BY <1>1 DEF Advance, TypeOK
<1>4. SUFFICES ASSUME NEW j, j = job[w], NEW n, n = port[w]
               PROVE  ProgressAt(j, l, IF l = "delingress" THEN n + 1 ELSE n)'
      BY <1>1, <1>2, <1>3 DEF Progress
<1>5. at[w] # "upsert"
  <2>1. at[w] = "upsert" => Now(w).ok = "ok" /\ Now(w).fail = "failed"
        BY UpsertTable DEF Is
  <2>2. l \in {Now(w).ok, Now(w).fail}
        BY DEF Move
  <2>3. QED BY <1>2, <2>1, <2>2 DEF Idle
<1>6. CASE l = Now(w).ok /\ Accepts(Now(w).cmd) /\ Effect(Now(w).cmd)
      BY <1>1, <1>4, <1>5, <1>6, RunsProgress
<1>7. CASE /\ l = Now(w).fail /\ UNCHANGED <<host, stored>>
           /\ ~Accepts(Now(w).cmd) \/ Now(w).cmd.op \in {"addslot", "matchall"}
  <2>1. ProgressAt(j, at[w], n)
        BY <1>1, <1>4 DEF Progress
  <2>2. l # "failed"
        BY <1>2 DEF Idle
  <2>3. j.who \in Targets /\ port[w] \in 0..Len(Ports)
        BY <1>1, <1>4 DEF Placed, Job, TypeOK
  <2>4. Same(j.who)
        BY <1>7 DEF Same, host
  <2>5. CASE j.who = Bridge
    <3>1. NetworkProgress(j, at[w], n)
          BY <2>1, <2>5 DEF ProgressAt
    <3>2. NetworkProgress(j, l, n) /\ l # "delingress"
          BY <3>1, <2>2, <2>5, <1>1, <1>4, <1>7, NetworkRefused
    <3>3. NetworkProgress(j, l, n)'
          BY <3>2, <1>7 DEF host, NetworkProgress, PortProgress, NetworkLimited, Rate, Redirected
    <3>4. QED BY <3>2, <3>3, <2>5 DEF ProgressAt
  <2>6. CASE j.who # Bridge
    <3>1. ContainerProgress(j, at[w])
          BY <2>1, <2>6 DEF ProgressAt
    <3>2. ContainerProgress(j, l)
          BY <3>1, <2>2, <2>6, <1>1, <1>4, <1>7, ContainerRefused
    <3>3. ContainerProgress(j, l)'
          BY <3>2, <1>7 DEF host, ContainerProgress, ContainerLimited, Rate, Redirected
    <3>4. QED BY <3>3, <2>6 DEF ProgressAt
  <2>7. QED BY <2>5, <2>6
<1>8. QED BY <1>6, <1>7 DEF Move

\* Those whom it does not touch keep theirs.
LEMMA OthersProgress ==
    ASSUME BandwidthInv, NEW w \in Workers, NEW l, Move(w, l),
           NEW v \in Workers, v # w, v \in fair, Busy(v)
    PROVE  Progress(v)'
<1>1. /\ TypeOK /\ Placed(w) /\ Placed(v) /\ Busy(w) /\ Progress(v) /\ job' = job
      /\ Advance(w, l) /\ (l = "failed" \/ l = "ok" \/ Follows(w, l))
      BY MoveFacts DEF BandwidthInv, PlacesInv, ProgressInv, Move
<1>2. at'[v] = at[v] /\ port'[v] = port[v]
      BY <1>1, Advances
<1>3. SUFFICES ASSUME NEW j, j = job[v], NEW k, k = at[v], NEW n, n = port[v]
               PROVE  ProgressAt(j, k, n)'
      BY <1>1, <1>2 DEF Progress
<1>4. ProgressAt(j, k, n)
      BY <1>1, <1>3 DEF Progress
<1>5. j \in Job /\ j.who \in Targets /\ j.who \in Touches(j)
      BY <1>1, <1>3, TouchesFacts DEF Placed
<1>6. Touches(job[w]) \cap Touches(j) = {}
      BY <1>1, <1>3 DEF BandwidthInv, Alone
<1>7. Same(j.who)
      BY <1>5, <1>6, Apart
<1>8. n \in 0..Len(Ports) /\ (k \in PortPlaces => n >= 1)
  <2>1. ~(k \in PortPlaces /\ j.who # Bridge)
        BY <1>1, <1>3 DEF Placed, PortPlaces, ContainerPlaces, IngressPlaces, EnsurePlaces
  <2>2. QED BY <2>1, <1>1, <1>3 DEF Placed, TypeOK
<1>9. CASE j.who = Bridge
      BY <1>4, <1>5, <1>7, <1>8, <1>9, SameLimit DEF ProgressAt
<1>10. CASE j.who # Bridge
      BY <1>4, <1>5, <1>7, <1>8, <1>10, SameLimit DEF ProgressAt
<1>11. QED BY <1>9, <1>10

\* The limit that has just been answered is in force, and those in force before still are.
LEMMA MoveForce ==
    ASSUME BandwidthInv, NEW w \in Workers, NEW l, Move(w, l)
    PROVE  ForceInv'
<1>1. /\ TypeOK /\ Placed(w) /\ Busy(w) /\ BootInv /\ Advance(w, l) /\ job' = job
      /\ (l = "failed" \/ l = "ok" \/ Follows(w, l))
      BY MoveFacts DEF BandwidthInv, Move
<1>2. SUFFICES ASSUME NEW t \in clean', NEW j, j = stored'[t]
               PROVE  j # None /\ Limited(t, j)'
      BY DEF ForceInv
<1>3. CASE t \in clean
  <2>1. t \in Targets /\ t \notin Touches(job[w])
        BY <1>1, <1>3 DEF BandwidthInv, Undisturbed, Quiescent, TypeOK
  <2>2. Same(t) /\ stored'[t] = stored[t]
        BY <2>1, Apart
  <2>3. j = stored[t] /\ j # None /\ Limited(t, j)
        BY <2>2, <1>2, <1>3 DEF BandwidthInv, ForceInv
  <2>4. j.who = t
        BY <2>1, <2>3, <1>1 DEF TypeOK
  <2>5. 0 \in 0..Len(Ports) /\ "ok" \notin PortPlaces
        BY Facts DEF PortPlaces
  <2>6. QED BY <2>1, <2>2, <2>3, <2>4, <2>5, SameLimit
<1>4. CASE t \notin clean
  <2>1. t = job[w].who /\ at'[w] = "ok" /\ w \in fair
        BY <1>2, <1>4 DEF Move
  <2>2. SUFFICES ASSUME NEW k, k = job[w], NEW n, n = port[w]
                 PROVE  stored'[t] = k /\ Limited(t, k)'
    <3>1. job[w] # None
          BY <1>1 DEF Placed
    <3>2. QED BY <1>2, <3>1
  <2>3. k \in Job /\ k.who = t /\ t \in Targets
        BY <2>1, <2>2, <1>1 DEF Placed, Job
  <2>4. l \in {"ok", "upsert"} /\ (l = "upsert" => w = Boot)
        BY <2>1, <1>1, Advances
  <2>5. CASE at[w] = "upsert"
    <3>1. l = "ok" /\ Effect(Now(w).cmd) /\ Accepts(Now(w).cmd)
          BY <2>4, <2>5, UpsertTable DEF Is, Move
    <3>2. UNCHANGED host /\ stored' = [stored EXCEPT ![t] = k]
          BY <3>1, <2>2, <2>3, <2>5, UpsertTable DEF Is, Effect
    <3>3. stored'[t] = k
          BY <3>2, <2>3, <1>1 DEF TypeOK
    <3>4. ProgressAt(k, "upsert", n)
          BY <2>1, <2>2, <2>5, <1>1 DEF BandwidthInv, ProgressInv, Progress
    <3>5. Limited(t, k)
          BY <3>4, <2>3 DEF ProgressAt, NetworkProgress, ContainerProgress, Limited
    <3>6. Limited(t, k)'
          BY <3>2, <3>5 DEF host, Limited, NetworkLimited, ContainerLimited, Rate, Redirected
    <3>7. QED BY <3>3, <3>6
  <2>6. CASE at[w] # "upsert"
    <3>1. l = "upsert" /\ w = Boot
          BY <2>4, <2>6, MoveFacts
    <3>2. l # Now(w).fail
          BY <3>1, <1>1, Follow
    <3>3. l = Now(w).ok /\ Accepts(Now(w).cmd) /\ Effect(Now(w).cmd)
          BY <3>2 DEF Move
    <3>4. stored' = stored
          BY <3>3, <2>6, <1>1, Changes DEF BandwidthInv
    <3>5. stored'[t] = k
          BY <3>1, <3>4, <2>1, <2>2, <1>1 DEF BootInv
    <3>6. ProgressAt(k, l, IF l = "delingress" THEN n + 1 ELSE n)'
          BY <3>3, <2>1, <2>2, <2>6, <1>1, RunsProgress
    <3>7. ProgressAt(k, "upsert", n)'
          BY <3>1, <3>6
    <3>8. Limited(t, k)'
          BY <3>7, <2>3 DEF ProgressAt, NetworkProgress, ContainerProgress, Limited
    <3>9. QED BY <3>5, <3>8
  <2>7. QED BY <2>5, <2>6
<1>5. QED BY <1>3, <1>4

\* A step of a worker keeps all of it.
LEMMA MoveInv ==
    ASSUME BandwidthInv, NEW w \in Workers, NEW l, Move(w, l)
    PROVE  BandwidthInv'
<1>1. \A v \in Workers : Busy(v)' => Busy(v)
  <2>1. \A v \in Workers \ {w} : at'[v] = at[v]
        BY MoveFacts, Advances DEF BandwidthInv, Move
  <2>2. QED BY <2>1 DEF Busy, Move
<1>2. ProgressInv'
  <2>1. SUFFICES ASSUME NEW v \in fair', Busy(v)' PROVE Progress(v)'
        BY DEF ProgressInv
  <2>2. v \in fair /\ v \in Workers
        BY DEF Move, BandwidthInv, TypeOK
  <2>3. CASE v = w
        BY <2>1, <2>3, OwnProgress
  <2>4. CASE v # w
        BY <2>1, <2>2, <2>4, <1>1, OthersProgress
  <2>5. QED BY <2>3, <2>4
<1>3. QED BY <1>2, MoveKeeps, MoveForce DEF BandwidthInv

-----------------------------------------------------------------------------
(* The other steps. *)

\* Neither depends on anything but the host.
LEMMA HostKeeps ==
    ASSUME UNCHANGED host, NEW j, NEW l, NEW n, NEW t
    PROVE  /\ ProgressAt(j, l, n) => ProgressAt(j, l, n)'
           /\ Limited(t, j) => Limited(t, j)'
<1>1. Limited(t, j) => Limited(t, j)'
      BY DEF host, Limited, NetworkLimited, ContainerLimited, Rate, Redirected
<1>2. ContainerProgress(j, l) => ContainerProgress(j, l)'
      BY DEF host, ContainerProgress, ContainerLimited, Rate, Redirected
<1>3. NetworkProgress(j, l, n) => NetworkProgress(j, l, n)'
      BY DEF host, NetworkProgress, PortProgress, NetworkLimited, Rate, Redirected
<1>4. QED BY <1>1, <1>2, <1>3 DEF ProgressAt

\* A limit that begins takes what it touches from those in force, and disturbs or is
\* disturbed by those that touch the same.
LEMMA BeginInv ==
    ASSUME BandwidthInv, NEW w \in Workers, NEW j \in Job, Begin(w, j), w \notin gone, ~Busy(w),
           UNCHANGED <<host, stored, gone, boot, bounds>>, todo' \subseteq todo,
           IF w = Boot THEN boot # "done" /\ j = stored[j.who] ELSE boot = "done"
    PROVE  BandwidthInv'
<1> DEFINE others == {v \in Workers : Busy(v) /\ Touches(job[v]) \cap Touches(j) # {}}
<1>0. TypeOK /\ PlacesInv /\ GoneInv /\ BootInv /\ Alone /\ Undisturbed /\ SlotInv /\ LinksInv
      /\ ProgressInv /\ ForceInv
      BY DEF BandwidthInv
<1>1. /\ at' = [at EXCEPT ![w] = "look"] /\ port' = [port EXCEPT ![w] = 0]
      /\ job' = [job EXCEPT ![w] = j]
      /\ fair' = IF others = {} THEN fair \cup {w} ELSE fair \ (others \cup {w})
      /\ clean' = clean \ Touches(j)
      BY DEF Begin
<1>2. /\ at'[w] = "look" /\ port'[w] = 0 /\ job'[w] = j
      /\ \A v \in Workers : v # w => at'[v] = at[v] /\ port'[v] = port[v] /\ job'[v] = job[v]
      BY <1>0, <1>1 DEF TypeOK
<1>3. \A v \in Workers : v # w => (Busy(v)' <=> Busy(v))
      BY <1>2 DEF Busy
<1>4. fair' \subseteq fair \cup {w}
      BY <1>1
<1>5. TypeOK'
  <2>1. at' \in [Workers -> Idle \cup ContainerPlaces \cup NetworkPlaces \cup {"upsert"}]
        BY <1>0, <1>1 DEF TypeOK, ContainerPlaces
  <2>2. port' \in [Workers -> 0..Len(Ports)] /\ job' \in [Workers -> Job \cup {None}]
        BY <1>0, <1>1, Facts DEF TypeOK
  <2>3. fair' \subseteq Workers /\ clean' \subseteq Targets
        BY <1>0, <1>1, <1>4 DEF TypeOK
  <2>4. QED BY <1>0, <2>1, <2>2, <2>3 DEF TypeOK, host, bounds
<1>6. PlacesInv'
  <2>1. Placed(w)'
        BY <1>2 DEF Placed, ContainerPlaces, NetworkPlaces, IngressPlaces, EnsurePlaces, AfterUp, PortPlaces
  <2>2. \A v \in Workers : v # w /\ Placed(v) => Placed(v)'
        BY <1>2 DEF Placed
  <2>3. QED BY <2>1, <2>2, <1>0, <1>3 DEF PlacesInv
<1>7. GoneInv'
      BY <1>0, <1>2, <1>4 DEF GoneInv, TypeOK, Workers
<1>8. BootInv'
  <2>1. CASE w = Boot
        BY <2>1, <1>0, <1>2, <1>3 DEF BootInv, Workers
  <2>2. CASE w # Boot
        BY <2>2, <1>0, <1>2, <1>3 DEF BootInv, Workers
  <2>3. QED BY <2>1, <2>2
<1>9. Alone'
  <2>1. SUFFICES ASSUME NEW u \in fair', NEW v \in Workers, Busy(u)', Busy(v)', v # u
                 PROVE  Touches(job'[v]) \cap Touches(job'[u]) = {}
        BY DEF Alone, Touches
  <2>2. CASE u = w
    <3>1. others = {}
          BY <2>1, <2>2, <1>1
    <3>2. QED BY <3>1, <2>1, <2>2, <1>2, <1>3
  <2>3. CASE v = w
    <3>1. u \notin others /\ u \in Workers
          BY <2>1, <2>3, <1>0, <1>1 DEF TypeOK
    <3>2. QED BY <3>1, <2>1, <2>3, <1>2, <1>3
  <2>4. CASE u # w /\ v # w
        BY <2>1, <2>4, <1>0, <1>2, <1>3, <1>4 DEF Alone, TypeOK
  <2>5. QED BY <2>2, <2>3, <2>4
<1>10. Undisturbed'
  <2>1. SUFFICES ASSUME NEW t \in clean', NEW v \in Workers, Busy(v)' PROVE t \notin Touches(job'[v])
        BY DEF Undisturbed, Quiescent, Touches
  <2>2. QED BY <2>1, <1>0, <1>1, <1>2, <1>3 DEF Undisturbed, Quiescent
<1>11. SlotInv' /\ NoBlackHole'
      BY <1>0 DEF SlotInv, LinksInv, NoBlackHole, host
<1>12. LinksInv'
      BY <1>0, <1>2, <1>3, <1>11
      DEF LinksInv, host, AfterUp, PortPlaces, InContainer
<1>13. ProgressInv'
  <2>1. SUFFICES ASSUME NEW v \in fair', Busy(v)' PROVE Progress(v)'
        BY DEF ProgressInv
  <2>2. CASE v = w
    <3>1. SUFFICES ProgressAt(j, "look", 0)'
          BY <2>2, <1>2 DEF Progress
    <3>2. NetworkProgress(j, "look", 0)'
          BY DEF NetworkProgress, EnsurePlaces, AfterUp, PortPlaces
    <3>3. ContainerProgress(j, "look")'
          BY DEF ContainerProgress, IngressPlaces, EnsurePlaces
    <3>4. QED BY <3>2, <3>3 DEF ProgressAt
  <2>3. CASE v # w
    <3>1. v \in fair /\ v \in Workers /\ Busy(v)
          BY <2>1, <2>3, <1>0, <1>3, <1>4 DEF TypeOK
    <3>2. SUFFICES ASSUME NEW k, k = job[v], NEW l, l = at[v], NEW n, n = port[v]
                   PROVE  ProgressAt(k, l, n)'
          BY <2>3, <3>1, <1>2 DEF Progress
    <3>3. ProgressAt(k, l, n)
          BY <3>1, <3>2, <1>0 DEF ProgressInv, Progress
    <3>4. QED BY <3>3, HostKeeps
  <2>4. QED BY <2>2, <2>3
<1>14. ForceInv'
  <2>1. SUFFICES ASSUME NEW t \in clean', NEW k, k = stored[t] PROVE k # None /\ Limited(t, k)'
        BY DEF ForceInv
  <2>2. k # None /\ Limited(t, k)
        BY <2>1, <1>0, <1>1 DEF ForceInv
  <2>3. QED BY <2>2, HostKeeps
<1>15. QED BY <1>5, <1>6, <1>7, <1>8, <1>9, <1>10, <1>11, <1>12, <1>13, <1>14 DEF BandwidthInv

\* Steps of the list alone, and steps that change nothing.
LEMMA ListInv ==
    ASSUME BandwidthInv, UNCHANGED <<host, stored, worker, gone, fair, clean>>,
           boot' \in {"containers", "networks", "done"}, todo' \subseteq Targets,
           faults' \in 0..MaxFaults, restarts' \in 0..MaxRestarts, BootInv'
    PROVE  BandwidthInv'
<1>0. /\ TypeOK /\ PlacesInv /\ GoneInv /\ Alone /\ Undisturbed /\ SlotInv /\ LinksInv
      /\ UNCHANGED <<root, slot, link, stored, at, port, job, gone, fair, clean>>
      BY DEF BandwidthInv, host, worker
<1>1. TypeOK' /\ PlacesInv' /\ GoneInv' /\ Alone' /\ Undisturbed' /\ SlotInv' /\ LinksInv'
  <2>1. TypeOK'
        BY <1>0 DEF TypeOK
  <2>2. \A v \in Workers : (Busy(v)' <=> Busy(v)) /\ (Placed(v)' <=> Placed(v))
        BY <1>0 DEF Busy, Placed
  <2>3. PlacesInv' /\ GoneInv'
        BY <2>2, <1>0 DEF PlacesInv, GoneInv
  <2>4. Alone' /\ Undisturbed'
        BY <2>2, <1>0 DEF Alone, Undisturbed, Quiescent, TypeOK, Touches
  <2>5. SlotInv' /\ LinksInv'
        BY <2>2, <1>0 DEF SlotInv, LinksInv, NoBlackHole
  <2>6. QED BY <2>1, <2>3, <2>4, <2>5
<1>2. ProgressInv'
  <2>1. SUFFICES ASSUME NEW v \in fair, Busy(v),
                        NEW k, k = job[v], NEW l, l = at[v], NEW n, n = port[v]
                 PROVE  ProgressAt(k, l, n)'
        BY DEF ProgressInv, Progress, Busy, worker
  <2>2. ProgressAt(k, l, n)
        BY <2>1 DEF BandwidthInv, ProgressInv, Progress
  <2>3. QED BY <2>2, HostKeeps
<1>3. ForceInv'
  <2>1. SUFFICES ASSUME NEW t \in clean, NEW k, k = stored[t] PROVE k # None /\ Limited(t, k)'
        BY DEF ForceInv
  <2>2. k # None /\ Limited(t, k)
        BY <2>1 DEF BandwidthInv, ForceInv
  <2>3. QED BY <2>2, HostKeeps
<1>4. QED BY <1>1, <1>2, <1>3 DEF BandwidthInv

\* After a restart no worker is at work.
LEMMA RestartInv ==
    ASSUME BandwidthInv, Restart
    PROVE  BandwidthInv'
<1>0. TypeOK /\ GoneInv /\ SlotInv /\ LinksInv /\ ForceInv
      BY DEF BandwidthInv
<1>1. /\ at' = [w \in Workers |-> IF w = Boot THEN "new" ELSE IF Busy(w) THEN "failed" ELSE at[w]]
      /\ port' = [w \in Workers |-> 0] /\ fair' = {} /\ restarts' = restarts + 1
      /\ boot' = "containers" /\ todo' = {c \in Containers : stored[c] # None}
      /\ UNCHANGED <<stored, job, gone, faults>> /\ restarts < MaxRestarts
      BY DEF Restart
<1>2. \A w \in Workers : at'[w] \in Idle
      BY <1>0, <1>1 DEF Busy, Idle
<1>3. \A w \in Workers : ~Busy(w)'
      BY <1>2 DEF Busy
<1>4. \/ UNCHANGED <<host, clean>>
      \/ root' = Bare.root /\ slot' = Bare.slot /\ link' = Bare.link /\ clean' = {}
      BY DEF Restart
<1>5. /\ root' \in [Devices -> Qdisc \cup {None}]
      /\ slot' \in [Targets -> [kind : {"none", "ingress", "clsact"}, to : Ifbs \cup {None}]]
      /\ link' \in [Ifbs -> {"absent", "down", "up"}]
      /\ clean' \subseteq Targets
      /\ SlotInv' /\ NoBlackHole'
  <2>1. CASE UNCHANGED <<host, clean>>
        BY <2>1, <1>0 DEF TypeOK, SlotInv, LinksInv, NoBlackHole, host
  <2>2. CASE root' = Bare.root /\ slot' = Bare.slot /\ link' = Bare.link /\ clean' = {}
        BY <2>2 DEF Bare, NoSlot, SlotInv, NoBlackHole
  <2>3. QED BY <1>4, <2>1, <2>2
<1>6. TypeOK'
  <2>1. at' \in [Workers -> Idle \cup ContainerPlaces \cup NetworkPlaces \cup {"upsert"}]
        BY <1>1, <1>2
  <2>2. port' \in [Workers -> 0..Len(Ports)]
        BY <1>1, Facts
  <2>3. restarts' \in 0..MaxRestarts
        BY <1>0, <1>1, BoundsAssumption DEF TypeOK
  <2>4. todo' \subseteq Targets
        BY <1>1 DEF Targets
  <2>5. QED BY <1>0, <1>1, <1>5, <2>1, <2>2, <2>3, <2>4 DEF TypeOK
<1>7. GoneInv'
  <2>1. SUFFICES ASSUME NEW r \in gone PROVE at'[r] # "new"
        BY <1>1 DEF GoneInv
  <2>2. r \in Workers /\ r # Boot /\ at[r] # "new"
        BY <2>1, <1>0 DEF TypeOK, Workers, GoneInv
  <2>3. QED BY <2>2, <1>1
<1>8. BootInv'
      BY <1>1, <1>3 DEF BootInv, Workers
<1>9. PlacesInv' /\ Alone' /\ Undisturbed' /\ ProgressInv'
      BY <1>1, <1>3 DEF PlacesInv, Alone, Undisturbed, Quiescent, ProgressInv
<1>10. LinksInv'
      BY <1>3, <1>5 DEF LinksInv
<1>11. ForceInv'
  <2>1. SUFFICES ASSUME NEW t \in clean', NEW k, k = stored[t] PROVE k # None /\ Limited(t, k)'
        BY <1>1 DEF ForceInv
  <2>2. UNCHANGED host /\ t \in clean
        BY <2>1, <1>4
  <2>3. k # None /\ Limited(t, k)
        BY <2>1, <2>2, <1>0 DEF ForceInv
  <2>4. QED BY <2>2, <2>3, HostKeeps
<1>12. QED BY <1>5, <1>6, <1>7, <1>8, <1>9, <1>10, <1>11 DEF BandwidthInv

-----------------------------------------------------------------------------
\* At first nobody is at work and the host is bare.
LEMMA InitInv ==
    ASSUME Init
    PROVE  BandwidthInv
<1>2. \A w \in Workers : ~Busy(w)
      BY DEF Init, Busy, Idle
<1>3. TypeOK
  <2>1. root \in [Devices -> Qdisc \cup {None}] /\ link \in [Ifbs -> {"absent", "down", "up"}]
        BY DEF Init, Bare
  <2>2. slot \in [Targets -> [kind : {"none", "ingress", "clsact"}, to : Ifbs \cup {None}]]
        BY DEF Init, Bare, NoSlot
  <2>3. at \in [Workers -> Idle \cup ContainerPlaces \cup NetworkPlaces \cup {"upsert"}]
        /\ port \in [Workers -> 0..Len(Ports)] /\ job \in [Workers -> Job \cup {None}]
        BY Facts DEF Init, Idle
  <2>4. stored \in [Targets -> Job \cup {None}] /\ \A t \in Targets : stored[t] = None
        BY DEF Init
  <2>5. faults \in 0..MaxFaults /\ restarts \in 0..MaxRestarts
        BY BoundsAssumption DEF Init
  <2>6. QED BY <2>1, <2>2, <2>3, <2>4, <2>5 DEF TypeOK, Init
<1>4. SlotInv /\ NoBlackHole
      BY DEF Init, Bare, NoSlot, SlotInv, NoBlackHole
<1>5. QED BY <1>2, <1>3, <1>4
          DEF Init, BandwidthInv, PlacesInv, GoneInv, BootInv, Alone, Undisturbed, LinksInv, ProgressInv,
              ForceInv, Workers

\* Every step keeps the invariant.
LEMMA NextInv ==
    ASSUME BandwidthInv, [Next]_vars
    PROVE  BandwidthInv'
<1>2. TypeOK /\ GoneInv /\ BootInv /\ Requests \subseteq Workers /\ Boot \in Workers /\ Boot \notin Requests
      BY DEF BandwidthInv, Workers
<1>3. ASSUME NEW r \in Requests, Request(r) PROVE BandwidthInv'
  <2>1. PICK j \in Asked[r] : Begin(r, j)
        BY <1>3 DEF Request
  <2>2. j \in Job
        BY AskedAssumption
  <2>3. /\ r \notin gone /\ ~Busy(r) /\ boot = "done" /\ r # Boot /\ r \in Workers
        /\ UNCHANGED <<host, stored, gone, boot, todo, bounds>>
        BY <1>2, <1>3 DEF Request, GoneInv, Busy, Idle
  <2>4. QED BY <2>1, <2>2, <2>3, BeginInv
<1>4. ASSUME NEW r \in Requests, Leaves(r) PROVE BandwidthInv'
      BY <1>2, <1>4, Moves, MoveInv
<1>5. ASSUME NEW w \in Workers, Work(w) PROVE BandwidthInv'
      BY <1>2, <1>5, Moves, MoveInv
<1>6. ASSUME NEW t \in Targets, Reapply(t) PROVE BandwidthInv'
  <2>1. /\ ~Busy(Boot) /\ t \in todo /\ todo' = todo \ {t} /\ Begin(Boot, stored[t])
        /\ UNCHANGED <<host, stored, gone, boot, bounds>>
        BY <1>6 DEF Reapply
  <2>2. stored[t] \in Job /\ stored[t].who = t
        BY <2>1, <1>2 DEF BootInv, TypeOK
  <2>3. boot # "done" /\ Boot \notin gone
        BY <2>1, <1>2 DEF BootInv, TypeOK
  <2>4. QED BY <1>2, <2>1, <2>2, <2>3, BeginInv
<1>7. CASE Restart
      BY <1>7, RestartInv
<1>8. CASE ListFails
  <2>1. /\ boot' = "done" /\ todo' = {} /\ ~Busy(Boot) /\ faults' = faults + 1 /\ faults < MaxFaults
        /\ UNCHANGED <<host, stored, worker, gone, restarts, fair, clean>>
        BY <1>8 DEF ListFails
  <2>2. Busy(Boot)' <=> Busy(Boot)
        BY <2>1 DEF worker, Busy
  <2>3. BootInv'
        BY <2>1, <2>2 DEF BootInv
  <2>4. faults' \in 0..MaxFaults /\ restarts' \in 0..MaxRestarts
        BY <2>1, <1>2, BoundsAssumption DEF TypeOK
  <2>5. QED BY <2>1, <2>3, <2>4, ListInv
<1>9. CASE NextList
  <2>1. /\ boot # "done" /\ ~Busy(Boot) /\ todo = {}
        /\ \/ boot = "containers" /\ boot' = "networks" /\ todo' = {t \in {Bridge} : stored[t] # None}
           \/ boot = "networks" /\ boot' = "done" /\ UNCHANGED todo
        /\ UNCHANGED <<host, stored, worker, gone, faults, restarts, fair, clean>>
        BY <1>9 DEF NextList, bounds
  <2>2. \A w \in Workers : Busy(w)' <=> Busy(w)
        BY <2>1 DEF worker, Busy
  <2>3. BootInv'
        BY <2>1, <2>2, <1>2 DEF BootInv
  <2>4. todo' \subseteq Targets /\ boot' \in {"containers", "networks", "done"}
        BY <2>1, Facts
  <2>5. faults' \in 0..MaxFaults /\ restarts' \in 0..MaxRestarts
        BY <2>1, <1>2 DEF TypeOK
  <2>6. QED BY <2>1, <2>3, <2>4, <2>5, ListInv
<1>10. CASE UNCHANGED vars
  <2>1. UNCHANGED <<host, stored, worker, gone, boot, todo, faults, restarts, fair, clean>>
        BY <1>10 DEF vars, bounds
  <2>2. \A w \in Workers : Busy(w)' <=> Busy(w)
        BY <2>1 DEF worker, Busy
  <2>3. BootInv'
        BY <2>1, <2>2, <1>2 DEF BootInv, worker
  <2>4. QED BY <1>2, <2>1, <2>3, ListInv DEF TypeOK
<1>11. QED BY <1>3, <1>4, <1>5, <1>6, <1>7, <1>8, <1>9, <1>10 DEF Next, Serve

\* What is undisturbed stays on the course that its commands set, whoever else is at work.
THEOREM Invariance == Spec => []BandwidthInv
<1>1. QED BY InitInv, NextInv, PTL DEF Spec

\* Every variable keeps to its type: no rate of zero is handed to tc.
THEOREM TypeCorrect == Spec => []TypeOK
<1>1. BandwidthInv => TypeOK
      BY DEF BandwidthInv
<1>2. QED BY <1>1, Invariance, PTL

\* A limit that was applied undisturbed and answered is stored and in force, whatever the
\* host was like before.
THEOREM StoredIsInForceHolds == Spec => []StoredIsInForce
<1>1. BandwidthInv => StoredIsInForce
      BY DEF BandwidthInv, ForceInv, Limited, StoredIsInForce
<1>2. QED BY <1>1, Invariance, PTL

\* Nothing is redirected to an ifb that is not up.
THEOREM NoBlackHoleHolds == Spec => []NoBlackHole
<1>1. BandwidthInv => NoBlackHole
      BY DEF BandwidthInv, LinksInv
<1>2. QED BY <1>1, Invariance, PTL

\* Each command of an undisturbed limit finds what it needs, except where the redirection
\* of a container meets that of the network.
LEMMA ContainerAccepted ==
    ASSUME BandwidthInv, NEW w \in fair, w \in Workers, Busy(w), job[w].who # Bridge,
           Now(w).fail = "failed", ~Accepts(Now(w).cmd)
    PROVE  Now(w).cmd.op = "addslot" /\ slot[job[w].who].kind = "clsact"
<1>1. PICK j : j = job[w]
      OBVIOUS
<1> DEFINE c == j.who
           i == Ifb[c]
<1>2. /\ TypeOK /\ LinksInv /\ Placed(w) /\ j.who # Bridge
      /\ ContainerProgress(j, at[w])
      BY <1>1 DEF BandwidthInv, PlacesInv, ProgressInv, Progress, ProgressAt
<1>3. /\ c \in Targets /\ c \notin Ifbs /\ i \in Ifbs
      BY <1>1, <1>2, Facts DEF Placed, Job
<1>4. /\ at[w] \in {"tbf"} => root[c] = None
      /\ at[w] = "addlink" => link[i] = "absent"
      /\ at[w] = "up" => link[i] # "absent"
      /\ at[w] = "addslot" => slot[c].kind # "ingress"
      /\ at[w] = "u32" => slot[c].kind = "ingress" /\ link[i] = "up"
      /\ at[w] = "tbfifb" => root[i] = None /\ link[i] = "up"
      BY <1>1, <1>2 DEF ContainerProgress, LinksInv, InContainer
<1>5. at[w] \in {"look", "tbf", "addlink", "up", "addslot", "u32", "tbfifb", "upsert"}
      BY <1>1, <1>2, ContainerTable DEF Is, Placed, ContainerPlaces, IngressPlaces, EnsurePlaces
<1>6. CASE at[w] \in {"look", "upsert"}
      BY <1>1, <1>2, <1>6, ContainerTable, UpsertTable DEF Is, Accepts
<1>7. CASE at[w] \in {"tbf", "addlink", "up"}
      BY <1>1, <1>2, <1>3, <1>4, <1>7, ContainerTable DEF Is, Accepts, Exists
<1>8. CASE at[w] = "addslot"
  <2>1. slot[c].kind # "none" /\ Now(w).cmd.op = "addslot"
        BY <1>1, <1>2, <1>8, ContainerTable DEF Is, Accepts
  <2>2. QED BY <2>1, <1>1, <1>2, <1>3, <1>4, <1>8 DEF TypeOK
<1>9. CASE at[w] \in {"u32", "tbfifb"}
      BY <1>1, <1>2, <1>3, <1>4, <1>9, ContainerTable DEF Is, Accepts, Exists
<1>10. QED BY <1>5, <1>6, <1>7, <1>8, <1>9

\* A network's limit meets nothing of the kind.
LEMMA NetworkAccepted ==
    ASSUME BandwidthInv, NEW w \in fair, w \in Workers, Busy(w), job[w].who = Bridge,
           Now(w).fail = "failed"
    PROVE  Accepts(Now(w).cmd)
<1>1. PICK j, n : j = job[w] /\ n = port[w]
      OBVIOUS
<1> DEFINE b == Bridge
           i == Ifb[Bridge]
<1>2. /\ TypeOK /\ LinksInv /\ Placed(w) /\ j.who = Bridge
      /\ NetworkProgress(j, at[w], n)
      BY <1>1 DEF BandwidthInv, PlacesInv, ProgressInv, Progress, ProgressAt
<1>3. /\ b \in Targets /\ b \notin Ifbs /\ i \in Ifbs /\ NetworkRate(j) # None /\ formatRate(j.ingress) # None
      BY <1>1, <1>2, Facts DEF Placed, Job, NetworkRate, Rates
<1>4. /\ at[w] = "htb" => root[b] = None
      /\ at[w] = "class" => root[b] # None /\ root[b].rate = None
      /\ at[w] = "leaf" => Rate(b) = NetworkRate(j) /\ ~root[b].leaf
      /\ at[w] = "addlink" => link[i] = "absent"
      /\ at[w] = "up" => link[i] # "absent"
      /\ at[w] = "htbifb" => root[i] = None
      /\ at[w] = "classifb" => root[i] # None /\ root[i].rate = None
      /\ at[w] = "leafifb" => Rate(i) = formatRate(j.ingress) /\ ~root[i].leaf
      BY <1>2 DEF NetworkProgress
<1>5. /\ at[w] \in {"addingress", "u32v4", "u32v6"} => PortProgress(at[w], n)
      /\ at[w] \in PortPlaces \cup {"htbifb", "classifb", "leafifb"} => link[i] = "up"
      BY <1>1, <1>2 DEF NetworkProgress, PortPlaces, LinksInv, AfterUp
<1>6. \/ at[w] \in {"look", "list", "upsert"} \/ at[w] \in {"htb", "class", "leaf"}
      \/ at[w] \in {"addlink", "up"} \/ at[w] \in {"addingress", "u32v4", "u32v6"}
      \/ at[w] \in {"htbifb", "classifb", "leafifb"}
      BY <1>1, <1>2, NetworkTable DEF Is, Placed, NetworkPlaces, EnsurePlaces, PortPlaces
<1>7. CASE at[w] \in {"look", "list", "upsert"}
      BY <1>1, <1>2, <1>7, NetworkTable, UpsertTable DEF Is, Accepts
<1>8. CASE at[w] \in {"htb", "class", "leaf"}
      BY <1>1, <1>2, <1>3, <1>4, <1>8, NetworkTable DEF Is, Accepts, Exists, Rate
<1>9. CASE at[w] \in {"addlink", "up"}
      BY <1>1, <1>2, <1>3, <1>4, <1>9, NetworkTable DEF Is, Accepts, Exists
<1>10. CASE at[w] \in {"addingress", "u32v4", "u32v6"}
      BY <1>1, <1>2, <1>5, <1>10, NetworkTable DEF Is, Accepts, Exists, PortProgress, PortPlaces
<1>11. CASE at[w] \in {"htbifb", "classifb", "leafifb"}
      BY <1>1, <1>2, <1>3, <1>4, <1>5, <1>11, NetworkTable DEF Is, Accepts, Exists, Rate
<1>12. QED BY <1>6, <1>7, <1>8, <1>9, <1>10, <1>11

\* What an earlier limit has left never makes an undisturbed one fail.
THEOREM LeftoversHolds == Spec => LeftoversDoNotMatter
<1>1. ASSUME BandwidthInv, NEW w \in Workers, w \in fair, Refused(w), at'[w] = "failed"
      PROVE  Now(w).cmd.op = "addslot" /\ slot[job[w].who].kind = "clsact"
  <2>1. Busy(w) /\ ~Accepts(Now(w).cmd) /\ Now(w).fail = "failed"
        BY <1>1 DEF Refused, Advance, BandwidthInv, GoneInv, TypeOK
  <2>2. job[w].who # Bridge
        BY <2>1, <1>1, NetworkAccepted
  <2>3. QED BY <2>1, <2>2, <1>1, ContainerAccepted
<1>2. BandwidthInv =>
        [\A w \in Workers :
            w \in fair /\ Refused(w) /\ at'[w] = "failed" =>
                Now(w).cmd.op = "addslot" /\ slot[job[w].who].kind = "clsact"]_vars
      BY <1>1
<1>3. QED BY <1>2, Invariance, PTL DEF LeftoversDoNotMatter
=============================================================================
