------------------------------ MODULE VScaleProofs ------------------------------
(***************************************************************************)
(* Machine-checked proofs about VScale, for any configurations, window     *)
(* sizes, steps and cooldowns.                                             *)
(***************************************************************************)
EXTENDS VScale, FiniteSetTheorems, SequenceTheorems, TLAPS

USE DEF Resources

\* What a valid configuration gives the arithmetic.
LEMMA ValidFacts ==
    ASSUME NEW c \in Cfgs
    PROVE  /\ c.minCPU \in Nat \ {0} /\ c.maxCPU \in Nat /\ c.minCPU <= c.maxCPU /\ c.maxCPU % 4 = 0
           /\ c.minMem \in Nat \ {0} /\ c.maxMem \in Nat /\ c.minMem <= c.maxMem
BY CfgAssumption DEF Valid

\* A quarter of max_cpu is at least one.
LEMMA StepPositive ==
    ASSUME NEW c \in Cfgs
    PROVE  step(c) \in Nat \ {0}
<1>1. c.maxCPU \in Nat /\ c.maxCPU >= 1 /\ c.maxCPU % 4 = 0
      BY ValidFacts
<1>2. QED BY <1>1 DEF step

\* Division rounds down.
LEMMA Quotient ==
    ASSUME NEW a \in Nat, NEW s \in Nat \ {0}
    PROVE  /\ a \div s \in Nat
           /\ (a \div s) * s \in Nat /\ (a \div s + 1) * s \in Nat
           /\ (a \div s) * s <= a /\ a < (a \div s + 1) * s
OBVIOUS

\* A CPU step stays inside the limits.
LEMMA CPUTargets ==
    ASSUME NEW c \in Cfgs, NEW cpu \in c.minCPU..c.maxCPU
    PROVE  /\ CPUAbove(c, cpu) \in c.minCPU..c.maxCPU
           /\ CPUBelow(c, cpu) \in c.minCPU..c.maxCPU
<1> DEFINE s == step(c)
<1>0. /\ s \in Nat \ {0} /\ cpu \in Nat /\ cpu >= 1 /\ cpu - 1 \in Nat
      /\ c.minCPU \in Nat /\ c.maxCPU \in Nat /\ c.minCPU <= cpu /\ cpu <= c.maxCPU
      BY StepPositive, ValidFacts
<1> HIDE DEF s
<1>1. (cpu \div s + 1) * s \in Nat /\ cpu < (cpu \div s + 1) * s
      BY <1>0, Quotient
<1>2. ((cpu - 1) \div s) * s \in Nat /\ ((cpu - 1) \div s) * s <= cpu - 1
      BY <1>0, Quotient
<1>3. CPUAbove(c, cpu) = Min2((cpu \div s + 1) * s, c.maxCPU)
      BY DEF CPUAbove, s
<1>4. CPUBelow(c, cpu) = Max2(((cpu - 1) \div s) * s, c.minCPU)
      BY DEF CPUBelow, s
<1>5. CPUAbove(c, cpu) \in c.minCPU..c.maxCPU
  <2> DEFINE x == (cpu \div s + 1) * s
  <2>1. x \in Nat /\ cpu < x /\ CPUAbove(c, cpu) = Min2(x, c.maxCPU)
        BY <1>1, <1>3
  <2> HIDE DEF x
  <2>2. QED BY <2>1, <1>0 DEF Min2
<1>6. CPUBelow(c, cpu) \in c.minCPU..c.maxCPU
  <2> DEFINE x == ((cpu - 1) \div s) * s
  <2>1. x \in Nat /\ x <= cpu - 1 /\ CPUBelow(c, cpu) = Max2(x, c.minCPU)
        BY <1>2, <1>4
  <2> HIDE DEF x
  <2>2. QED BY <2>1, <1>0 DEF Max2
<1>7. QED BY <1>5, <1>6

\* What is clamped is inside the limits, and what is inside stays what it was.
LEMMA Clamped ==
    ASSUME NEW c \in Cfgs, NEW m \in Nat
    PROVE  /\ ClampMem(c, m) \in c.minMem..c.maxMem
           /\ m \in c.minMem..c.maxMem => ClampMem(c, m) = m
           /\ m >= c.minMem /\ ClampMem(c, m) # m => ClampMem(c, m) = c.maxMem
BY ValidFacts DEF ClampMem, Min2, Max2

\* A runtime that is read is brought inside the limits; its cooldowns stay.
LEMMA InitState ==
    ASSUME NEW c \in Cfgs, NEW r \in Runtime
    PROVE  /\ initCPUState(c, r) \in Runtime
           /\ initCPUState(c, r).cpu \in c.minCPU..c.maxCPU
           /\ initCPUState(c, r).mem \in c.minMem..c.maxMem
           /\ initCPUState(c, r).cpuCool = r.cpuCool /\ initCPUState(c, r).memCool = r.memCool
           /\ r.cpu \in c.minCPU..c.maxCPU /\ r.mem \in c.minMem..c.maxMem => initCPUState(c, r) = r
<1> DEFINE x == Min2(Max2(r.cpu, c.minCPU), c.maxCPU)
           y == ClampMem(c, r.mem)
<1>0. r = [cpu |-> r.cpu, mem |-> r.mem, cpuCool |-> r.cpuCool, memCool |-> r.memCool]
      /\ r.cpu \in Nat /\ r.mem \in Nat /\ r.cpuCool \in Nat /\ r.memCool \in Nat
      BY DEF Runtime
<1>1. /\ x \in c.minCPU..c.maxCPU /\ x \in Nat
      /\ r.cpu \in c.minCPU..c.maxCPU => x = r.cpu
      BY <1>0, ValidFacts DEF Min2, Max2
<1>2. y \in c.minMem..c.maxMem /\ y \in Nat /\ (r.mem \in c.minMem..c.maxMem => y = r.mem)
      BY <1>0, Clamped, ValidFacts
<1>3. initCPUState(c, r) = [cpu |-> x, mem |-> y, cpuCool |-> r.cpuCool, memCool |-> r.memCool]
      BY DEF initCPUState
<1> HIDE DEF x, y
<1>4. QED BY <1>0, <1>1, <1>2, <1>3 DEF Runtime

\* A window takes a sample and keeps to its size.
LEMMA AddTyped ==
    ASSUME NEW S, NEW w \in Seq(S), NEW v \in S, NEW n \in Nat \ {0}, Len(w) <= n
    PROVE  Add(w, v, n) \in Seq(S) /\ Len(Add(w, v, n)) <= n /\ Len(Add(w, v, n)) >= 1
<1>1. Append(w, v) \in Seq(S) /\ Len(Append(w, v)) = Len(w) + 1 /\ Len(w) \in Nat /\ Append(w, v) # <<>>
      BY AppendProperties, LenProperties
<1>2. Tail(Append(w, v)) \in Seq(S) /\ Len(Tail(Append(w, v))) = Len(w)
      BY <1>1, HeadTailProperties
<1>3. QED BY <1>1, <1>2 DEF Add

-----------------------------------------------------------------------------
(* What a poll may lead to. *)

WindowsOK(v) ==
    /\ v \in Windows
    /\ Len(v.up) <= UpSize /\ Len(v.down) <= DownSize
    /\ Len(v.mem) <= MemUpSize /\ Len(v.long) <= MemDownSize

Inside(c, r) == r.cpu \in c.minCPU..c.maxCPU /\ r.mem \in c.minMem..c.maxMem

Roomy(w, t) == {i \in DOMAIN w : 13 * w[i] <= 10 * t}

\* What a step down of the memory may be to.
Headroom(w, t) == Len(w) = MemDownSize /\ 100 * Cardinality(Roomy(w, t)) >= 95 * MemDownSize

\* A call that keeps its resource inside the limits, changes it, and is made outside of
\* its cooldown or because of an OOM.
GoodAsk(v) ==
    \/ Stay
    \/ \E t \in cfg.minCPU..cfg.maxCPU :
           t # rt.cpu /\ rt.cpuCool = 0 /\ Ask("cpu", t, CPUCooldown, FALSE)
    \/ \E t \in cfg.minMem..cfg.maxMem, cooldown \in Nat, oom \in BOOLEAN :
           /\ t # rt.mem /\ (oom \/ rt.memCool = 0) /\ Ask("mem", t, cooldown, oom)
           /\ t < rt.mem => Headroom(v.long, t)

\* The sizes and cooldowns are what they are assumed to be.
LEMMA Sizes ==
    /\ UpSize \in Nat \ {0} /\ DownSize \in Nat \ {0} /\ MemUpSize \in Nat \ {0}
    /\ MemDownSize \in Nat \ {0} /\ MemStep \in Nat \ {0}
    /\ CPUCooldown \in Nat /\ MemUpCooldown \in Nat /\ MemDownCooldown \in Nat
    /\ MaxKills \in Nat /\ MaxEvents \in Nat /\ WorkingSets \subseteq Nat
    /\ Usages \subseteq {"none", "low", "mid", "high"}
BY SizeAssumption

\* Emptied windows are windows.
LEMMA ResetTyped ==
    ASSUME NEW v, WindowsOK(v)
    PROVE  WindowsOK(Empty) /\ WindowsOK(WithoutCPU(v)) /\ WindowsOK(WithoutMem(v))
           /\ WindowsOK([v EXCEPT !.mem = <<>>])
<1>1. \A S : <<>> \in Seq(S) /\ Len(<<>>) = 0
      BY EmptySeq
<1>2. v = [up |-> v.up, down |-> v.down, mem |-> v.mem, long |-> v.long]
      BY DEF WindowsOK, Windows
<1>3. [v EXCEPT !.mem = <<>>] = [up |-> v.up, down |-> v.down, mem |-> <<>>, long |-> v.long]
      BY <1>2
<1>4. /\ v.up \in Seq({"low", "mid", "high"}) /\ v.down \in Seq({"low", "mid", "high"})
      /\ v.mem \in Seq({"mid", "high"}) /\ v.long \in Seq(WorkingSets)
      /\ Len(v.up) <= UpSize /\ Len(v.down) <= DownSize
      /\ Len(v.mem) <= MemUpSize /\ Len(v.long) <= MemDownSize
      BY DEF WindowsOK, Windows
<1>5. 0 <= UpSize /\ 0 <= DownSize /\ 0 <= MemUpSize /\ 0 <= MemDownSize
      BY Sizes
<1>6. WindowsOK(Empty)
      BY <1>1, <1>5 DEF WindowsOK, Windows, Empty
<1>7. WindowsOK(WithoutCPU(v))
      BY <1>1, <1>4, <1>5 DEF WindowsOK, Windows, WithoutCPU
<1>8. WindowsOK(WithoutMem(v))
      BY <1>1, <1>4, <1>5 DEF WindowsOK, Windows, WithoutMem
<1>9. WindowsOK([v EXCEPT !.mem = <<>>])
      BY <1>1, <1>3, <1>4, <1>5 DEF WindowsOK, Windows
<1>10. QED BY <1>6, <1>7, <1>8, <1>9

\* A step down is to at least min_mem and the percentile and 30%.
LEMMA BelowIsNat ==
    ASSUME NEW c \in Cfgs, NEW mem \in Nat, NEW p \in Nat
    PROVE  /\ MemBelow(c, mem, p) \in Nat /\ MemBelow(c, mem, p) >= c.minMem
           /\ 10 * MemBelow(c, mem, p) >= 13 * p
<1> DEFINE x == (13 * p + 9) \div 10
           y == IF mem > MemStep THEN mem - MemStep ELSE 0
<1>1. x \in Nat /\ 10 * x >= 13 * p
      OBVIOUS
<1>2. y \in Nat
      BY Sizes
<1>3. MemBelow(c, mem, p) = Max2(y, Max2(x, c.minMem))
      BY DEF MemBelow
<1> HIDE DEF x, y
<1>4. Max2(y, Max2(x, c.minMem)) \in Nat /\ Max2(y, Max2(x, c.minMem)) >= x
      /\ Max2(y, Max2(x, c.minMem)) >= c.minMem
      BY <1>1, <1>2, ValidFacts DEF Max2
<1>5. QED BY <1>1, <1>3, <1>4

\* A step down to the 95th percentile and 30% leaves 95 of 100 samples their headroom.
LEMMA BelowIsRoomy ==
    ASSUME NEW c \in Cfgs, NEW mem \in c.minMem..c.maxMem,
           NEW w \in Seq(WorkingSets), Len(w) = MemDownSize,
           NEW p \in {w[i] : i \in DOMAIN w}, P95(w, p),
           NEW t, t = ClampMem(c, MemBelow(c, mem, p)), t < mem
    PROVE  Headroom(w, t)
<1>0. DOMAIN w = 1..Len(w) /\ Len(w) \in Nat /\ \A i \in DOMAIN w : w[i] \in WorkingSets
      BY LenProperties, ElementOfSeq
<1>1. p \in Nat /\ DOMAIN w = 1..Len(w) /\ Len(w) \in Nat /\ \A i \in DOMAIN w : w[i] \in Nat
      BY <1>0, Sizes
<1>2. /\ MemBelow(c, mem, p) \in Nat /\ MemBelow(c, mem, p) >= c.minMem
      /\ 10 * MemBelow(c, mem, p) >= 13 * p
  <2>1. mem \in Nat
        BY ValidFacts
  <2>2. QED BY <1>1, <2>1, BelowIsNat
<1>3. t = MemBelow(c, mem, p)
  <2> DEFINE m == MemBelow(c, mem, p)
  <2>1. m \in Nat /\ m >= c.minMem /\ t = ClampMem(c, m)
        BY <1>2
  <2> HIDE DEF m
  <2>2. t # m => t = c.maxMem
        BY <2>1, Clamped
  <2>3. QED BY <2>2, ValidFacts DEF m
<1>4. {i \in DOMAIN w : w[i] <= p} \subseteq Roomy(w, t)
      BY <1>1, <1>2, <1>3 DEF Roomy
<1>5. IsFiniteSet(DOMAIN w)
      BY <1>1, FS_Interval
<1>6. IsFiniteSet(Roomy(w, t))
      BY <1>5, FS_Subset DEF Roomy
<1>7. /\ Cardinality({i \in DOMAIN w : w[i] <= p}) \in Nat /\ Cardinality(Roomy(w, t)) \in Nat
      /\ Cardinality({i \in DOMAIN w : w[i] <= p}) <= Cardinality(Roomy(w, t))
      BY <1>4, <1>6, FS_Subset, FS_CardinalityType
<1>8. Cardinality({i \in DOMAIN w : w[i] <= p}) >= (95 * Len(w) + 99) \div 100
      BY DEF P95
<1>9. 100 * ((95 * Len(w) + 99) \div 100) >= 95 * Len(w) /\ (95 * Len(w) + 99) \div 100 \in Nat
      BY <1>1
<1>10. QED BY <1>7, <1>8, <1>9, <1>1 DEF Headroom

\* A window of memory samples is replaced by another.
LEMMA WithMemTyped ==
    ASSUME NEW v, WindowsOK(v), NEW m \in Seq({"mid", "high"}), Len(m) <= MemUpSize
    PROVE  /\ WindowsOK([v EXCEPT !.mem = m])
           /\ [v EXCEPT !.mem = m].long = v.long
<1>1. v = [up |-> v.up, down |-> v.down, mem |-> v.mem, long |-> v.long]
      BY DEF WindowsOK, Windows
<1>2. [v EXCEPT !.mem = m] = [up |-> v.up, down |-> v.down, mem |-> m, long |-> v.long]
      BY <1>1
<1>3. /\ v.up \in Seq({"low", "mid", "high"}) /\ v.down \in Seq({"low", "mid", "high"})
      /\ v.long \in Seq(WorkingSets)
      /\ Len(v.up) <= UpSize /\ Len(v.down) <= DownSize /\ Len(v.long) <= MemDownSize
      BY DEF WindowsOK, Windows
<1>4. QED BY <1>2, <1>3 DEF WindowsOK, Windows

\* The CPU part of a poll asks for a limit inside the configuration, or for nothing.
LEMMA ScaleCPUAsks ==
    ASSUME NEW w, WindowsOK(w), rt.cpuCool = 0,
           NEW t \in cfg.minCPU..cfg.maxCPU, scaleCPU(w, t)
    PROVE  WindowsOK(win') /\ GoodAsk(win')
<1>1. CASE t = rt.cpu
  <2>1. win' = WithoutCPU(w) /\ Stay
        BY <1>1 DEF scaleCPU
  <2>2. QED BY <2>1, ResetTyped DEF GoodAsk
<1>2. CASE t # rt.cpu
  <2>1. win' = w /\ Ask("cpu", t, CPUCooldown, FALSE)
        BY <1>2 DEF scaleCPU
  <2>2. GoodAsk(win')
        BY <2>1, <1>2 DEF GoodAsk
  <2>3. QED BY <2>1, <2>2
<1>3. QED BY <1>1, <1>2

\* The memory part asks for what clamping leaves of its target, or for nothing.
LEMMA ScaleMemoryAsks ==
    ASSUME cfg \in Cfgs, NEW t \in Nat, NEW cooldown \in Nat, NEW oom \in BOOLEAN,
           oom \/ rt.memCool = 0, scaleMemory(t, cooldown, oom),
           ClampMem(cfg, t) < rt.mem => Headroom(win'.long, ClampMem(cfg, t))
    PROVE  GoodAsk(win')
<1> DEFINE g == ClampMem(cfg, t)
<1>1. g \in cfg.minMem..cfg.maxMem
      BY Clamped
<1>2. CASE g = rt.mem
      BY <1>2 DEF scaleMemory, GoodAsk
<1>3. CASE g # rt.mem
  <2>1. Ask("mem", g, cooldown, oom)
        BY <1>3 DEF scaleMemory
  <2>2. g < rt.mem => Headroom(win'.long, g)
        OBVIOUS
  <2> HIDE DEF g
  <2>3. QED BY <1>1, <1>3, <2>1, <2>2 DEF GoodAsk
<1>4. QED BY <1>2, <1>3

\* The memory part of a poll.
LEMMA MemoryScale ==
    ASSUME TypeOK, Inside(cfg, rt), NEW w, WindowsOK(w), NEW oom \in BOOLEAN,
           handleMemoryScale(w, oom)
    PROVE  WindowsOK(win') /\ GoodAsk(win')
<1> DEFINE level == IF 100 * used >= 85 * rt.mem THEN "high" ELSE "mid"
           mem == IF used > 0 THEN Add(w.mem, level, MemUpSize) ELSE w.mem
           long == Add(w.long, used, MemDownSize)
<1>1. /\ cfg \in Cfgs /\ used \in WorkingSets /\ used \in Nat
      /\ rt.mem \in cfg.minMem..cfg.maxMem /\ rt.mem \in Nat
      /\ rt.cpuCool \in Nat /\ rt.memCool \in Nat
      BY Sizes, ValidFacts DEF TypeOK, Runtime, Inside
<1>2. /\ w.mem \in Seq({"mid", "high"}) /\ w.long \in Seq(WorkingSets)
      /\ Len(w.mem) <= MemUpSize /\ Len(w.long) <= MemDownSize
      BY DEF WindowsOK, Windows
<1>3. level \in {"mid", "high"}
      OBVIOUS
<1>4. mem \in Seq({"mid", "high"}) /\ Len(mem) <= MemUpSize
  <2> HIDE DEF level
  <2>1. /\ Add(w.mem, level, MemUpSize) \in Seq({"mid", "high"})
        /\ Len(Add(w.mem, level, MemUpSize)) <= MemUpSize
        BY <1>2, <1>3, Sizes, AddTyped
  <2>2. QED BY <2>1, <1>2
<1>5. long \in Seq(WorkingSets) /\ Len(long) <= MemDownSize /\ Len(long) >= 1
      BY <1>1, <1>2, Sizes, AddTyped
<1>6. CASE oom /\ win' = w /\ scaleMemory(2 * rt.mem, MemUpCooldown, TRUE)
  <2>1. 2 * rt.mem \in Nat /\ 2 * rt.mem >= cfg.minMem /\ 2 * rt.mem >= rt.mem
        BY <1>1, ValidFacts
  <2>2. ~(ClampMem(cfg, 2 * rt.mem) < rt.mem)
    <3> DEFINE t == 2 * rt.mem
    <3>1. t \in Nat /\ t >= rt.mem /\ t >= cfg.minMem
          BY <2>1
    <3> HIDE DEF t
    <3>2. ClampMem(cfg, t) = t \/ ClampMem(cfg, t) = cfg.maxMem
          BY <3>1, <1>1, Clamped
    <3>3. QED BY <3>1, <3>2, <1>1, ValidFacts DEF t
  <2>3. GoodAsk(win')
        BY <1>1, <1>6, <2>1, <2>2, Sizes, ScaleMemoryAsks
  <2>4. QED BY <1>6, <2>3
<1>7. CASE win' = [w EXCEPT !.mem = <<>>] /\ Stay
      BY <1>7, ResetTyped DEF GoodAsk
<1>8. CASE /\ ~oom /\ rt.memCool = 0
           /\ win' = [w EXCEPT !.mem = mem] /\ scaleMemory(rt.mem + MemStep, MemUpCooldown, FALSE)
  <2>1. rt.mem + MemStep \in Nat /\ rt.mem + MemStep >= cfg.minMem /\ rt.mem + MemStep >= rt.mem
        BY <1>1, ValidFacts, Sizes
  <2>2. ~(ClampMem(cfg, rt.mem + MemStep) < rt.mem)
    <3> DEFINE t == rt.mem + MemStep
    <3>1. t \in Nat /\ t >= rt.mem /\ t >= cfg.minMem
          BY <2>1
    <3> HIDE DEF t
    <3>2. ClampMem(cfg, t) = t \/ ClampMem(cfg, t) = cfg.maxMem
          BY <3>1, <1>1, Clamped
    <3>3. QED BY <3>1, <3>2, <1>1, ValidFacts DEF t
  <2>3. GoodAsk(win')
        BY <1>1, <1>8, <2>1, <2>2, Sizes, ScaleMemoryAsks
  <2> HIDE DEF mem
  <2>4. WindowsOK([w EXCEPT !.mem = mem])
        BY <1>4, WithMemTyped
  <2>5. QED BY <1>8, <2>3, <2>4
<1>9. CASE /\ ~oom /\ rt.memCool = 0
           /\ win' = [up |-> w.up, down |-> w.down, mem |-> mem, long |-> long]
           /\ \E p95 \in {long[i] : i \in DOMAIN long} :
                  /\ P95(long, p95)
                  /\ IF Len(long) = MemDownSize /\ p95 > 0 /\ 2 * p95 <= rt.mem
                       THEN scaleMemory(MemBelow(cfg, rt.mem, p95), MemDownCooldown, FALSE)
                       ELSE Stay
  <2> HIDE DEF mem, long
  <2>1. PICK p95 \in {long[i] : i \in DOMAIN long} :
            /\ P95(long, p95)
            /\ IF Len(long) = MemDownSize /\ p95 > 0 /\ 2 * p95 <= rt.mem
                 THEN scaleMemory(MemBelow(cfg, rt.mem, p95), MemDownCooldown, FALSE)
                 ELSE Stay
        BY <1>9
  <2>2. WindowsOK(win') /\ win'.long = long
    <3>1. /\ w.up \in Seq({"low", "mid", "high"}) /\ w.down \in Seq({"low", "mid", "high"})
          /\ Len(w.up) <= UpSize /\ Len(w.down) <= DownSize
          BY DEF WindowsOK, Windows
    <3>2. QED BY <1>4, <1>5, <1>9, <3>1 DEF WindowsOK, Windows
  <2>3. CASE Stay
        BY <2>2, <2>3 DEF GoodAsk
  <2>4. CASE /\ Len(long) = MemDownSize
             /\ scaleMemory(MemBelow(cfg, rt.mem, p95), MemDownCooldown, FALSE)
    <3> DEFINE b == MemBelow(cfg, rt.mem, p95)
    <3>1. b \in Nat
      <4>1. p95 \in Nat
            BY <1>5, <2>1, Sizes, LenProperties, ElementOfSeq
      <4>2. QED BY <1>1, <4>1, BelowIsNat
    <3>2. ClampMem(cfg, b) < rt.mem => Headroom(long, ClampMem(cfg, b))
          BY <1>1, <1>5, <2>1, <2>4, BelowIsRoomy
    <3>3. QED
      <4>1. scaleMemory(b, MemDownCooldown, FALSE)
            BY <2>4
      <4> HIDE DEF b
      <4>2. QED BY <1>1, <1>9, <2>2, <3>1, <3>2, <4>1, Sizes, ScaleMemoryAsks
  <2>5. QED BY <2>1, <2>3, <2>4
<1>10. QED BY <1>6, <1>7, <1>8, <1>9 DEF handleMemoryScale

\* A poll keeps the windows to their sizes, and makes at most one sound call.
LEMMA PollOutcome ==
    ASSUME TypeOK, Inside(cfg, rt), NEW usage \in {"none", "low", "mid", "high"}, Poll(usage)
    PROVE  WindowsOK(win') /\ GoodAsk(win')
<1> DEFINE oom == kills > prev.kills
           added == [up |-> Add(win.up, usage, UpSize), down |-> Add(win.down, usage, DownSize),
                     mem |-> win.mem, long |-> win.long]
           w == IF rt.cpuCool > 0 THEN WithoutCPU(win)
                ELSE IF usage = "none" THEN win ELSE added
           judged == usage # "none" /\ ~(rt.cpuCool > 0)
           up == judged /\ Len(w.up) = UpSize /\ Count(w.up, "high") >= UpHits
           down == judged /\ Len(w.down) = DownSize /\ Count(w.down, "low") >= DownHits
<1>1. WindowsOK(win) /\ cfg \in Cfgs /\ rt.cpuCool \in Nat /\ rt.cpu \in cfg.minCPU..cfg.maxCPU
      BY DEF TypeOK, WindowsOK, Runtime, Inside
<1>2. usage # "none" => WindowsOK(added)
  <2>1. SUFFICES ASSUME usage \in {"low", "mid", "high"}
                 PROVE  WindowsOK(added)
        OBVIOUS
  <2>2. /\ win.up \in Seq({"low", "mid", "high"}) /\ win.down \in Seq({"low", "mid", "high"})
        /\ win.mem \in Seq({"mid", "high"}) /\ win.long \in Seq(WorkingSets)
        /\ Len(win.up) <= UpSize /\ Len(win.down) <= DownSize
        /\ Len(win.mem) <= MemUpSize /\ Len(win.long) <= MemDownSize
        BY <1>1 DEF WindowsOK, Windows
  <2> DEFINE S == {"low", "mid", "high"}
  <2>s. win.up \in Seq(S) /\ win.down \in Seq(S) /\ usage \in S
        BY <2>1, <2>2
  <2>n. UpSize \in Nat \ {0} /\ DownSize \in Nat \ {0}
        BY Sizes
  <2> HIDE DEF S
  <2>3. Add(win.up, usage, UpSize) \in Seq(S) /\ Len(Add(win.up, usage, UpSize)) <= UpSize
        BY <2>2, <2>s, <2>n, AddTyped
  <2>4. Add(win.down, usage, DownSize) \in Seq(S) /\ Len(Add(win.down, usage, DownSize)) <= DownSize
        BY <2>2, <2>s, <2>n, AddTyped
  <2>5. QED BY <2>2, <2>3, <2>4 DEF WindowsOK, Windows, S
<1> HIDE DEF added
<1>3. WindowsOK(w)
      BY <1>1, <1>2, ResetTyped
<1>4. oom \in BOOLEAN
      OBVIOUS
<1>5. \/ up /\ scaleCPU(w, CPUAbove(cfg, rt.cpu))
      \/ ~up /\ down /\ scaleCPU(w, CPUBelow(cfg, rt.cpu))
      \/ ~up /\ ~down /\ handleMemoryScale(w, oom)
      BY DEF Poll, added
<1>6. (up \/ down) => rt.cpuCool = 0
      BY <1>1
<1> HIDE DEF oom, w, up, down
<1>7. CASE up /\ scaleCPU(w, CPUAbove(cfg, rt.cpu))
      BY <1>1, <1>3, <1>6, <1>7, CPUTargets, ScaleCPUAsks
<1>8. CASE down /\ scaleCPU(w, CPUBelow(cfg, rt.cpu))
      BY <1>1, <1>3, <1>6, <1>8, CPUTargets, ScaleCPUAsks
<1>9. CASE handleMemoryScale(w, oom)
      BY <1>3, <1>4, <1>9, MemoryScale
<1>10. QED BY <1>5, <1>7, <1>8, <1>9

-----------------------------------------------------------------------------
(* The inductive invariant. *)

Rows == cfgRow # NoCfg /\ row # NoRow

\* What loadPersistedRuntime will find.
Loaded == IF Rows THEN row ELSE rt

\* The limits the controller believes in, or will believe in once it has loaded.
Belief == IF pc \in {"idle", "updating"} THEN rt ELSE initCPUState(cfg, Loaded)

InsideInv == pc \in {"idle", "updating"} => Inside(cfg, rt)

RowsInv == cfgRow \in {cfg, NoCfg}

\* Whoever is at work, or will be after the next start, believes in the limits in force
\* and remembers at least what remains of their cooldowns.
KnowsInv ==
    pc # "off" \/ Rows =>
        /\ "cpu" \in lost \/ (limits["cpu"] \in {Unset, Belief.cpu} /\ quiet["cpu"] <= Belief.cpuCool)
        /\ "mem" \in lost \/ (limits["mem"] \in {Unset, Belief.mem} /\ quiet["mem"] <= Belief.memCool)

\* A call in progress was made when no cooldown was running.
PendInv ==
    pc = "updating" => quiet[pend.what] = 0 \/ pend.what \in lost \/ (pend.what = "mem" /\ pend.oom)

VScaleInv ==
    /\ TypeOK /\ InsideInv /\ RowsInv /\ AsksWithinLimits /\ KnowsInv /\ PendInv /\ KeepsHeadroom

\* The facts about the present state that the steps below share.
LEMMA Facts ==
    ASSUME TypeOK
    PROVE  /\ cfg \in Cfgs /\ rt \in Runtime /\ WindowsOK(win)
           /\ cfgRow \in Cfgs \cup {NoCfg} /\ row \in Runtime \cup {NoRow}
           /\ limits \in [{"cpu", "mem"} -> Nat] /\ quiet \in [{"cpu", "mem"} -> Nat]
           /\ lost \subseteq {"cpu", "mem"} /\ Loaded \in Runtime
BY DEF TypeOK, WindowsOK, Loaded, Rows

\* A new runtime is a runtime.
LEMMA NewTyped ==
    ASSUME NEW c \in Cfgs
    PROVE  NewRuntime(c) \in Runtime
BY ValidFacts DEF NewRuntime, Runtime

\* A cooled runtime is a runtime with the same limits.
LEMMA CoolTyped ==
    ASSUME NEW r \in Runtime
    PROVE  /\ Cooler(r) \in Runtime /\ Cooler(r).cpu = r.cpu /\ Cooler(r).mem = r.mem
           /\ Cooler(r).cpuCool = Less(r.cpuCool) /\ Cooler(r).memCool = Less(r.memCool)
BY DEF Cooler, Less, Runtime

\* Empty windows are windows.
LEMMA EmptyTyped == WindowsOK(Empty)
<1>1. \A S : <<>> \in Seq(S) /\ Len(<<>>) = 0
      BY EmptySeq
<1>2. QED BY <1>1, Sizes DEF WindowsOK, Windows, Empty

\* No call is a call of nothing.
LEMMA NoCallTyped ==
    /\ NoCall \in [what : {"none", "cpu", "mem"}, target : Nat, cooldown : Nat, oom : BOOLEAN]
    /\ NoCall.what = "none"
BY DEF NoCall

\* The count of events keeps to its bound.
LEMMA EventTyped ==
    ASSUME events \in 0..MaxEvents, Event \/ UNCHANGED events
    PROVE  events' \in 0..MaxEvents
BY Sizes DEF Event

\* A limit is applied, with or without its cooldown.
LEMMA ApplyTyped ==
    ASSUME TypeOK, pc = "updating", Apply
    PROVE  /\ limits' \in [{"cpu", "mem"} -> Nat] /\ quiet' \in [{"cpu", "mem"} -> Nat]
           /\ \A x \in {"cpu", "mem"} : x # pend.what => limits'[x] = limits[x] /\ quiet'[x] = quiet[x]
<1>1. /\ pend.what \in {"cpu", "mem"} /\ pend.target \in Nat /\ pend.cooldown \in Nat
      /\ limits \in [{"cpu", "mem"} -> Nat] /\ quiet \in [{"cpu", "mem"} -> Nat]
      BY DEF TypeOK
<1>2. limits' = [limits EXCEPT ![pend.what] = pend.target]
      BY DEF Apply, Applied
<1>3. quiet' = quiet \/ quiet' = [quiet EXCEPT ![pend.what] = pend.cooldown]
      BY DEF Apply
<1>4. QED BY <1>1, <1>2, <1>3

\* A registration of a container that had no row satisfies the invariant.
LEMMA InitInv == Init => VScaleInv
<1> SUFFICES ASSUME Init PROVE VScaleInv
    OBVIOUS
<1>1. cfg \in Cfgs /\ NewRuntime(cfg) \in Runtime
      BY NewTyped DEF Init
<1>2. TypeOK
  <2>1. WindowsOK(Empty)
        BY EmptyTyped
  <2>2. NoStats \in [has : BOOLEAN, kills : 0..MaxKills]
        BY Sizes DEF NoStats
  <2>4. /\ pc \in {"off", "load", "idle", "updating"} /\ cancelled \in BOOLEAN
        /\ cfg \in Cfgs /\ rt \in Runtime /\ WindowsOK(win)
        /\ beat \in BOOLEAN /\ prev \in [has : BOOLEAN, kills : 0..MaxKills]
        BY <1>1, <2>1, <2>2 DEF Init
  <2>5. /\ fails \in 0..(maxStatsFailures - 1)
        /\ pend \in [what : {"none", "cpu", "mem"}, target : Nat, cooldown : Nat, oom : BOOLEAN]
        /\ (pc = "updating" <=> pend.what # "none")
        BY NoCallTyped DEF Init, maxStatsFailures
  <2>6. cfgRow \in Cfgs \cup {NoCfg} /\ row \in Runtime \cup {NoRow}
        BY <1>1 DEF Init
  <2>7. limits \in [Resources -> Nat] /\ quiet \in [Resources -> Nat]
    <3>1. limits = [r \in Resources |-> 0] /\ quiet = [r \in Resources |-> 0]
          BY DEF Init, Unset
    <3>2. QED BY <3>1
  <2>8. /\ used \in WorkingSets /\ kills \in 0..MaxKills
        /\ events \in 0..MaxEvents /\ lost \subseteq Resources
        BY Sizes DEF Init
  <2>9. QED BY <2>4, <2>5, <2>6, <2>7, <2>8 DEF TypeOK, WindowsOK
<1>3. KnowsInv
  <2>1. Belief = initCPUState(cfg, NewRuntime(cfg)) /\ limits = [r \in Resources |-> Unset]
        /\ quiet = [r \in Resources |-> 0]
        BY <1>1 DEF Init, Belief, Loaded, Rows
  <2>2. Belief.cpuCool \in Nat /\ Belief.memCool \in Nat
        BY <1>1, <2>1, InitState DEF Runtime
  <2>3. QED BY <2>1, <2>2 DEF KnowsInv
<1>4. InsideInv /\ RowsInv /\ AsksWithinLimits /\ PendInv
      BY DEF Init, InsideInv, RowsInv, AsksWithinLimits, PendInv
<1>5. KeepsHeadroom
      BY DEF Init, NoCall, KeepsHeadroom
<1>6. QED BY <1>2, <1>3, <1>4, <1>5 DEF VScaleInv

\* Load: the belief becomes what was stored, or the controller knows nothing.
LEMMA LoadInv ==
    ASSUME VScaleInv, Load
    PROVE  VScaleInv'
<1>1. /\ TypeOK /\ pc = "load" /\ pc' = "idle"
      /\ UNCHANGED <<cancelled, cfg, win, prev, beat, fails, pend, cfgRow, row, limits, used, kills, quiet>>
      BY DEF VScaleInv, Load, tables, container
<1>2. pend.what = "none"
      BY <1>1 DEF TypeOK
<1>3. \/ rt' = initCPUState(cfg, Loaded) /\ UNCHANGED <<events, lost>>
      \/ Event /\ rt' = initCPUState(cfg, rt) /\ lost' = Resources
      BY DEF Load, Loaded, Rows
<1>4. rt' \in Runtime /\ Inside(cfg, rt')
  <2>1. cfg \in Cfgs /\ rt \in Runtime /\ Loaded \in Runtime
        BY <1>1, Facts
  <2>2. \A r \in Runtime : /\ initCPUState(cfg, r) \in Runtime
                           /\ initCPUState(cfg, r).cpu \in cfg.minCPU..cfg.maxCPU
                           /\ initCPUState(cfg, r).mem \in cfg.minMem..cfg.maxMem
        BY <2>1, InitState
  <2> HIDE DEF Loaded
  <2>3. rt' = initCPUState(cfg, Loaded) \/ rt' = initCPUState(cfg, rt)
        BY <1>3
  <2>4. QED BY <2>1, <2>2, <2>3 DEF Inside
<1>5. events' \in 0..MaxEvents /\ lost' \subseteq Resources
  <2>1. events \in 0..MaxEvents /\ lost \subseteq Resources
        BY <1>1 DEF TypeOK
  <2>2. Event \/ UNCHANGED events
        BY <1>3
  <2>3. QED BY <1>3, <2>1, <2>2, EventTyped
<1>6. TypeOK'
      BY <1>1, <1>2, <1>4, <1>5 DEF TypeOK
<1>7. KnowsInv'
  <2>1. CASE rt' = initCPUState(cfg, Loaded) /\ lost' = lost
    <3>1. Belief' = Belief
          BY <1>1, <2>1 DEF Belief
    <3>2. QED BY <1>1, <2>1, <3>1 DEF VScaleInv, KnowsInv
  <2>2. CASE lost' = Resources
        BY <2>2 DEF KnowsInv
  <2>3. QED BY <1>3, <2>1, <2>2
<1>8. InsideInv' /\ RowsInv' /\ AsksWithinLimits' /\ PendInv'
      BY <1>1, <1>4 DEF VScaleInv, InsideInv, RowsInv, AsksWithinLimits, PendInv
<1>9. KeepsHeadroom'
      BY <1>1, <1>2 DEF KeepsHeadroom
<1>10. QED BY <1>6, <1>7, <1>8, <1>9 DEF VScaleInv

\* Poll: what PollOutcome says of the call, made outside of its cooldown.
LEMMA PollInv ==
    ASSUME VScaleInv, NEW usage \in {"none", "low", "mid", "high"}, Poll(usage)
    PROVE  VScaleInv'
<1>1. /\ TypeOK /\ pc = "idle" /\ Inside(cfg, rt) /\ pend.what = "none"
      /\ rt.cpuCool \in Nat /\ rt.memCool \in Nat
      /\ limits \in [{"cpu", "mem"} -> Nat] /\ quiet \in [{"cpu", "mem"} -> Nat]
      BY DEF VScaleInv, Poll, Running, InsideInv, TypeOK, Runtime
<1>2. /\ UNCHANGED <<cancelled, cfg, rt, cfgRow, row, limits, used, kills, events, quiet, lost>>
      /\ prev' = [has |-> TRUE, kills |-> kills] /\ fails' = 0 /\ beat' \in BOOLEAN
      BY DEF Poll, tables, container, history
<1>3. WindowsOK(win') /\ GoodAsk(win')
      BY <1>1, PollOutcome
<1>4. cfg.minCPU \in Nat /\ cfg.maxCPU \in Nat /\ cfg.minMem \in Nat /\ cfg.maxMem \in Nat
      BY <1>1, Facts, ValidFacts
<1>5. /\ pc' \in {"idle", "updating"}
      /\ pend' \in [what : {"none", "cpu", "mem"}, target : Nat, cooldown : Nat, oom : BOOLEAN]
      /\ (pc' = "updating" <=> pend'.what # "none")
  <2>1. CASE Stay
        BY <1>1, <2>1 DEF Stay, TypeOK
  <2>2. ASSUME NEW t \in cfg.minCPU..cfg.maxCPU, Ask("cpu", t, CPUCooldown, FALSE)
        PROVE  <1>5!1 /\ <1>5!2 /\ <1>5!3
        BY <1>4, <2>2, Sizes DEF Ask
  <2>3. ASSUME NEW t \in cfg.minMem..cfg.maxMem, NEW cooldown \in Nat, NEW oom \in BOOLEAN,
               Ask("mem", t, cooldown, oom)
        PROVE  <1>5!1 /\ <1>5!2 /\ <1>5!3
        BY <1>4, <2>3 DEF Ask
  <2>4. QED BY <1>3, <2>1, <2>2, <2>3 DEF GoodAsk
<1>6. TypeOK'
  <2>1. prev' \in [has : BOOLEAN, kills : 0..MaxKills] /\ fails' \in 0..(maxStatsFailures - 1)
        /\ beat' \in BOOLEAN
        BY <1>1, <1>2 DEF TypeOK, maxStatsFailures
  <2>2. QED BY <1>1, <1>2, <1>3, <1>5, <2>1 DEF TypeOK, WindowsOK
<1>7. KnowsInv'
  <2>1. Belief' = Belief
        BY <1>1, <1>2, <1>5 DEF Belief
  <2>2. QED BY <1>1, <1>2, <2>1 DEF VScaleInv, KnowsInv
<1>8. AsksWithinLimits' /\ PendInv' /\ KeepsHeadroom'
  <2>0. /\ "cpu" \in lost \/ quiet["cpu"] <= rt.cpuCool
        /\ "mem" \in lost \/ quiet["mem"] <= rt.memCool
        BY <1>1 DEF VScaleInv, KnowsInv, Belief
  <2>1. CASE Stay
    <3>1. pc' = "idle" /\ pend'.what = "none"
          BY <1>1, <2>1 DEF Stay
    <3>2. QED BY <3>1 DEF AsksWithinLimits, PendInv, KeepsHeadroom
  <2>2. ASSUME NEW t \in cfg.minCPU..cfg.maxCPU,
               t # rt.cpu, rt.cpuCool = 0, Ask("cpu", t, CPUCooldown, FALSE)
        PROVE  AsksWithinLimits' /\ PendInv' /\ KeepsHeadroom'
    <3>1. pend'.what = "cpu" /\ pend'.target = t
          BY <2>2 DEF Ask
    <3>2. AsksWithinLimits'
          BY <1>2, <2>2, <3>1 DEF AsksWithinLimits, Within
    <3>3. PendInv'
          BY <1>1, <1>2, <2>0, <2>2, <3>1 DEF PendInv
    <3>4. KeepsHeadroom'
          BY <3>1 DEF KeepsHeadroom
    <3>5. QED BY <3>2, <3>3, <3>4
  <2>3. ASSUME NEW t \in cfg.minMem..cfg.maxMem, NEW cooldown \in Nat, NEW oom \in BOOLEAN,
               t # rt.mem, oom \/ rt.memCool = 0, Ask("mem", t, cooldown, oom),
               t < rt.mem => Headroom(win'.long, t)
        PROVE  AsksWithinLimits' /\ PendInv' /\ KeepsHeadroom'
    <3>1. pend'.what = "mem" /\ pend'.target = t /\ pend'.oom = oom
          BY <2>3 DEF Ask
    <3>2. AsksWithinLimits'
          BY <1>2, <2>3, <3>1 DEF AsksWithinLimits, Within
    <3>3. PendInv'
          BY <1>1, <1>2, <2>0, <2>3, <3>1 DEF PendInv
    <3>4. KeepsHeadroom'
          BY <1>2, <2>3, <3>1 DEF KeepsHeadroom, Headroom, Roomy
    <3>5. QED BY <3>2, <3>3, <3>4
  <2>4. QED BY <1>3, <2>1, <2>2, <2>3 DEF GoodAsk
<1>9. InsideInv' /\ RowsInv'
      BY <1>1, <1>2 DEF VScaleInv, InsideInv, Inside, RowsInv
<1>10. QED BY <1>6, <1>7, <1>8, <1>9 DEF VScaleInv

\* UpdateSucceeds: the limit asked for is in force, and its cooldown begins.
LEMMA SucceedsInv ==
    ASSUME VScaleInv, UpdateSucceeds
    PROVE  VScaleInv'
<1>1. /\ TypeOK /\ pc = "updating" /\ pc' = "idle" /\ pend' = NoCall /\ Inside(cfg, rt)
      /\ pend.what \in {"cpu", "mem"} /\ pend.target \in Nat /\ pend.cooldown \in Nat
      /\ limits \in [{"cpu", "mem"} -> Nat] /\ quiet \in [{"cpu", "mem"} -> Nat]
      /\ lost \subseteq {"cpu", "mem"}
      BY DEF VScaleInv, UpdateSucceeds, InsideInv, TypeOK
<1>2. /\ limits' = [limits EXCEPT ![pend.what] = pend.target]
      /\ quiet' = [quiet EXCEPT ![pend.what] = pend.cooldown]
      /\ rt' = Scaled(rt) /\ lost' = lost \ {pend.what}
      /\ win' = IF pend.what = "cpu" THEN WithoutCPU(win) ELSE WithoutMem(win)
      /\ UNCHANGED <<cancelled, cfg, prev, beat, fails, cfgRow, row, used, kills, events>>
      BY DEF UpdateSucceeds, Applied, tables, container
<1>3. Within(cfg, pend.what, pend.target)
      BY <1>1 DEF VScaleInv, AsksWithinLimits
<1>4. /\ rt \in Runtime /\ rt.cpu \in Nat /\ rt.mem \in Nat /\ rt.cpuCool \in Nat /\ rt.memCool \in Nat
      BY <1>1 DEF TypeOK, Runtime
<1>5. /\ rt' \in Runtime
      /\ rt'.cpu = (IF pend.what = "cpu" THEN pend.target ELSE rt.cpu)
      /\ rt'.mem = (IF pend.what = "cpu" THEN rt.mem ELSE pend.target)
      /\ rt'.cpuCool = (IF pend.what = "cpu" THEN pend.cooldown ELSE rt.cpuCool)
      /\ rt'.memCool = (IF pend.what = "cpu" THEN rt.memCool ELSE pend.cooldown)
  <2>1. CASE pend.what = "cpu"
        BY <1>1, <1>2, <1>4, <2>1 DEF Scaled, Runtime
  <2>2. CASE pend.what = "mem"
        BY <1>1, <1>2, <1>4, <2>2 DEF Scaled, Runtime
  <2>3. QED BY <1>1, <2>1, <2>2
<1>6. Inside(cfg, rt')
      BY <1>1, <1>3, <1>5 DEF Inside, Within
<1>7. WindowsOK(win')
      BY <1>1, <1>2, Facts, ResetTyped
<1>8. /\ limits' \in [{"cpu", "mem"} -> Nat] /\ quiet' \in [{"cpu", "mem"} -> Nat]
      /\ lost' \subseteq {"cpu", "mem"}
      BY <1>1, <1>2
<1>9. TypeOK'
      BY <1>1, <1>2, <1>5, <1>7, <1>8, NoCallTyped DEF TypeOK, WindowsOK
<1>10. KnowsInv'
  <2>1. Belief' = rt' /\ Belief = rt
        BY <1>1 DEF Belief
  <2>2. CASE pend.what = "cpu"
    <3>1. /\ limits'["cpu"] = rt'.cpu /\ quiet'["cpu"] = rt'.cpuCool
          /\ limits'["mem"] = limits["mem"] /\ quiet'["mem"] = quiet["mem"]
          /\ rt'.mem = rt.mem /\ rt'.memCool = rt.memCool /\ ("mem" \in lost' <=> "mem" \in lost)
          BY <1>1, <1>2, <1>5, <2>2
    <3>2. quiet'["cpu"] <= rt'.cpuCool
          BY <3>1, <1>1, <1>5, <2>2
    <3>3. QED BY <1>1, <2>1, <3>1, <3>2 DEF VScaleInv, KnowsInv
  <2>3. CASE pend.what = "mem"
    <3>1. /\ limits'["mem"] = rt'.mem /\ quiet'["mem"] = rt'.memCool
          /\ limits'["cpu"] = limits["cpu"] /\ quiet'["cpu"] = quiet["cpu"]
          /\ rt'.cpu = rt.cpu /\ rt'.cpuCool = rt.cpuCool /\ ("cpu" \in lost' <=> "cpu" \in lost)
          BY <1>1, <1>2, <1>5, <2>3
    <3>2. quiet'["mem"] <= rt'.memCool
          BY <3>1, <1>1, <1>5, <2>3
    <3>3. QED BY <1>1, <2>1, <3>1, <3>2 DEF VScaleInv, KnowsInv
  <2>4. QED BY <1>1, <2>2, <2>3
<1>11. InsideInv' /\ RowsInv'
      BY <1>1, <1>2, <1>6 DEF VScaleInv, InsideInv, RowsInv
<1>12. AsksWithinLimits' /\ PendInv' /\ KeepsHeadroom'
      BY <1>1, NoCallTyped DEF AsksWithinLimits, PendInv, KeepsHeadroom
<1>13. QED BY <1>9, <1>10, <1>11, <1>12 DEF VScaleInv

\* UpdateRefused, AnswerLost: nothing happened, or the limit is one the controller may be
\* wrong about.
LEMMA FailsInv ==
    ASSUME VScaleInv, UpdateRefused \/ AnswerLost
    PROVE  VScaleInv'
<1>1. /\ TypeOK /\ pc = "updating" /\ pc' = "idle" /\ pend' = NoCall /\ Inside(cfg, rt)
      /\ pend.what \in {"cpu", "mem"} /\ pend.target \in Nat /\ pend.cooldown \in Nat
      /\ limits \in [{"cpu", "mem"} -> Nat] /\ quiet \in [{"cpu", "mem"} -> Nat]
      /\ lost \subseteq {"cpu", "mem"} /\ events \in 0..MaxEvents
      /\ UNCHANGED <<cancelled, cfg, rt, win, prev, beat, fails, cfgRow, row, used, kills>>
      BY DEF VScaleInv, UpdateRefused, AnswerLost, InsideInv, TypeOK, tables, container
<1>2. events' \in 0..MaxEvents
      BY <1>1, EventTyped DEF UpdateRefused, AnswerLost
<1>3. \/ limits' = limits /\ quiet' = quiet /\ lost' = lost
      \/ Apply /\ lost' = lost \cup {pend.what}
      BY DEF UpdateRefused, AnswerLost, history
<1>4. limits' \in [{"cpu", "mem"} -> Nat] /\ quiet' \in [{"cpu", "mem"} -> Nat]
      /\ lost' \subseteq {"cpu", "mem"}
      BY <1>1, <1>3, ApplyTyped
<1>5. TypeOK'
      BY <1>1, <1>2, <1>4, NoCallTyped DEF TypeOK
<1>6. KnowsInv'
  <2>1. Belief' = Belief
        BY <1>1 DEF Belief
  <2>2. \A x \in {"cpu", "mem"} :
            \/ x \in lost'
            \/ (x \in lost <=> x \in lost') /\ limits'[x] = limits[x] /\ quiet'[x] = quiet[x]
        BY <1>1, <1>3, ApplyTyped
  <2>3. QED BY <1>1, <2>1, <2>2 DEF VScaleInv, KnowsInv
<1>7. InsideInv' /\ RowsInv'
      BY <1>1 DEF VScaleInv, InsideInv, Inside, RowsInv
<1>8. AsksWithinLimits' /\ PendInv' /\ KeepsHeadroom'
      BY <1>1, NoCallTyped DEF AsksWithinLimits, PendInv, KeepsHeadroom
<1>9. QED BY <1>5, <1>6, <1>7, <1>8 DEF VScaleInv

\* persist: the row is what the controller believes.
LEMMA PersistInv ==
    ASSUME VScaleInv, persist
    PROVE  VScaleInv'
<1>1. /\ TypeOK /\ pc = "idle" /\ row' = (IF row = NoRow THEN NoRow ELSE rt)
      /\ UNCHANGED <<pc, cancelled, cfg, rt, win, prev, fails, pend, beat, cfgRow, limits, used,
                     kills, events, quiet, lost>>
      BY DEF VScaleInv, persist, Running, Store, goroutine, container, history
<1>2. TypeOK'
      BY <1>1 DEF TypeOK
<1>3. KnowsInv'
  <2>1. Belief' = Belief
        BY <1>1 DEF Belief
  <2>2. QED BY <1>1, <2>1 DEF VScaleInv, KnowsInv
<1>4. InsideInv' /\ RowsInv' /\ AsksWithinLimits' /\ PendInv' /\ KeepsHeadroom'
      BY <1>1 DEF VScaleInv, InsideInv, Inside, RowsInv, AsksWithinLimits, Within, PendInv, KeepsHeadroom
<1>5. QED BY <1>2, <1>3, <1>4 DEF VScaleInv

\* A goroutine that has ended is well typed, and calls nobody.
LEMMA EndedFacts ==
    ASSUME NEW c \in Cfgs, Ended(c)
    PROVE  /\ pc' = "off" /\ cancelled' \in BOOLEAN /\ cfg' = c /\ rt' = NewRuntime(c) /\ rt' \in Runtime
           /\ WindowsOK(win') /\ prev' \in [has : BOOLEAN, kills : 0..MaxKills]
           /\ fails' \in 0..(maxStatsFailures - 1) /\ pend' = NoCall /\ beat' \in BOOLEAN
<1>1. NoStats \in [has : BOOLEAN, kills : 0..MaxKills]
      BY Sizes DEF NoStats
<1>2. WindowsOK(Empty)
      BY EmptyTyped
<1>3. fails' \in 0..(maxStatsFailures - 1)
      BY DEF Ended, maxStatsFailures
<1>4. /\ pc' = "off" /\ cancelled' = FALSE /\ cfg' = c /\ rt' = NewRuntime(c) /\ win' = Empty
      /\ prev' = NoStats /\ pend' = NoCall /\ beat' = FALSE
      BY DEF Ended
<1>5. QED BY <1>1, <1>2, <1>3, <1>4, NewTyped

\* So is one that begins.
LEMMA BeginFacts ==
    ASSUME NEW c \in Cfgs, Begin(c)
    PROVE  /\ pc' = "load" /\ cancelled' \in BOOLEAN /\ cfg' = c /\ rt' = NewRuntime(c) /\ rt' \in Runtime
           /\ WindowsOK(win') /\ prev' \in [has : BOOLEAN, kills : 0..MaxKills]
           /\ fails' \in 0..(maxStatsFailures - 1) /\ pend' = NoCall /\ beat' \in BOOLEAN
<1>1. NoStats \in [has : BOOLEAN, kills : 0..MaxKills]
      BY Sizes DEF NoStats
<1>2. WindowsOK(Empty)
      BY EmptyTyped
<1>3. fails' \in 0..(maxStatsFailures - 1)
      BY DEF Begin, maxStatsFailures
<1>4. /\ pc' = "load" /\ cancelled' = FALSE /\ cfg' = c /\ rt' = NewRuntime(c) /\ win' = Empty
      /\ prev' = NoStats /\ pend' = NoCall /\ beat' = FALSE
      BY DEF Begin
<1>5. QED BY <1>1, <1>2, <1>3, <1>4, NewTyped

\* What holds of any state without a call and without a controller that has loaded.
LEMMA NoCallInv ==
    ASSUME TypeOK', pc' \in {"off", "load"}, pend' = NoCall, RowsInv', KnowsInv'
    PROVE  VScaleInv'
<1>1. InsideInv' /\ AsksWithinLimits' /\ PendInv'
      BY DEF InsideInv, AsksWithinLimits, PendInv
<1>2. KeepsHeadroom'
      BY NoCallTyped DEF KeepsHeadroom
<1>3. QED BY <1>1, <1>2 DEF VScaleInv

\* Done: what the next start will read is what this controller believed.
LEMMA DoneInv ==
    ASSUME VScaleInv, Done
    PROVE  VScaleInv'
<1>1. /\ TypeOK /\ pc = "idle" /\ Inside(cfg, rt) /\ RowsInv /\ KnowsInv /\ Ended(cfg)
      /\ row' = (IF row = NoRow THEN NoRow ELSE rt)
      /\ UNCHANGED <<cfgRow, limits, used, kills, events, quiet, lost>>
      BY DEF VScaleInv, Done, Running, Store, container, history, InsideInv
<1>2. cfg \in Cfgs /\ rt \in Runtime
      BY <1>1 DEF TypeOK
<1>3. /\ pc' = "off" /\ cfg' = cfg /\ pend' = NoCall /\ rt' \in Runtime
      /\ cancelled' \in BOOLEAN /\ WindowsOK(win') /\ prev' \in [has : BOOLEAN, kills : 0..MaxKills]
      /\ fails' \in 0..(maxStatsFailures - 1) /\ beat' \in BOOLEAN
      BY <1>1, <1>2, EndedFacts
<1>4. TypeOK'
      BY <1>1, <1>2, <1>3, NoCallTyped DEF TypeOK, WindowsOK
<1>5. KnowsInv'
  <2>1. CASE Rows'
    <3>1. Loaded' = rt
          BY <1>1, <2>1 DEF Loaded, Rows
    <3>2. Belief' = initCPUState(cfg, rt)
          BY <1>3, <3>1 DEF Belief
    <3>3. initCPUState(cfg, rt) = rt
          BY <1>1, <1>2, InitState DEF Inside
    <3>4. Belief = rt /\ Belief' = rt
          BY <1>1, <3>2, <3>3 DEF Belief
    <3>5. QED BY <1>1, <3>4 DEF KnowsInv
  <2>2. CASE ~Rows'
        BY <1>3, <2>2 DEF KnowsInv
  <2>3. QED BY <2>1, <2>2
<1>6. RowsInv'
      BY <1>1, <1>3 DEF RowsInv
<1>7. QED BY <1>3, <1>4, <1>5, <1>6, NoCallInv

\* PollFails: a failure is counted, or the container is unregistered.
LEMMA PollFailsInv ==
    ASSUME VScaleInv, PollFails
    PROVE  VScaleInv'
<1>1. /\ TypeOK /\ pc = "idle" /\ cfg \in Cfgs /\ Inside(cfg, rt) /\ KnowsInv /\ RowsInv
      /\ pend.what = "none" /\ events \in 0..MaxEvents
      /\ UNCHANGED <<limits, used, kills, quiet>>
      BY DEF VScaleInv, PollFails, Running, container, InsideInv, TypeOK
<1>2. events' \in 0..MaxEvents
      BY <1>1, EventTyped DEF PollFails
<1>3. CASE /\ fails + 1 < maxStatsFailures /\ fails' = fails + 1
           /\ UNCHANGED <<pc, cancelled, cfg, rt, win, prev, beat, pend, tables, lost>>
  <2>1. fails' \in 0..(maxStatsFailures - 1) /\ UNCHANGED <<cfgRow, row>>
        BY <1>1, <1>3 DEF TypeOK, maxStatsFailures, tables
  <2>2. TypeOK'
        BY <1>1, <1>2, <1>3, <2>1 DEF TypeOK
  <2>3. Belief' = Belief
        BY <1>1, <1>3 DEF Belief
  <2>4. KnowsInv'
        BY <1>1, <1>3, <2>3 DEF KnowsInv
  <2>5. InsideInv' /\ RowsInv' /\ AsksWithinLimits' /\ PendInv' /\ KeepsHeadroom'
        BY <1>1, <1>3, <2>1
        DEF InsideInv, Inside, RowsInv, AsksWithinLimits, PendInv, KeepsHeadroom
  <2>6. QED BY <2>2, <2>4, <2>5 DEF VScaleInv
<1>4. CASE Ended(cfg) /\ Unregister
  <2>1. /\ pc' = "off" /\ cancelled' \in BOOLEAN /\ cfg' = cfg /\ rt' \in Runtime
        /\ WindowsOK(win') /\ prev' \in [has : BOOLEAN, kills : 0..MaxKills]
        /\ fails' \in 0..(maxStatsFailures - 1) /\ pend' = NoCall /\ beat' \in BOOLEAN
        BY <1>1, <1>4, EndedFacts
  <2>2. cfgRow' = NoCfg /\ row' \in {NoRow, row} /\ lost' = {"cpu", "mem"}
        BY <1>4 DEF Unregister, DeleteVertical
  <2>3. TypeOK'
        BY <1>1, <1>2, <2>1, <2>2, NoCallTyped DEF TypeOK, WindowsOK
  <2>4. KnowsInv' /\ RowsInv'
        BY <2>2 DEF KnowsInv, RowsInv
  <2>5. QED BY <2>1, <2>3, <2>4, NoCallInv
<1>5. QED BY <1>3, <1>4 DEF PollFails

\* DELETE: the rows go, and nothing is known of the limits any more.
LEMMA DeleteInv ==
    ASSUME VScaleInv, DeleteRequest
    PROVE  VScaleInv'
<1>1. /\ TypeOK /\ InsideInv /\ AsksWithinLimits /\ KeepsHeadroom
      /\ cancelled' = (pc # "off")
      /\ cfgRow' = NoCfg /\ row' \in {NoRow, row} /\ lost' = {"cpu", "mem"}
      /\ UNCHANGED <<pc, cfg, rt, win, prev, beat, fails, pend, limits, used, kills, events, quiet>>
      BY DEF VScaleInv, DeleteRequest, CancelRunning, Unregister, DeleteVertical, container
<1>2. TypeOK'
      BY <1>1 DEF TypeOK
<1>3. KnowsInv'
      BY <1>1 DEF KnowsInv
<1>4. PendInv'
      BY <1>1, <1>2 DEF PendInv, TypeOK
<1>5. InsideInv' /\ RowsInv' /\ AsksWithinLimits' /\ KeepsHeadroom'
      BY <1>1 DEF InsideInv, Inside, RowsInv, AsksWithinLimits, Within, KeepsHeadroom
<1>6. QED BY <1>2, <1>3, <1>4, <1>5 DEF VScaleInv

\* What a step that touches neither the goroutine's work nor the limits leaves true.
LEMMA QuietInv ==
    ASSUME VScaleInv, TypeOK',
           UNCHANGED <<pc, cfg, rt, win, pend, cfgRow, row, limits, quiet, lost>>
    PROVE  VScaleInv'
<1>1. Belief' = Belief
      BY DEF Belief, Loaded, Rows
<1>2. KnowsInv'
      BY <1>1 DEF VScaleInv, KnowsInv, Rows
<1>3. InsideInv' /\ RowsInv' /\ AsksWithinLimits' /\ PendInv' /\ KeepsHeadroom'
      BY DEF VScaleInv, InsideInv, Inside, RowsInv, AsksWithinLimits, Within, PendInv, KeepsHeadroom
<1>4. QED BY <1>2, <1>3 DEF VScaleInv

\* A controller is begun, after what becomes of the call that was in progress.
LEMMA BegunInv ==
    ASSUME VScaleInv, NEW c \in Cfgs, Begin(c) \/ Ended(c), Interrupted,
           cfgRow' \in {c, NoCfg}, row' \in Runtime \cup {NoRow},
           Event \/ UNCHANGED events, UNCHANGED <<used, kills>>, lost' = Resources
    PROVE  VScaleInv'
<1>1. /\ pc' \in {"off", "load"} /\ cancelled' \in BOOLEAN /\ cfg' = c /\ rt' \in Runtime
      /\ WindowsOK(win') /\ prev' \in [has : BOOLEAN, kills : 0..MaxKills]
      /\ fails' \in 0..(maxStatsFailures - 1) /\ pend' = NoCall /\ beat' \in BOOLEAN
      BY BeginFacts, EndedFacts
<1>2. limits' \in [{"cpu", "mem"} -> Nat] /\ quiet' \in [{"cpu", "mem"} -> Nat]
      BY ApplyTyped DEF VScaleInv, TypeOK, Interrupted
<1>3. events' \in 0..MaxEvents /\ used' \in WorkingSets /\ kills' \in 0..MaxKills
      BY EventTyped DEF VScaleInv, TypeOK
<1>4. TypeOK'
      BY <1>1, <1>2, <1>3, NoCallTyped DEF TypeOK, WindowsOK
<1>5. KnowsInv' /\ RowsInv'
      BY <1>1 DEF KnowsInv, RowsInv
<1>6. QED BY <1>1, <1>4, <1>5, NoCallInv

\* StartOrRestart: a new controller, that knows nothing of the limits.
LEMMA StartInv ==
    ASSUME VScaleInv, NEW c \in Cfgs, StartOrRestart(c)
    PROVE  VScaleInv'
<1>1. /\ Event /\ cfgRow' = c /\ Begin(c) /\ Interrupted /\ lost' = Resources
      /\ UNCHANGED <<used, kills>>
      BY DEF StartOrRestart, container
<1>2. row' \in {NewRuntime(c), row, rt} /\ (row = NoRow => row' = NewRuntime(c))
      BY DEF StartOrRestart
<1>3. row' \in Runtime \cup {NoRow}
      BY <1>2, NewTyped DEF VScaleInv, TypeOK
<1>4. QED BY <1>1, <1>3, BegunInv

\* Restart: what no controller was there to know is known from the rows.
LEMMA RestartInv ==
    ASSUME VScaleInv, Restart
    PROVE  VScaleInv'
<1>1. /\ TypeOK /\ KnowsInv /\ RowsInv /\ Interrupted
      /\ UNCHANGED <<cfgRow, row, used, kills>>
      BY DEF VScaleInv, Restart, tables, container
<1>2. /\ cfgRow \in Cfgs \cup {NoCfg} /\ row \in Runtime \cup {NoRow} /\ cfg \in Cfgs
      /\ cfgRow \in {cfg, NoCfg}
      BY <1>1 DEF TypeOK, RowsInv
<1>3. \/ Begin(cfg) /\ Rows
      \/ Ended(cfg) /\ ~Rows
  <2>1. CASE Rows
    <3>1. Begin(cfgRow) /\ cfgRow = cfg
          BY <1>2, <2>1 DEF Restart, Rows
    <3>2. QED BY <2>1, <3>1
  <2>2. CASE ~Rows
    <3>1. Ended(cfg)
          BY <2>2 DEF Restart, Rows
    <3>2. QED BY <2>2, <3>1
  <2>3. QED BY <2>1, <2>2
<1>4. CASE pc # "off"
  <2>1. Event /\ lost' = Resources
        BY <1>4 DEF Restart
  <2>2. QED BY <1>1, <1>2, <1>3, <2>1, BegunInv
<1>5. CASE pc = "off"
  <2>1. UNCHANGED <<events, lost, limits, quiet>>
        BY <1>1, <1>5 DEF Restart, Interrupted
  <2>2. /\ cancelled' \in BOOLEAN /\ cfg' = cfg /\ rt' \in Runtime
        /\ WindowsOK(win') /\ prev' \in [has : BOOLEAN, kills : 0..MaxKills]
        /\ fails' \in 0..(maxStatsFailures - 1) /\ pend' = NoCall /\ beat' \in BOOLEAN
        /\ (pc' = "load" /\ Rows) \/ (pc' = "off" /\ ~Rows)
        BY <1>2, <1>3, BeginFacts, EndedFacts
  <2>3. TypeOK'
        BY <1>1, <2>1, <2>2, NoCallTyped DEF TypeOK, WindowsOK
  <2>4. KnowsInv'
    <3>1. CASE Rows
      <4>1. Loaded' = row /\ Loaded = row
            BY <1>1, <3>1 DEF Loaded, Rows
      <4>2. Belief' = Belief
            BY <1>5, <2>2, <3>1, <4>1 DEF Belief
      <4>3. QED BY <1>1, <2>1, <3>1, <4>2 DEF KnowsInv
    <3>2. CASE ~Rows
          BY <1>1, <2>2, <3>2 DEF KnowsInv, Rows
    <3>3. QED BY <3>1, <3>2
  <2>5. RowsInv'
        BY <1>1, <2>2 DEF RowsInv
  <2>6. pc' \in {"off", "load"}
        BY <2>2
  <2>7. QED BY <2>2, <2>3, <2>4, <2>5, <2>6, NoCallInv
<1>6. QED BY <1>4, <1>5

\* Tick: what is remembered of the cooldowns goes down with them.
LEMMA TickInv ==
    ASSUME VScaleInv, Tick
    PROVE  VScaleInv'
<1>1. /\ TypeOK /\ InsideInv /\ KnowsInv
      /\ rt' = Cooler(rt) /\ row' = (IF row = NoRow THEN NoRow ELSE Cooler(row))
      /\ quiet' = [r \in {"cpu", "mem"} |-> Less(quiet[r])]
      /\ pend' = [pend EXCEPT !.cooldown = Less(@)]
      /\ UNCHANGED <<pc, cancelled, cfg, win, prev, beat, fails, cfgRow, limits, used, kills,
                     events, lost>>
      BY DEF VScaleInv, Tick, container
<1>2. rt \in Runtime /\ row \in Runtime \cup {NoRow} /\ quiet \in [{"cpu", "mem"} -> Nat]
      /\ cfg \in Cfgs /\ limits \in [{"cpu", "mem"} -> Nat]
      BY <1>1 DEF TypeOK
<1>3. rt' \in Runtime /\ row' \in Runtime \cup {NoRow}
      BY <1>1, <1>2, CoolTyped
<1>4. quiet' \in [{"cpu", "mem"} -> Nat]
  <2>1. \A n \in Nat : Less(n) \in Nat
        BY DEF Less
  <2>2. QED BY <1>1, <1>2, <2>1
<1>call. /\ pend' \in [what : {"none", "cpu", "mem"}, target : Nat, cooldown : Nat, oom : BOOLEAN]
       /\ pend'.what = pend.what /\ pend'.target = pend.target /\ pend'.oom = pend.oom
  <2>1. pend \in [what : {"none", "cpu", "mem"}, target : Nat, cooldown : Nat, oom : BOOLEAN]
        BY <1>1 DEF TypeOK
  <2>2. Less(pend.cooldown) \in Nat
        BY <2>1 DEF Less
  <2>3. QED BY <1>1, <2>1, <2>2
<1>5. TypeOK'
      BY <1>1, <1>3, <1>4, <1>call DEF TypeOK
<1>6. Loaded \in Runtime /\ Loaded' = Cooler(Loaded)
  <2>1. row # NoRow => Cooler(row) # NoRow
        BY <1>2, CoolTyped, NoAssumption
  <2>2. QED BY <1>1, <1>2, <2>1 DEF Loaded, Rows
<1>7. /\ Belief \in Runtime /\ Belief' \in Runtime
      /\ Belief'.cpu = Belief.cpu /\ Belief'.mem = Belief.mem
      /\ Belief'.cpuCool = Less(Belief.cpuCool) /\ Belief'.memCool = Less(Belief.memCool)
  <2>1. CASE pc \in {"idle", "updating"}
    <3>1. Belief = rt /\ Belief' = Cooler(rt)
          BY <1>1, <2>1 DEF Belief
    <3>2. QED BY <1>2, <3>1, CoolTyped
  <2>2. CASE pc \notin {"idle", "updating"}
    <3>1. Belief = initCPUState(cfg, Loaded) /\ Belief' = initCPUState(cfg, Cooler(Loaded))
          BY <1>1, <1>6, <2>2 DEF Belief
    <3>2. Cooler(Loaded) \in Runtime /\ Cooler(Loaded).cpu = Loaded.cpu /\ Cooler(Loaded).mem = Loaded.mem
          /\ Cooler(Loaded).cpuCool = Less(Loaded.cpuCool) /\ Cooler(Loaded).memCool = Less(Loaded.memCool)
          BY <1>6, CoolTyped
    <3>3. Belief \in Runtime /\ Belief' \in Runtime
          BY <1>2, <1>6, <3>1, <3>2, InitState
    <3>4. /\ Belief.cpuCool = Loaded.cpuCool /\ Belief.memCool = Loaded.memCool
          /\ Belief'.cpuCool = Cooler(Loaded).cpuCool /\ Belief'.memCool = Cooler(Loaded).memCool
          BY <1>2, <1>6, <3>1, <3>2, InitState
    <3>5. Belief'.cpu = Belief.cpu /\ Belief'.mem = Belief.mem
          BY <3>1, <3>2 DEF initCPUState
    <3>6. QED BY <3>2, <3>3, <3>4, <3>5
  <2>3. QED BY <2>1, <2>2
<1>8. KnowsInv'
  <2>1. Rows' => Rows
        BY <1>1 DEF Rows
  <2>2. \A q, b \in Nat : q <= b => Less(q) <= Less(b)
        BY DEF Less
  <2>3. Belief.cpuCool \in Nat /\ Belief.memCool \in Nat
        BY <1>7 DEF Runtime
  <2>4. quiet'["cpu"] = Less(quiet["cpu"]) /\ quiet'["mem"] = Less(quiet["mem"])
        BY <1>1
  <2>5. QED BY <1>1, <1>2, <1>7, <2>1, <2>2, <2>3, <2>4 DEF KnowsInv
<1>9. InsideInv'
      BY <1>1, <1>2, CoolTyped DEF InsideInv, Inside
<1>10. RowsInv' /\ AsksWithinLimits' /\ PendInv' /\ KeepsHeadroom'
  <2>0. rt'.cpu = rt.cpu /\ rt'.mem = rt.mem
        BY <1>1, <1>2, CoolTyped
  <2>1. RowsInv'
        BY <1>1 DEF VScaleInv, RowsInv
  <2>2. AsksWithinLimits'
        BY <1>1, <1>call, <2>0 DEF VScaleInv, AsksWithinLimits, Within
  <2>3. PendInv'
    <3>1. pc = "updating" => pend.what \in {"cpu", "mem"}
          BY <1>1 DEF TypeOK
    <3>2. \A x \in {"cpu", "mem"} : quiet[x] = 0 => quiet'[x] = 0
          BY <1>1, <1>2 DEF Less
    <3>3. QED BY <1>1, <1>call, <3>1, <3>2 DEF VScaleInv, PendInv
  <2>4. KeepsHeadroom'
    <3>1. KeepsHeadroom /\ win' = win
          BY <1>1 DEF VScaleInv
    <3>2. QED BY <1>call, <2>0, <3>1 DEF KeepsHeadroom
  <2>5. QED BY <2>1, <2>2, <2>3, <2>4
<1>11. QED BY <1>5, <1>8, <1>9, <1>10 DEF VScaleInv

\* Every step keeps the invariant.
LEMMA NextInv == VScaleInv /\ [Next]_vars => VScaleInv'
<1> SUFFICES ASSUME VScaleInv, [Next]_vars PROVE VScaleInv'
    OBVIOUS
<1>1. TypeOK
      BY DEF VScaleInv
<1>2. CASE Polls
  <2>1. PICK usage \in {"none", "low", "mid", "high"} : Poll(usage)
        BY <1>2, Sizes DEF Polls
  <2>2. QED BY <2>1, PollInv
<1>3. CASE Stop
  <2>1. /\ cancelled' = TRUE
        /\ UNCHANGED <<pc, cfg, rt, win, prev, beat, fails, pend, cfgRow, row, limits, used, kills,
                       events, quiet, lost>>
        BY <1>3 DEF Stop, tables, container, history
  <2>2. TypeOK'
        BY <1>1, <2>1 DEF TypeOK
  <2>3. QED BY <2>1, <2>2, QuietInv
<1>4. CASE UsageChanges \/ OOMKill \/ ContainerRestarts
  <2>1. /\ UNCHANGED <<pc, cancelled, cfg, rt, win, prev, beat, fails, pend, cfgRow, row, limits,
                       quiet, lost>>
        /\ Event \/ UNCHANGED events
        BY <1>4 DEF UsageChanges, OOMKill, ContainerRestarts, goroutine, tables, history
  <2>2. used' \in WorkingSets /\ kills' \in 0..MaxKills
    <3>1. used \in WorkingSets /\ kills \in 0..MaxKills /\ MaxKills \in Nat
          BY <1>1, Sizes DEF TypeOK
    <3>2. \/ used' \in WorkingSets /\ kills' = kills
          \/ kills < MaxKills /\ kills' = kills + 1 /\ used' = used
          \/ kills' = 0 /\ used' = used
          BY <1>4 DEF UsageChanges, OOMKill, ContainerRestarts
    <3>3. QED BY <3>1, <3>2
  <2>3. events' \in 0..MaxEvents
        BY <1>1, <2>1, EventTyped DEF TypeOK
  <2>4. TypeOK'
        BY <1>1, <2>1, <2>2, <2>3 DEF TypeOK
  <2>5. QED BY <2>1, <2>4, QuietInv
<1>5. CASE UNCHANGED vars
  <2>1. UNCHANGED <<pc, cancelled, cfg, rt, win, prev, beat, fails, pend, cfgRow, row, limits, used,
                    kills, events, quiet, lost>>
        BY <1>5 DEF vars, goroutine, tables, container, history
  <2>2. TypeOK'
        BY <1>1, <2>1 DEF TypeOK
  <2>3. QED BY <2>1, <2>2, QuietInv
<1>6. CASE \E c \in Cfgs : StartOrRestart(c)
      BY <1>6, StartInv
<1>7. QED BY <1>2, <1>3, <1>4, <1>5, <1>6, LoadInv, SucceedsInv, FailsInv, PersistInv, DoneInv,
             PollFailsInv, DeleteInv, RestartInv, TickInv DEF Next

-----------------------------------------------------------------------------
(* The theorems. *)

\* The invariant holds of every reachable state.
THEOREM Invariance == Spec => []VScaleInv
BY InitInv, NextInv, PTL DEF Spec

\* Every variable keeps to its type, and every window to its size (cpu.go, mem.go).
THEOREM TypeCorrect == Spec => []TypeOK
<1>1. VScaleInv => TypeOK
      BY DEF VScaleInv
<1>2. QED BY <1>1, Invariance, PTL

\* The platform is only asked for limits inside the configuration (controller.go:67-86).
THEOREM AsksWithinLimitsHolds == Spec => []AsksWithinLimits
<1>1. VScaleInv => AsksWithinLimits
      BY DEF VScaleInv
<1>2. QED BY <1>1, Invariance, PTL

\* The controller knows the limits in force, but for lost answers and forced ends
\* (controller.go:59-65, 185-195).
THEOREM KnowsLimitsHolds == Spec => []KnowsLimits
<1>1. VScaleInv => KnowsLimits
      BY DEF VScaleInv, KnowsInv, Belief, KnowsLimits
<1>2. QED BY <1>1, Invariance, PTL

\* A step down of the memory leaves 95 of 100 samples a headroom of 30%
\* (controller.go:243-257, mem.go:68-83).
THEOREM KeepsHeadroomHolds == Spec => []KeepsHeadroom
<1>1. VScaleInv => KeepsHeadroom
      BY DEF VScaleInv
<1>2. QED BY <1>1, Invariance, PTL

\* The platform sees the changes of a limit a cooldown apart (controller.go:134-136, 229-232).
THEOREM ChangesSpacedHolds == Spec => ChangesSpaced
<1> DEFINE Spaced(what) ==
        limits'[what] # limits[what] => quiet[what] = 0 \/ what \in lost \/ (what = "mem" /\ pend.oom)
<1>1. ASSUME VScaleInv, [Next]_vars
      PROVE  \A what \in Resources : Spaced(what)
  <2>1. \/ limits' = limits
        \/ pc = "updating" /\ limits' = Applied
    <3>1. CASE UNCHANGED vars
          BY <3>1 DEF vars
    <3>2. CASE Load \/ persist \/ Done \/ PollFails \/ DeleteRequest \/ Stop
          BY <3>2 DEF Load, persist, Done, PollFails, DeleteRequest, Stop
    <3>3. CASE Polls
      <4>1. PICK usage \in {"none", "low", "mid", "high"} : Poll(usage)
            BY <3>3, Sizes DEF Polls
      <4>2. QED BY <4>1 DEF Poll
    <3>4. CASE UpdateSucceeds \/ UpdateRefused \/ AnswerLost
          BY <3>4 DEF UpdateSucceeds, UpdateRefused, AnswerLost, Apply
    <3>5. CASE Restart \/ \E c \in Cfgs : StartOrRestart(c)
      <4>1. Interrupted
            BY <3>5 DEF Restart, StartOrRestart
      <4>2. QED BY <4>1 DEF Interrupted, Apply
    <3>6. CASE UsageChanges \/ OOMKill \/ ContainerRestarts \/ Tick
          BY <3>6 DEF UsageChanges, OOMKill, ContainerRestarts, Tick
    <3>7. QED BY <1>1, <3>1, <3>2, <3>3, <3>4, <3>5, <3>6 DEF Next
  <2>2. PendInv /\ limits \in [{"cpu", "mem"} -> Nat]
        BY <1>1 DEF VScaleInv, TypeOK
  <2>3. TAKE what \in Resources
  <2>4. CASE pc = "updating" /\ limits' = Applied /\ limits'[what] # limits[what]
    <3>1. what = pend.what
          BY <2>2, <2>4 DEF Applied
    <3>2. QED BY <2>2, <2>4, <3>1 DEF PendInv
  <2>5. QED BY <2>1, <2>4
<1>2. VScaleInv /\ [Next]_vars => [\A what \in Resources : Spaced(what)]_vars
      BY <1>1
<1>3. QED BY <1>2, Invariance, PTL DEF Spec, ChangesSpaced
=============================================================================
