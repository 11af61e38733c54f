------------------------------ MODULE WatcherProofs ------------------------------
(***************************************************************************)
(* Machine-checked proofs about Watcher, for any sessions and addresses.   *)
(***************************************************************************)
EXTENDS Watcher, SequenceTheorems, TLAPS

\* The strengthening: who holds the mutex, what that session is doing, and where
\* the latest filter is until it has been sent.
Holder ==
    /\ mu = NoOne => step = "idle"
    /\ mu # NoOne => /\ step # "idle"
                     /\ phase[mu] \in {"starting", "unregistering"}
                     /\ phase[mu] = "starting" <=> mu \in sessions
    /\ step = "replace" => filterCh = <<>>

Registered ==
    \A s \in sessions : phase[s] \in {"starting", "active", "cancelled"}

WatcherInv == TypeOK /\ Holder /\ Registered /\ LatestFilterWins

\* The channel of capacity 1 is empty or holds one filter.
LEMMA OneSlot ==
    ASSUME TypeOK
    PROVE  \/ filterCh = <<>>
           \/ \E f \in Filter : filterCh = <<f>>
<1> SUFFICES ASSUME filterCh # <<>>
             PROVE  \E f \in Filter : filterCh = <<f>>
    OBVIOUS
<1>1. filterCh \in Seq(Filter) /\ Len(filterCh) = 1
  <2>1. filterCh \in Seq(Filter) /\ Len(filterCh) <= 1
        BY DEF TypeOK
  <2>2. Len(filterCh) \in Nat
        BY <2>1, LenProperties
  <2>3. Len(filterCh) # 0
        BY <2>1, EmptySeq
  <2>4. \A n \in Nat : n <= 1 /\ n # 0 => n = 1
        OBVIOUS
  <2>5. QED BY <2>1, <2>2, <2>3, <2>4
<1>2. Head(filterCh) \in Filter
      BY <1>1, HeadTailProperties
<1>3. filterCh = <<Head(filterCh)>>
      BY <1>1, <1>2
<1>4. QED BY <1>2, <1>3

\* The invariant holds at the start.
LEMMA InitInv == Init => WatcherInv
<1> SUFFICES ASSUME Init PROVE WatcherInv
    OBVIOUS
<1>1. filterCh \in Seq(Filter) /\ Len(filterCh) <= 1
      BY DEF Init
<1>2. {} \in Filter
      BY DEF Filter
<1>3. TypeOK
      BY <1>1, <1>2 DEF Init, TypeOK, NoCapture
<1>4. Holder /\ Registered
      BY DEF Init, Holder, Registered
<1>5. LatestFilterWins
      BY DEF Init, LatestFilterWins, InFlight, buildFilter, NoCapture
<1>6. QED BY <1>3, <1>4, <1>5 DEF WatcherInv

\* Start and unregister, whichever way updateFilterLocked goes.
LEMMA UpdateFilterInv ==
    ASSUME WatcherInv, mu = NoOne, NEW s \in Sessions, NEW set \in SUBSET Sessions,
           NEW now \in {"starting", "unregistering"}, NEW after \in {"active", "closing"},
           now = "starting" => after = "active" /\ set = sessions \cup {s},
           now = "unregistering" => after = "closing" /\ set = sessions \ {s},
           UpdateFilter(s, set, now, after)
    PROVE  WatcherInv'
<1> USE DEF callers, channels, registry, lock, tcpdump
<1>1. buildFilter(set) \in Filter
      BY DEF buildFilter, Filter, WatcherInv, TypeOK
<1>2. TypeOK'
      BY <1>1 DEF UpdateFilter, WatcherInv, TypeOK
<1>3. Holder'
      BY NoOneAssumption DEF UpdateFilter, WatcherInv, TypeOK, Holder
<1>4. Registered'
      BY DEF UpdateFilter, WatcherInv, TypeOK, Registered
<1>5. desiredFilter' = buildFilter(sessions)'
      BY DEF UpdateFilter, buildFilter
<1>6. mu' = NoOne => desiredFilter' = desiredFilter
      BY NoOneAssumption DEF UpdateFilter
<1>7. InFlight' = InFlight
      BY DEF UpdateFilter, InFlight
<1>8. QED
      BY <1>2, <1>3, <1>4, <1>5, <1>6, <1>7 DEF WatcherInv, LatestFilterWins

\* Every step of a caller, of the capture loop and of tcpdump keeps the invariant.
LEMMA NextInv == WatcherInv /\ [Next]_vars => WatcherInv'
<1> SUFFICES ASSUME WatcherInv, [Next]_vars PROVE WatcherInv'
    OBVIOUS
<1>0. TypeOK /\ Holder /\ Registered /\ LatestFilterWins
      BY DEF WatcherInv
<1> USE DEF callers, channels, registry, lock, tcpdump
<1>a. UNCHANGED <<ip, sessions, desiredFilter>> => buildFilter(sessions)' = buildFilter(sessions)
      BY DEF buildFilter
<1>1. ASSUME NEW s \in Sessions, Start(s) PROVE WatcherInv'
  <2>1. sessions \cup {s} \in SUBSET Sessions
        BY <1>0 DEF TypeOK
  <2>2. QED BY <1>1, <2>1, UpdateFilterInv DEF Start
<1>2. ASSUME NEW s \in Sessions, unregister(s) PROVE WatcherInv'
  <2>1. sessions \ {s} \in SUBSET Sessions
        BY <1>0 DEF TypeOK
  <2>2. QED BY <1>2, <2>1, UpdateFilterInv DEF unregister
<1>3. ASSUME NEW s \in Sessions, Cancel(s) \/ Close(s) PROVE WatcherInv'
  <2>1. TypeOK'
        BY <1>0, <1>3 DEF TypeOK, Cancel, Close
  <2>2. Holder'
        BY <1>0, <1>3 DEF TypeOK, Cancel, Close, Holder
  <2>3. Registered'
        BY <1>0, <1>3 DEF TypeOK, Cancel, Close, Registered
  <2>4. LatestFilterWins'
        BY <1>0, <1>3, <1>a DEF Cancel, Close, LatestFilterWins, InFlight
  <2>5. QED BY <2>1, <2>2, <2>3, <2>4 DEF WatcherInv
<1>4. ASSUME NEW s \in Sessions, Consume(s) PROVE WatcherInv'
  <2>1. TypeOK'
        BY <1>0, <1>4 DEF TypeOK, Consume
  <2>2. Holder' /\ Registered'
        BY <1>0, <1>4 DEF Consume, Holder, Registered
  <2>3. LatestFilterWins'
        BY <1>0, <1>4, <1>a DEF Consume, LatestFilterWins, InFlight
  <2>4. QED BY <2>1, <2>2, <2>3 DEF WatcherInv
<1>5. CASE SendFilter
  <2>1. mu \in Sessions /\ phase[mu] \in {"starting", "unregistering"}
        BY <1>0, <1>5 DEF SendFilter, TypeOK, Holder
  <2>2. desiredFilter \in Filter
        BY <1>0 DEF TypeOK
  <2>3. filterCh' \in Seq(Filter) /\ Len(filterCh') <= 1 /\ filterCh' # <<>>
        BY <1>5, <2>2 DEF SendFilter
  <2>4. Head(filterCh') = desiredFilter
        BY <1>5, <2>2 DEF SendFilter
  <2>5. TypeOK'
        BY <1>0, <1>5, <2>1, <2>3 DEF SendFilter, Release, Released, TypeOK
  <2>6. Holder'
        BY <1>5 DEF SendFilter, Release, Holder
  <2>7. Registered'
        BY <1>0, <1>5, <2>1 DEF SendFilter, Release, Released, Registered, Holder, TypeOK
  <2>8. LatestFilterWins'
        BY <1>0, <1>5, <1>a, <2>3, <2>4 DEF SendFilter, LatestFilterWins, InFlight
  <2>9. QED BY <2>5, <2>6, <2>7, <2>8 DEF WatcherInv
<1>6. CASE ChannelFull
  <2>1. TypeOK' /\ Holder' /\ Registered'
        BY <1>0, <1>6 DEF ChannelFull, TypeOK, Holder, Registered
  <2>2. LatestFilterWins'
        BY <1>0, <1>6, <1>a DEF ChannelFull, LatestFilterWins, InFlight
  <2>3. QED BY <2>1, <2>2 DEF WatcherInv
<1>7. CASE DrainFilter
  <2>1. filterCh' = <<>>
        BY <1>0, <1>7, OneSlot DEF DrainFilter
  <2>2. TypeOK'
        BY <1>0, <1>7, <2>1 DEF DrainFilter, TypeOK
  <2>3. Holder' /\ Registered'
        BY <1>0, <1>7, <2>1 DEF DrainFilter, Holder, Registered
  <2>4. LatestFilterWins'
        BY <1>0, <1>7, <1>a DEF DrainFilter, LatestFilterWins
  <2>5. QED BY <2>2, <2>3, <2>4 DEF WatcherInv
<1>8. CASE Receive
  <2>1. PICK f \in Filter : filterCh = <<f>>
        BY <1>0, <1>8, OneSlot DEF Receive
  <2>2. got' = f /\ filterCh' = <<>> /\ switching'
        BY <1>8, <2>1 DEF Receive
  <2>3. TypeOK'
        BY <1>0, <1>8, <2>2 DEF Receive, TypeOK
  <2>4. Holder' /\ Registered'
        BY <1>0, <1>8, <2>2 DEF Receive, Holder, Registered
  <2>5. InFlight = f /\ InFlight' = f
        BY <2>1, <2>2 DEF InFlight
  <2>6. LatestFilterWins'
        BY <1>0, <1>8, <1>a, <2>5 DEF Receive, LatestFilterWins
  <2>7. QED BY <2>3, <2>4, <2>6 DEF WatcherInv
<1>9. CASE Switch
  <2>1. capture' \in [filter : Filter, state : {"none", "starting", "running", "dead"}]
        BY <1>0, <1>9 DEF Switch, TypeOK, NoCapture, Filter
  <2>2. capture'.filter = got
        BY <1>9 DEF Switch, NoCapture
  <2>3. dying' \subseteq [filter : Filter, state : {"starting", "running"}]
        BY <1>0, <1>9 DEF Switch, TypeOK
  <2>4. TypeOK'
        BY <1>0, <1>9, <2>1, <2>3 DEF Switch, TypeOK
  <2>5. Holder' /\ Registered'
        BY <1>0, <1>9 DEF Switch, Holder, Registered
  <2>6. InFlight' = InFlight
        BY <1>9, <2>2 DEF Switch, InFlight
  <2>7. LatestFilterWins'
        BY <1>0, <1>9, <1>a, <2>6 DEF Switch, LatestFilterWins
  <2>8. QED BY <2>4, <2>5, <2>7 DEF WatcherInv
<1>10. CASE Tcpdump
  <2>1. TypeOK'
        BY <1>0, <1>10
        DEF Tcpdump, TcpdumpStarts, TcpdumpEnds, CancelledEnds, broadcastError, TypeOK
  <2>2. Holder' /\ Registered'
        BY <1>0, <1>10
        DEF Tcpdump, TcpdumpStarts, TcpdumpEnds, CancelledEnds, broadcastError, Holder,
            Registered
  <2>3. capture'.filter = capture.filter
        BY <1>0, <1>10
        DEF Tcpdump, TcpdumpStarts, TcpdumpEnds, CancelledEnds, broadcastError, TypeOK
  <2>4. InFlight' = InFlight
    <3>1. UNCHANGED <<filterCh, switching, got>>
          BY <1>10
          DEF Tcpdump, TcpdumpStarts, TcpdumpEnds, CancelledEnds, broadcastError
    <3>2. QED BY <2>3, <3>1 DEF InFlight
  <2>5. LatestFilterWins'
        BY <1>0, <1>10, <1>a, <2>4
        DEF Tcpdump, TcpdumpStarts, TcpdumpEnds, CancelledEnds, broadcastError,
            LatestFilterWins
  <2>6. QED BY <2>1, <2>2, <2>5 DEF WatcherInv
<1>11. ASSUME NEW a \in IPs, notifyIP(a) PROVE WatcherInv'
  <2>1. TypeOK' /\ Holder' /\ Registered'
        BY <1>0, <1>11 DEF notifyIP, TypeOK, Holder, Registered
  <2>2. LatestFilterWins'
        BY <1>0, <1>11, <1>a DEF notifyIP, LatestFilterWins, InFlight
  <2>3. QED BY <2>1, <2>2 DEF WatcherInv
<1>12. CASE UNCHANGED vars
  <2>1. TypeOK' /\ Holder' /\ Registered'
        BY <1>0, <1>12 DEF vars, TypeOK, Holder, Registered
  <2>2. LatestFilterWins'
        BY <1>0, <1>12, <1>a DEF vars, LatestFilterWins, InFlight
  <2>3. QED BY <2>1, <2>2 DEF WatcherInv
<1>13. QED
      BY <1>1, <1>2, <1>3, <1>4, <1>5, <1>6, <1>7, <1>8, <1>9, <1>10, <1>11, <1>12
      DEF Next, Update, Loop

\* The inductive invariant holds in every reachable state.
THEOREM Invariance == Spec => []WatcherInv
BY InitInv, NextInv, PTL DEF Spec

\* Every variable keeps to its type, and the channel to its capacity of one filter
\* (tcpdump_watcher.go:35).
THEOREM TypeCorrect == Spec => []TypeOK
<1>1. WatcherInv => TypeOK
      BY DEF WatcherInv
<1>2. QED BY <1>1, Invariance, PTL

\* Whenever the mutex is free, tcpdump is about to get the filter of the sessions.
THEOREM LatestFilterWinsHolds == Spec => []LatestFilterWins
<1>1. WatcherInv => LatestFilterWins
      BY DEF WatcherInv
<1>2. QED BY <1>1, Invariance, PTL

\* A registered session is never closed.
THEOREM NoSendOnClosedHolds == Spec => []NoSendOnClosed
<1>1. WatcherInv => NoSendOnClosed
      BY DEF WatcherInv, Registered, NoSendOnClosed
<1>2. QED BY <1>1, Invariance, PTL

-----------------------------------------------------------------------------
(***************************************************************************)
(* The refinement: what is asked for and not yet taken is the content of   *)
(* the channel, followed by what the holder of the mutex still has to send.*)
(***************************************************************************)
unsent == IF mu = NoOne THEN <<>> ELSE <<desiredFilter>>
queueBar == filterCh \o unsent

\* Sequences of at most one filter, concatenated.
LEMMA ShortConcat ==
    ASSUME NEW f \in Filter, NEW g \in Filter
    PROVE  /\ <<>> \o <<>> = <<>> /\ <<>> \o <<g>> = <<g>> /\ <<f>> \o <<>> = <<f>>
           /\ Append(<<>>, g) = <<g>>
           /\ <<f>> \o <<g>> = Append(<<f>>, g)
           /\ Len(Append(<<f>>, g)) = 2 /\ Append(<<f>>, g) # <<>> /\ <<f>> # <<>>
           /\ Head(<<f>>) = f /\ Tail(<<f>>) = <<>>
           /\ Head(Append(<<f>>, g)) = f /\ Tail(Append(<<f>>, g)) = <<g>>
<1>1. /\ <<>> \in Seq(Filter) /\ <<f>> \in Seq(Filter) /\ <<g>> \in Seq(Filter)
      /\ Len(<<f>>) = 1
      OBVIOUS
<1>2. <<>> \o <<>> = <<>> /\ <<>> \o <<g>> = <<g>> /\ <<f>> \o <<>> = <<f>>
      BY <1>1, ConcatEmptySeq
<1>3. Append(<<>>, g) = <<g>>
      OBVIOUS
<1>4. <<f>> \o <<g>> = Append(<<f>>, g)
      BY <1>1, AppendIsConcat
<1>5. Len(Append(<<f>>, g)) = 2 /\ Append(<<f>>, g) # <<>>
      BY <1>1, AppendProperties
<1>6. <<f>> # <<>> /\ Head(<<f>>) = f /\ Tail(<<f>>) = <<>>
      OBVIOUS
<1>7. Head(Append(<<f>>, g)) = f /\ Tail(Append(<<f>>, g)) = <<g>>
      BY <1>1, <1>3, <1>6, HeadTailAppend
<1>8. QED BY <1>2, <1>3, <1>4, <1>5, <1>6, <1>7

\* A step of the watcher puts a filter at the end of the queue, skips an outdated one,
\* takes the first, or leaves the queue alone.
LEMMA RefinementStep ==
    WatcherInv /\ [Next]_vars
        => \/ \E f \in Filter : queueBar' = Append(queueBar, f) /\ got' = got
           \/ Len(queueBar) > 1 /\ queueBar' = Tail(queueBar) /\ got' = got
           \/ queueBar # <<>> /\ got' = Head(queueBar) /\ queueBar' = Tail(queueBar)
           \/ queueBar' = queueBar /\ got' = got
<1> DEFINE Put == \E f \in Filter : queueBar' = Append(queueBar, f) /\ got' = got
           Skip == Len(queueBar) > 1 /\ queueBar' = Tail(queueBar) /\ got' = got
           Take == queueBar # <<>> /\ got' = Head(queueBar) /\ queueBar' = Tail(queueBar)
           Same == queueBar' = queueBar /\ got' = got
           Step == Put \/ Skip \/ Take \/ Same
<1> SUFFICES ASSUME WatcherInv, [Next]_vars PROVE Step
    OBVIOUS
<1> USE DEF callers, channels, registry, lock, tcpdump
<1>0. /\ desiredFilter \in Filter /\ desiredFilter' \in Filter
      /\ filterCh = <<>> \/ \E f \in Filter : filterCh = <<f>>
      BY NextInv, OneSlot DEF WatcherInv, TypeOK
<1>a. ASSUME UNCHANGED <<filterCh, mu, desiredFilter, got>> PROVE Step
      BY <1>a DEF queueBar, unsent
<1>b. ASSUME NEW s \in Sessions, mu = NoOne, NEW set, NEW now, NEW after,
             UpdateFilter(s, set, now, after)
      PROVE  Step
  <2>1. filterCh' = filterCh /\ got' = got
        BY <1>b DEF UpdateFilter
  <2>2. CASE desiredFilter' = desiredFilter
        BY <1>b, <2>1, <2>2, <1>a DEF UpdateFilter
  <2>3. CASE desiredFilter' # desiredFilter
    <3>1. mu' # NoOne
          BY <1>b, <2>3, NoOneAssumption DEF UpdateFilter
    <3>2. queueBar = filterCh \o <<>> /\ queueBar' = filterCh \o <<desiredFilter'>>
          BY <1>b, <2>1, <3>1 DEF queueBar, unsent
    <3>3. CASE filterCh = <<>>
          BY <3>2, <3>3, <1>0, <2>1, ShortConcat
    <3>4. CASE \E f \in Filter : filterCh = <<f>>
      <4>1. PICK f \in Filter : filterCh = <<f>>
            BY <3>4
      <4>2. queueBar = <<f>> /\ queueBar' = Append(<<f>>, desiredFilter')
            BY <3>2, <4>1, <1>0, ShortConcat
      <4>3. QED BY <4>2, <1>0, <2>1
    <3>5. QED BY <1>0, <3>3, <3>4
  <2>4. QED BY <2>2, <2>3
<1>1. ASSUME NEW s \in Sessions, Start(s) PROVE Step
      BY <1>1, <1>b DEF Start
<1>2. ASSUME NEW s \in Sessions, unregister(s) PROVE Step
      BY <1>2, <1>b DEF unregister
<1>3. ASSUME NEW s \in Sessions, Cancel(s) \/ Close(s) \/ Consume(s) PROVE Step
      BY <1>3, <1>a DEF Cancel, Close, Consume
<1>4. CASE SendFilter
  <2>1. queueBar = <<>> \o <<desiredFilter>>
        BY <1>4 DEF SendFilter, queueBar, unsent
  <2>2. queueBar' = <<desiredFilter>> \o <<>>
        BY <1>4 DEF SendFilter, Release, queueBar, unsent
  <2>3. got' = got
        BY <1>4 DEF SendFilter
  <2>4. QED BY <2>1, <2>2, <2>3, <1>0, ShortConcat
<1>5. CASE ChannelFull
      BY <1>5, <1>a DEF ChannelFull
<1>6. CASE DrainFilter
  <2>1. PICK f \in Filter : filterCh = <<f>>
        BY <1>6, <1>0 DEF DrainFilter
  <2>2. queueBar = <<f>> \o <<desiredFilter>>
        BY <1>6, <2>1 DEF DrainFilter, queueBar, unsent
  <2>3. filterCh' = <<>>
        BY <1>6, <2>1, <1>0, ShortConcat DEF DrainFilter
  <2>4. queueBar' = <<>> \o <<desiredFilter>> /\ got' = got
        BY <1>6, <2>3 DEF DrainFilter, queueBar, unsent
  <2>5. Skip
        BY <2>2, <2>4, <1>0, ShortConcat
  <2>6. QED BY <2>5
<1>7. CASE Receive
  <2>1. PICK f \in Filter : filterCh = <<f>>
        BY <1>7, <1>0 DEF Receive
  <2>2. filterCh' = <<>> /\ got' = f
        BY <1>7, <2>1, <1>0, ShortConcat DEF Receive
  <2>3. CASE mu = NoOne
    <3>1. queueBar = <<f>> \o <<>> /\ queueBar' = <<>> \o <<>>
          BY <1>7, <2>1, <2>2, <2>3 DEF Receive, queueBar, unsent
    <3>2. QED BY <3>1, <2>2, <1>0, ShortConcat
  <2>4. CASE mu # NoOne
    <3>1. queueBar = <<f>> \o <<desiredFilter>> /\ queueBar' = <<>> \o <<desiredFilter>>
          BY <1>7, <2>1, <2>2, <2>4 DEF Receive, queueBar, unsent
    <3>2. QED BY <3>1, <2>2, <1>0, ShortConcat
  <2>5. QED BY <2>3, <2>4
<1>8. CASE Switch
      BY <1>8, <1>a DEF Switch
<1>9. CASE Tcpdump
      BY <1>9, <1>a
      DEF Tcpdump, TcpdumpStarts, TcpdumpEnds, CancelledEnds, broadcastError
<1>10. ASSUME NEW a \in IPs, notifyIP(a) PROVE Step
      BY <1>10, <1>a DEF notifyIP
<1>11. CASE UNCHANGED vars
      BY <1>11, <1>a DEF vars
<1>12. QED
      BY <1>1, <1>2, <1>3, <1>4, <1>5, <1>6, <1>7, <1>8, <1>9, <1>10, <1>11
      DEF Next, Update, Loop

\* The watcher implements the queue of filters: in order, skipping only what a later
\* filter replaces.
THEOREM KeepsOrderHolds == Spec => KeepsOrder
<1>1. Init => Queue!Init
      BY DEF Init, Queue!Init
<1>2. WatcherInv /\ [Next]_vars => [Queue!Next]_<<queueBar, got>>
      BY RefinementStep
      DEF Queue!Next, Queue!Put, Queue!Skip, Queue!Take, Filter, queueBar, unsent
<1>3. QED
      BY <1>1, <1>2, Invariance, PTL DEF Spec, KeepsOrder, Queue!Spec, queueBar, unsent
=============================================================================
