-------------------------- MODULE TCCaptureProofs --------------------------
(***************************************************************************)
(* The interface indexes of TCCapture are unique, for every set of         *)
(* containers and interfaces (sharing names or not), every table size and  *)
(* every number of failing commands.  The last part is about               *)
(* ContainerMonitor, which decides what is captured.                       *)
(***************************************************************************)
EXTENDS TCCapture, ContainerMonitor, LeastElement, TLAPS

\* Outside a Start no veth pair is under construction.
IdleHasNoPairs == lock # "capture" => DOMAIN veths = {}

\* portMap holds proper preferences.
PortPrefsProper == \A k \in DOMAIN portMap : portMap[k] \in 1 .. PrefMax - 1

\* Veth pairs are recorded under interface names.
PairsNamed ==
    /\ \A d \in DOMAIN containers : DOMAIN containers[d] \subseteq Names
    /\ DOMAIN veths \subseteq Names

IndexInv == PairsNamed /\ IdleHasNoPairs /\ PortPrefsProper /\ IndexesUnique /\ PortPrefsApart

\* The scan of getAvailableIndex and getAvailablePref returns 0 or a free number.
LEMMA LeastFreeIsFree ==
    ASSUME NEW used
    PROVE  LeastFree(used) = 0 \/ LeastFree(used) \in Free(used)
<1>1. CASE Free(used) = {}
  BY <1>1 DEF LeastFree
<1>2. CASE Free(used) # {}
  <2>1. Free(used) \in SUBSET Nat
    BY PrefMaxAssumption DEF Free
  <2>2. \E n \in Free(used) : \A m \in Free(used) : n <= m
    BY <2>1, <1>2, LeastNatural
  <2> QED BY <1>2, <2>2 DEF LeastFree
<1> QED BY <1>1, <1>2

\* A step that adds no pair and no port entry and releases nothing keeps the
\* invariant.
LEMMA NothingNew ==
    ASSUME IndexInv,
           \A c \in Containers, i \in Names, n \in 1 .. PrefMax - 1 :
              HasIndex(c, i, n)' => HasIndex(c, i, n),
           prefs \subseteq prefs', portMap' = portMap,
           IdleHasNoPairs', PairsNamed'
    PROVE  IndexInv'
BY DEF IndexInv, PortPrefsProper, IndexesUnique, PortPrefsApart

\* StopContainerCapture releases no number that another veth pair or another
\* interface name still uses, even when portMap attributes the name to another
\* container.
LEMMA StopKeepsInvariant ==
    ASSUME IndexInv, NEW c \in Containers, StopContainerCapture(c)
    PROVE  IndexInv'
<1> USE DEF IndexInv
<1>0. /\ lock = "free" /\ lock' = lock /\ c \in DOMAIN containers
      /\ DOMAIN veths = {} /\ veths' = veths /\ starting' = starting
      /\ containers' = [x \in DOMAIN containers \ {c} |-> containers[x]]
      /\ portMap' = [x \in DOMAIN portMap \ DOMAIN containers[c] |-> portMap[x]]
      /\ prefs' = prefs \ Released(c)
  BY DEF StopContainerCapture, Release, Del, startVars, IdleHasNoPairs
<1>1. ASSUME NEW d \in Containers, NEW i \in Names, NEW n, HasIndex(d, i, n)'
      PROVE  d # c /\ HasIndex(d, i, n)
  BY <1>0, <1>1 DEF HasIndex
<1>2. ASSUME NEW n \in Released(c)
      PROVE  \/ \E k \in DOMAIN containers[c] \cap DOMAIN portMap : n = portMap[k]
             \/ \E i \in Names : HasIndex(c, i, n)
  BY <1>0, <1>2 DEF Released, HasIndex, PairsNamed
<1>3. ASSUME NEW d \in Containers, NEW i \in Names, NEW n \in 1 .. PrefMax - 1, HasIndex(d, i, n)'
      PROVE  n \notin Released(c)
  BY <1>1, <1>2, <1>3 DEF IndexesUnique, PortPrefsApart
<1>4. ASSUME NEW k \in DOMAIN portMap' PROVE portMap'[k] = portMap[k] /\ portMap[k] \notin Released(c)
  BY <1>0, <1>2, <1>4 DEF PortPrefsApart
<1>5. IndexesUnique'
  BY <1>0, <1>1, <1>3 DEF IndexesUnique
<1>6. PortPrefsApart'
  BY <1>0, <1>1, <1>4 DEF PortPrefsApart
<1>7. PortPrefsProper' /\ IdleHasNoPairs' /\ PairsNamed'
  BY <1>0, <1>4 DEF PortPrefsProper, IdleHasNoPairs, PairsNamed
<1> QED BY <1>5, <1>6, <1>7

\* Capturing one interface adds at most one index and one preference, both free
\* before and different from each other.
LEMMA CaptureKeepsInvariant ==
    ASSUME IndexInv, NEW i \in Names, CaptureInterface(i)
    PROVE  IndexInv'
<1> USE DEF IndexInv
<1> DEFINE index == LeastFree(prefs)
           used == getAvailableIndex(prefs)
           pref == AvailablePref(used, index)
<1>0. /\ lock = "capture" /\ lock' = lock
      /\ veths' = [x \in DOMAIN veths \cup {i} |-> IF x = i THEN index ELSE veths[x]]
      /\ containers' = containers /\ starting' = starting
  BY DEF CaptureInterface, Set
<1>1. index = 0 \/ (index \in 1 .. PrefMax - 1 /\ index \notin prefs)
  BY LeastFreeIsFree DEF Free
<1>2. prefs \subseteq used /\ (index # 0 => index \in used)
  BY DEF getAvailableIndex, Mark
<1>3. pref = 0 \/ (pref \in 1 .. PrefMax - 1 /\ pref \notin used)
  <2>1. LeastFree(used) = 0 \/ LeastFree(used) \in Free(used)
    BY LeastFreeIsFree
  <2>2. CASE index \in used
    BY <2>1, <2>2 DEF AvailablePref, Free
  <2>3. CASE index \notin used
    BY <2>3, <1>2 DEF AvailablePref
  <2> QED BY <2>2, <2>3
<1>4. used \subseteq prefs' /\ (pref # 0 => pref \in prefs')
  <2>1. prefs' = getAvailablePref(used, index)
    BY DEF CaptureInterface
  <2> QED BY <2>1 DEF getAvailablePref, AvailablePref, Mark
<1>5. \/ portMap' = portMap
      \/ /\ pref # 0
         /\ portMap' = [x \in DOMAIN portMap \cup {i} |-> IF x = i THEN pref ELSE portMap[x]]
  BY DEF CaptureInterface, Set
<1> HIDE DEF index, used, pref
<1>6. ASSUME NEW c \in Containers, NEW j \in Names, NEW n, HasIndex(c, j, n)'
      PROVE  HasIndex(c, j, n) \/ (c = starting /\ j = i /\ n = index)
  BY <1>0, <1>6 DEF HasIndex
<1>7. IndexesUnique'
  BY <1>1, <1>2, <1>4, <1>6 DEF IndexesUnique
<1>8. PortPrefsProper'
  BY <1>3, <1>5 DEF PortPrefsProper
<1>9. \A k \in DOMAIN portMap : portMap[k] # index /\ portMap[k] # pref /\ portMap[k] \in prefs'
  BY <1>1, <1>2, <1>3, <1>4 DEF PortPrefsApart, PortPrefsProper
<1>10. ASSUME NEW c \in Containers, NEW j \in Names, NEW n, n = pref, n # 0
       PROVE  ~HasIndex(c, j, n)'
  BY <1>1, <1>2, <1>3, <1>6, <1>10 DEF IndexesUnique
<1>11. PortPrefsApart'
  <2>1. CASE portMap' = portMap
    BY <2>1, <1>6, <1>9 DEF PortPrefsApart
  <2>2. CASE /\ pref # 0
             /\ portMap' = [x \in DOMAIN portMap \cup {i} |-> IF x = i THEN pref ELSE portMap[x]]
    <3>1. ASSUME NEW k \in DOMAIN portMap', NEW c \in Containers, NEW j \in Names
          PROVE  ~HasIndex(c, j, portMap[k])'
      <4> DEFINE n == portMap'[k]
      <4>1. CASE k = i
        <5>1. n = pref
          BY <2>2, <4>1
        <5> HIDE DEF n
        <5>2. \A m : m = n => ~HasIndex(c, j, m)'
          BY <5>1, <2>2, <1>10
        <5> QED BY <5>2 DEF n, HasIndex
      <4>2. CASE k # i
        <5>1. k \in DOMAIN portMap /\ n = portMap[k]
          BY <2>2, <4>2
        <5>2. \A m : m = n => ~HasIndex(c, j, m)'
          BY <5>1, <1>6, <1>9 DEF PortPrefsApart
        <5> QED BY <5>2 DEF HasIndex
      <4> QED BY <4>1, <4>2
    <3>2. ASSUME NEW k \in DOMAIN portMap'
          PROVE  /\ portMap'[k] \in prefs'
                 /\ \A l \in DOMAIN portMap' : portMap'[k] = portMap'[l] => k = l
      BY <2>2, <1>4, <1>9 DEF PortPrefsApart
    <3> QED BY <3>1, <3>2 DEF PortPrefsApart
  <2> QED BY <1>5, <2>1, <2>2
<1>12. IdleHasNoPairs' /\ PairsNamed'
  BY <1>0 DEF IdleHasNoPairs, PairsNamed
<1> QED BY <1>7, <1>8, <1>11, <1>12

\* The inductive invariant holds in every reachable state.
THEOREM CaptureInvariant == Spec => []IndexInv
<1>1. Init => IndexInv
  BY DEF Init, IndexInv, IdleHasNoPairs, PortPrefsProper, IndexesUnique, PortPrefsApart,
         PairsNamed, HasIndex
<1>2. IndexInv /\ [Next]_vars => IndexInv'
  <2> SUFFICES ASSUME IndexInv, [Next]_vars PROVE IndexInv'
    OBVIOUS
  <2>1. ASSUME NEW c \in Containers, StartContainerCapture(c) PROVE IndexInv'
    <3>1. /\ containers' = containers /\ prefs' = prefs /\ portMap' = portMap
          /\ \/ veths' = << >> /\ lock' = "capture"
             \/ veths' = veths /\ lock' = lock /\ starting' = starting
      BY <2>1 DEF StartContainerCapture, tables, startVars
    <3> QED BY <3>1, NothingNew DEF HasIndex, IndexInv, IdleHasNoPairs, PairsNamed
  <2>2. ASSUME NEW c \in Containers, StopContainerCapture(c) PROVE IndexInv'
    BY <2>2, StopKeepsInvariant
  <2>3. ASSUME NEW i \in Names, createVethPairFails(i) PROVE IndexInv'
    <3>1. /\ containers' = containers /\ portMap' = portMap /\ veths' = veths
          /\ starting' = starting /\ lock' = lock /\ prefs \subseteq prefs'
      BY <2>3 DEF createVethPairFails, getAvailableIndex, Mark
    <3> QED BY <3>1, NothingNew DEF HasIndex, IndexInv, IdleHasNoPairs, PairsNamed
  <2>4. ASSUME NEW i \in Names, CaptureInterface(i) PROVE IndexInv'
    BY <2>4, CaptureKeepsInvariant
  <2>5. CASE StartReturns
    <3>1. /\ containers' = [x \in DOMAIN containers \cup {starting} |->
                              IF x = starting THEN veths ELSE containers[x]]
          /\ portMap' = portMap /\ prefs' = prefs /\ veths' = << >> /\ lock' = "free"
      BY <2>5 DEF StartReturns, Set
    <3> QED BY <3>1, NothingNew DEF HasIndex, IndexInv, IdleHasNoPairs, PairsNamed
  <2>6. CASE AgentRestarts
    BY <2>6 DEF AgentRestarts, IndexInv, IdleHasNoPairs, PortPrefsProper, IndexesUnique,
                PortPrefsApart, PairsNamed, HasIndex
  <2>7. CASE \/ \E c \in Containers : ContainerRestarts(c)
             \/ Cleanup \/ CleanupReturns \/ UNCHANGED vars
    <3>1. /\ UNCHANGED <<containers, prefs, portMap, starting, veths>>
          /\ lock' = lock \/ lock = "free" \/ lock = "cleanup"
      BY <2>7 DEF ContainerRestarts, Cleanup, CleanupReturns, vars, tables, startVars
    <3> QED BY <3>1, NothingNew DEF HasIndex, IndexInv, IdleHasNoPairs, PairsNamed
  <2> QED BY <2>1, <2>2, <2>3, <2>4, <2>5, <2>6, <2>7 DEF Next
<1> QED BY <1>1, <1>2, PTL DEF Spec

\* No two veth pairs of captured containers ever share an interface index, and so
\* a MAC address, and no index in use is handed out again.
THEOREM IndexUniqueness == Spec => []IndexesUnique
<1>1. IndexInv => IndexesUnique
  BY DEF IndexInv
<1> QED BY <1>1, CaptureInvariant, PTL

\* The preferences portMap knows stay reserved and apart from all indexes.
THEOREM PortPrefSeparation == Spec => []PortPrefsApart
<1>1. IndexInv => PortPrefsApart
  BY DEF IndexInv
<1> QED BY <1>1, CaptureInvariant, PTL

\* Recorded rules belong to captured containers or to the Start in progress.
RulesOwned ==
    \A r \in tcRules : r.c \in DOMAIN containers \/ (lock = "capture" /\ r.c = starting)

\* Every rule of the bridge is recorded, or its deletion failed.
RuleInv == bridge \ undeleted \subseteq tcRules /\ RulesOwned

\* StopContainerCapture forgets its rules and takes from the bridge those whose command
\* succeeded; the others are the undeleted ones.
LEMMA StopKeepsRules ==
    ASSUME RuleInv, NEW c \in Containers, StopContainerCapture(c)
    PROVE  RuleInv'
<1>1. PICK failed \in SUBSET Recorded(c) :
         /\ bridge' = {r \in bridge : r.pref \notin {x.pref : x \in Recorded(c) \ failed}}
         /\ undeleted' = (undeleted \cup failed) \cap bridge'
  BY DEF StopContainerCapture
<1>2. /\ lock = "free" /\ DOMAIN containers' = DOMAIN containers \ {c}
      /\ tcRules' = tcRules \ Recorded(c)
  BY DEF StopContainerCapture, Release, Del
<1>3. ASSUME NEW r \in bridge' \ undeleted' PROVE r \in tcRules'
  <2>1. r \in bridge /\ r \notin undeleted /\ r \notin failed
    BY <1>1, <1>3
  <2>2. r \in tcRules
    BY <2>1 DEF RuleInv
  <2>3. r \notin Recorded(c) \ failed
    BY <1>1, <1>3
  <2> QED BY <1>2, <2>1, <2>2, <2>3
<1>4. RulesOwned'
  BY <1>2 DEF RuleInv, RulesOwned, Recorded
<1> QED BY <1>3, <1>4 DEF RuleInv

\* No drop rule outlives the capture it belongs to unless the command that deletes it
\* fails: StopContainerCapture removes the rules by the preferences it recorded itself,
\* which portMap cannot falsify.
THEOREM NoRuleOutlives == Spec => []OrphansOnlyByFailure
<1>1. Init => RuleInv
  BY DEF Init, RuleInv, RulesOwned
<1>2. RuleInv /\ [Next]_vars => RuleInv'
  <2> SUFFICES ASSUME RuleInv, [Next]_vars PROVE RuleInv'
    OBVIOUS
  <2> USE DEF RuleInv, RulesOwned
  <2>1. ASSUME NEW c \in Containers, StartContainerCapture(c) PROVE RuleInv'
    <3>1. /\ UNCHANGED <<containers, tcRules, bridge, undeleted>> /\ lock = "free"
      BY <2>1 DEF StartContainerCapture, tables
    <3> QED BY <3>1
  <2>2. ASSUME NEW c \in Containers, StopContainerCapture(c) PROVE RuleInv'
    BY <2>2, StopKeepsRules
  <2>3. ASSUME NEW i \in Names, createVethPairFails(i) PROVE RuleInv'
    <3>1. UNCHANGED <<lock, starting, containers, tcRules, bridge, undeleted>>
      BY <2>3 DEF createVethPairFails
    <3> QED BY <3>1
  <2>4. ASSUME NEW i \in Names, CaptureInterface(i) PROVE RuleInv'
    <3>1. /\ lock = "capture" /\ lock' = lock /\ starting' = starting
          /\ containers' = containers
      BY <2>4 DEF CaptureInterface
    <3>2. \/ UNCHANGED <<tcRules, bridge, undeleted>>
          \/ \E p : LET rule == [c |-> starting, i |-> i, pref |-> p]
                    IN /\ tcRules' = tcRules \cup {rule} /\ bridge' = bridge \cup {rule}
                       /\ undeleted' = undeleted \ {rule}
      BY <2>4 DEF CaptureInterface
    <3> QED BY <3>1, <3>2
  <2>5. CASE StartReturns
    BY <2>5 DEF StartReturns, Set, kernel
  <2>6. CASE AgentRestarts
    <3>1. tcRules' = {} /\ undeleted' = bridge'
      BY <2>6 DEF AgentRestarts, initNVBridge, cleanupBridge
    <3> QED BY <3>1
  <2>7. CASE CleanupReturns
    <3>1. /\ UNCHANGED <<containers, tcRules, starting>> /\ undeleted' = bridge' /\ lock # "capture"
      BY <2>7 DEF CleanupReturns, cleanupBridge, tables, startVars
    <3> QED BY <3>1
  <2>8. CASE (\E c \in Containers : ContainerRestarts(c)) \/ Cleanup \/ UNCHANGED vars
    BY <2>8 DEF ContainerRestarts, Cleanup, vars, tables, startVars, kernel
  <2> QED BY <2>1, <2>2, <2>3, <2>4, <2>5, <2>6, <2>7, <2>8 DEF Next
<1>3. RuleInv => OrphansOnlyByFailure
  BY DEF RuleInv, RulesOwned, OrphansOnlyByFailure
<1> QED BY <1>1, <1>2, <1>3, PTL DEF Spec

-----------------------------------------------------------------------------
(* The monitor that starts and stops captures: ContainerMonitor for every set of *)
(* containers and every number of restarts and stream errors.                    *)

\* The events processDockerEvent subscribes to.
EventTypes == {"start", "stop", "die"}

MonEvent == [type : EventTypes, c : Monitored]

\* The monitor's state; run numbers count from 1.
MonTypes ==
    /\ docker \in [Monitored -> {"stopped", "running", "removed"}]
    /\ run \in [Monitored -> Nat]
    /\ \A c \in Monitored : docker[c] = "running" => run[c] # 0
    /\ captured \in [Monitored -> Nat]
    /\ events \in Seq(MonEvent)
    /\ phase \in {"list", "scan", "subscribe", "listen", "handle", "retry"}
    /\ phase = "handle" => cur \in [type : EventTypes, c : Monitored, pid : Nat]
    /\ phase = "list" => missed = {} /\ captured = [c \in Monitored |-> 0]

\* An event of container c is still to be received ...
Pending(c) == \E k \in DOMAIN events : events[k].c = c

\* ... one that says it ended.
EndPending(c) == \E k \in DOMAIN events : events[k].c = c /\ events[k].type # "start"

\* The event being handled is one of container c.
Handling(c) == phase = "handle" /\ cur.c = c

\* The last event of a container says what Docker says: the subscription delivers
\* every event from its beginning, in order.
LastEventTrue ==
    \A k \in DOMAIN events :
        (\A j \in DOMAIN events : j > k => events[j].c # events[k].c)
            => (events[k].type = "start" <=> docker[events[k].c] = "running")

\* Outside a subscription there is nothing to receive.
QueueOfSubscription == phase \notin {"listen", "handle"} => events = << >>

\* What was inspected for the event being handled is still so, or another event of
\* the container has followed; a process that has ended since has its end in the queue.
InspectionTrue ==
    phase = "handle" =>
        /\ ~Pending(cur.c) => /\ cur.pid = Pid(cur.c)
                              /\ cur.type = "start" <=> docker[cur.c] = "running"
        /\ cur.pid \notin {0, Pid(cur.c)} => EndPending(cur.c)

\* No capture of a process that is gone, unless the end of it is on its way.
NoStaleCapture ==
    phase \in {"listen", "handle"} =>
        \A c \in Monitored \ missed :
            \/ captured[c] \in {0, Pid(c)}
            \/ EndPending(c)
            \/ Handling(c) /\ cur.type # "start"

\* The monitor and Docker agree but for containers still to be scanned, events still
\* to be received or handled, and missed ones.
AgreesOrWorks ==
    \A c \in Monitored \ missed :
        /\ phase = "scan" => captured[c] = Pid(c) \/ (c \in scan /\ captured[c] = 0)
        /\ phase \in {"subscribe", "retry"} => captured[c] = Pid(c)
        /\ phase \in {"listen", "handle"} =>
             captured[c] = Pid(c) \/ Pending(c) \/ Handling(c)

\* The inductive invariant of the monitor.
MonInv ==
    /\ MonTypes /\ LastEventTrue /\ QueueOfSubscription
    /\ InspectionTrue /\ NoStaleCapture /\ AgreesOrWorks

\* What becomes of a start (ty is "start") or an end of container c: before the listing
\* nothing, outside a subscription it is missed, inside it is queued behind the rest.
Emitted(c, ty) ==
    /\ phase = "list" => events' = events /\ missed' = missed
    /\ phase \in {"scan", "subscribe", "retry"} => events' = events /\ missed' = missed \cup {c}
    /\ phase \in {"listen", "handle"} =>
         /\ missed' = missed
         /\ events' \in Seq(MonEvent)
         /\ Len(events') > Len(events)
         /\ \A k \in 1 .. Len(events) : events'[k] = events[k]
         /\ \A k \in 1 .. Len(events') :
              k > Len(events) => events'[k].c = c /\ (events'[k].type = "start" <=> ty = "start")

\* Emit appends one or two events of the container.
LEMMA EmitFacts ==
    ASSUME MonTypes, NEW c \in Monitored, NEW es,
           es = <<"start">> \/ es = <<"die">> \/ es = <<"die", "stop">>,
           Emit(c, es)
    PROVE  Emitted(c, es[1])
<1> DEFINE new == [k \in DOMAIN es |-> [type |-> es[k], c |-> c]]
<1>1. /\ new \in Seq(MonEvent) /\ Len(new) \in 1 .. 2
      /\ \A k \in 1 .. Len(new) : new[k].c = c /\ (new[k].type = "start" <=> es[1] = "start")
  <2>1. CASE es = <<"start">>
    BY <2>1 DEF EventTypes, MonEvent
  <2>2. CASE es = <<"die">>
    BY <2>2 DEF EventTypes, MonEvent
  <2>3. CASE es = <<"die", "stop">>
    BY <2>3 DEF EventTypes, MonEvent
  <2> QED BY <2>1, <2>2, <2>3
<1>2. phase \in {"listen", "handle"} => events' = events \o new /\ missed' = missed
  BY DEF Emit
<1>3. phase \notin {"listen", "handle"} => events' = events
  BY DEF Emit
<1>4. missed' = IF phase \in {"scan", "subscribe", "retry"} THEN missed \cup {c} ELSE missed
  BY DEF Emit
<1> HIDE DEF new
<1>5. events \in Seq(MonEvent)
  BY DEF MonTypes
<1>6. Len(events) \in Nat /\ Len(new) \in Nat /\ new \in Seq(MonEvent) /\ Len(new) > 0
  BY <1>1, <1>5
<1>7. PICK q : q = events \o new
  OBVIOUS
<1>8. phase \in {"listen", "handle"} =>
         /\ events' \in Seq(MonEvent)
         /\ Len(events') = Len(events) + Len(new)
         /\ \A k \in 1 .. Len(events) : events'[k] = events[k]
         /\ \A k \in 1 .. Len(events') : k > Len(events) => events'[k] = new[k - Len(events)]
  <2>1. /\ q \in Seq(MonEvent)
        /\ Len(q) = Len(events) + Len(new)
        /\ \A k \in 1 .. Len(events) : q[k] = events[k]
        /\ \A k \in 1 .. Len(q) : k > Len(events) => q[k] = new[k - Len(events)]
    BY <1>5, <1>6, <1>7
  <2>2. phase \in {"listen", "handle"} => events' = q
    BY <1>2, <1>7
  <2> QED BY <2>1, <2>2
<1>9. phase \in {"listen", "handle"} =>
         \A k \in 1 .. Len(events') : k > Len(events) => k - Len(events) \in 1 .. Len(new)
  BY <1>6, <1>8
<1>10. phase \in {"listen", "handle"} => Len(events') > Len(events)
  BY <1>6, <1>8
<1> QED BY <1>1, <1>3, <1>4, <1>8, <1>9, <1>10 DEF Emitted

\* A start or an end of a container keeps the invariant in every phase of the monitor.
LEMMA DockerStep ==
    ASSUME MonInv, NEW c \in Monitored, NEW ty, Emitted(c, ty),
            UNCHANGED <<phase, scan, cur, captured, gaps>>,
           docker' \in [Monitored -> {"stopped", "running", "removed"}],
           run' \in [Monitored -> Nat],
           \A d \in Monitored \ {c} : docker'[d] = docker[d] /\ run'[d] = run[d],
           docker'[c] = "running" => run'[c] # 0,
           docker'[c] = "running" <=> ty = "start",
           ty = "start" => docker[c] # "running"
    PROVE  MonInv'
<1> USE DEF MonInv
<1>1. \A d \in Monitored \ {c} : Pid(d)' = Pid(d)
  BY DEF Pid
<1>2. CASE phase = "list"
  <2>1. events' = events /\ missed' = missed
    BY <1>2 DEF Emitted
  <2> QED BY <1>2, <2>1 DEF MonTypes, LastEventTrue, QueueOfSubscription, InspectionTrue,
          NoStaleCapture, AgreesOrWorks
<1>3. CASE phase \in {"scan", "subscribe", "retry"}
  <2>1. events' = events /\ missed' = missed \cup {c}
    BY <1>3 DEF Emitted
  <2>2. MonTypes' /\ QueueOfSubscription' /\ InspectionTrue' /\ NoStaleCapture'
    BY <1>3, <2>1 DEF MonTypes, QueueOfSubscription, InspectionTrue, NoStaleCapture
  <2>4. events' = << >>
    BY <1>3, <2>1 DEF QueueOfSubscription
  <2>5. LastEventTrue'
    BY <2>4 DEF LastEventTrue
  <2>3. AgreesOrWorks'
    BY <1>1, <1>3, <2>1 DEF AgreesOrWorks, MonTypes
  <2> QED BY <2>2, <2>3, <2>5
<1>4. CASE phase \in {"listen", "handle"}
  <2>1. /\ missed' = missed
        /\ events' \in Seq(MonEvent)
        /\ Len(events') > Len(events)
        /\ \A k \in 1 .. Len(events) : events'[k] = events[k]
        /\ \A k \in 1 .. Len(events') :
             k > Len(events) => events'[k].c = c /\ (events'[k].type = "start" <=> ty = "start")
    BY <1>4 DEF Emitted
  <2>2. Len(events) \in Nat /\ Len(events') \in Nat
    BY <2>1 DEF MonTypes
  <2>3. DOMAIN events = 1 .. Len(events) /\ DOMAIN events' = 1 .. Len(events')
    BY <2>1 DEF MonTypes
  <2>4. Pending(c)' /\ (ty # "start" => EndPending(c)')
    <3>1. Len(events) + 1 \in DOMAIN events'
      BY <2>1, <2>2, <2>3
    <3> QED BY <2>1, <2>2, <2>3, <3>1 DEF Pending, EndPending
  <2>5. \A d \in Monitored : /\ Pending(d) => Pending(d)'
                             /\ EndPending(d) => EndPending(d)'
                             /\ d # c => (Pending(d)' => Pending(d))
    <3>1. DOMAIN events \subseteq DOMAIN events' /\ \A k \in DOMAIN events : events'[k] = events[k]
      BY <2>1, <2>2, <2>3
    <3>2. \A k \in DOMAIN events' : k \in DOMAIN events \/ events'[k].c = c
      BY <2>1, <2>2, <2>3
    <3> QED BY <3>1, <3>2 DEF Pending, EndPending
  <2>6. MonTypes'
    BY <1>4, <2>1 DEF MonTypes
  <2>7. LastEventTrue'
    <3> SUFFICES ASSUME NEW k \in DOMAIN events',
                        \A j \in DOMAIN events' : j > k => events'[j].c # events'[k].c
                 PROVE  events'[k].type = "start" <=> docker'[events'[k].c] = "running"
      BY DEF LastEventTrue
    <3>1. CASE k > Len(events)
      BY <2>1, <2>3, <3>1
    <3>2. CASE k <= Len(events)
      <4>1. k \in DOMAIN events /\ events'[k] = events[k]
        BY <2>1, <2>2, <2>3, <3>2
      <4>2. Len(events) + 1 \in DOMAIN events' /\ Len(events) + 1 > k
        BY <2>1, <2>2, <2>3, <3>2
      <4>3. events[k].c # c /\ events[k].c \in Monitored
        <5>1. events'[Len(events) + 1].c = c
          BY <2>1, <2>2, <2>3, <4>2
        <5>2. events[k] \in MonEvent
          <6>1. events \in Seq(MonEvent)
            BY DEF MonTypes
          <6> QED BY <4>1, <6>1
        <5> QED BY <4>1, <4>2, <5>1, <5>2 DEF MonEvent
      <4>4. \A j \in DOMAIN events : j > k => events[j].c # events[k].c
        BY <2>1, <2>2, <2>3, <4>1
      <4> QED BY <4>1, <4>3, <4>4 DEF LastEventTrue
    <3> QED BY <2>2, <2>3, <3>1, <3>2
  <2>8. QueueOfSubscription'
    BY <1>4 DEF QueueOfSubscription
  <2>9. InspectionTrue'
    <3> SUFFICES ASSUME phase' = "handle"
                 PROVE  (/\ ~Pending(cur.c) => /\ cur.pid = Pid(cur.c)
                                               /\ cur.type = "start" <=> docker[cur.c] = "running"
                         /\ cur.pid \notin {0, Pid(cur.c)} => EndPending(cur.c))'
      BY DEF InspectionTrue
    <3>0. cur.c \in Monitored /\ phase = "handle" /\ cur' = cur
      BY DEF MonTypes
    <3>1. CASE cur.c # c
      BY <1>1, <2>5, <3>0, <3>1 DEF InspectionTrue
    <3>2. CASE cur.c = c
      <4>1. CASE ty = "start"
        BY <2>4, <2>5, <3>2, <4>1 DEF InspectionTrue, Pid
      <4>2. CASE ty # "start"
        BY <2>4, <3>2, <4>2
      <4> QED BY <4>1, <4>2
    <3> QED BY <3>1, <3>2
  <2>10. NoStaleCapture'
    <3> SUFFICES ASSUME NEW d \in Monitored \ missed
                 PROVE  \/ captured[d] \in {0, Pid(d)'}
                        \/ EndPending(d)'
                        \/ Handling(d) /\ cur.type # "start"
      BY <1>4, <2>1 DEF NoStaleCapture, Handling
    <3>1. CASE d # c
      BY <1>1, <1>4, <2>5, <3>1 DEF NoStaleCapture
    <3>2. CASE d = c /\ ty = "start"
      BY <1>4, <2>5, <3>2 DEF NoStaleCapture, Pid
    <3>3. CASE d = c /\ ty # "start"
      BY <2>4, <3>3
    <3> QED BY <3>1, <3>2, <3>3
  <2>11. AgreesOrWorks'
    <3> SUFFICES ASSUME NEW d \in Monitored \ missed
                 PROVE  captured[d] = Pid(d)' \/ Pending(d)' \/ Handling(d)
      BY <1>4, <2>1 DEF AgreesOrWorks, Handling
    <3> QED BY <1>1, <1>4, <2>4, <2>5 DEF AgreesOrWorks
  <2> QED BY <2>6, <2>7, <2>8, <2>9, <2>10, <2>11
<1> QED BY <1>2, <1>3, <1>4 DEF MonTypes

\* The listing sees the containers that run, or they are all missed; the others have no
\* process.
LEMMA ListStep ==
    ASSUME MonInv, monitorExistingContainers
    PROVE  MonInv'
<1> USE DEF MonInv
<1>1. /\ phase = "list" /\ missed = {} /\ events = << >>
      /\ \/ phase' = "scan" /\ scan' = Running /\ missed' = missed
         \/ phase' = "subscribe" /\ scan' = scan /\ missed' = missed \cup Running
      /\ UNCHANGED <<docker, run, events, cur, captured, gaps>>
  BY DEF monitorExistingContainers, dockerVars, MonTypes, QueueOfSubscription
<1>2. \A c \in Monitored : Pid(c)' = Pid(c) /\ (c \notin Running => Pid(c) = 0)
  BY <1>1 DEF Running, Pid
<1>3. AgreesOrWorks'
  BY <1>1, <1>2 DEF AgreesOrWorks, MonTypes
<1> QED BY <1>1, <1>3 DEF MonTypes, LastEventTrue, QueueOfSubscription, InspectionTrue, NoStaleCapture

\* A scanned container is captured as it runs now, unless it was or is missed.
LEMMA ScanStep ==
    ASSUME MonInv, NEW c \in Monitored, ScanContainer(c)
    PROVE  MonInv'
<1> USE DEF MonInv
<1>1. /\ phase = "scan" /\ phase' = "scan" /\ events = << >>
      /\ scan' = scan \ {c}
      /\ \/ /\ captured' = [captured EXCEPT ![c] = IF Pid(c) = 0 \/ @ # 0 THEN @ ELSE Pid(c)]
            /\ missed' = missed
         \/ captured' = captured /\ missed' = missed \cup {c}
      /\ UNCHANGED <<docker, run, events, cur, gaps>>
  BY DEF ScanContainer, StartCapture, dockerVars, QueueOfSubscription
<1>2. Pid(c) \in Nat
  BY DEF MonTypes, Pid
<1>3. \A d \in Monitored : Pid(d)' = Pid(d)
  BY <1>1 DEF Pid
<1>4. MonTypes'
  BY <1>1, <1>2 DEF MonTypes
<1>5. AgreesOrWorks'
  BY <1>1, <1>3 DEF AgreesOrWorks, MonTypes
<1> QED BY <1>1, <1>4, <1>5 DEF LastEventTrue, QueueOfSubscription, InspectionTrue, NoStaleCapture

\* The end of the scan and the subscription change nothing about any container.
LEMMA PhaseStep ==
    ASSUME MonInv, ScanDone \/ Subscribe
    PROVE  MonInv'
<1> USE DEF MonInv
<1>1. UNCHANGED <<docker, run, scan, events, cur, captured, missed, gaps>>
  BY DEF ScanDone, Subscribe, dockerVars
<1>2. events = << >>
  BY DEF ScanDone, Subscribe, QueueOfSubscription
<1>3. \A d \in Monitored : Pid(d)' = Pid(d)
  BY <1>1 DEF Pid
<1>4. MonTypes' /\ LastEventTrue' /\ QueueOfSubscription' /\ InspectionTrue'
  BY <1>1, <1>2 DEF ScanDone, Subscribe, MonTypes, LastEventTrue, QueueOfSubscription,
     InspectionTrue
<1>5. AgreesOrWorks' /\ NoStaleCapture'
  BY <1>1, <1>3 DEF ScanDone, Subscribe, AgreesOrWorks, NoStaleCapture
<1> QED BY <1>4, <1>5

\* When the stream breaks, the containers whose events it held are counted as missed;
\* the others agree.
LEMMA StreamErrorStep ==
    ASSUME MonInv, StreamError
    PROVE  MonInv'
<1> USE DEF MonInv
<1>1. /\ phase = "listen" /\ phase' = "retry" /\ events' = << >>
      /\ missed' = missed \cup {events[k].c : k \in DOMAIN events}
      /\ UNCHANGED <<docker, run, scan, cur, captured>>
  BY DEF StreamError, dockerVars
<1>2. \A d \in Monitored : Pid(d)' = Pid(d)
  BY <1>1 DEF Pid
<1>3. \A d \in Monitored \ missed' : d \notin missed /\ ~Pending(d)
  BY <1>1 DEF Pending
<1>4. AgreesOrWorks'
  BY <1>1, <1>2, <1>3 DEF AgreesOrWorks, Handling
<1>5. MonTypes'
  BY <1>1 DEF MonTypes
<1> QED BY <1>1, <1>4, <1>5 DEF LastEventTrue, QueueOfSubscription, InspectionTrue, NoStaleCapture

\* Taking the first event off the queue.
LEMMA QueueTail ==
    ASSUME MonInv, events # << >>, events' = Tail(events)
    PROVE  /\ Head(events) \in MonEvent
           /\ Head(events) = events[1]
           /\ events' \in Seq(MonEvent)
           /\ 1 \in DOMAIN events
           /\ \A k \in DOMAIN events' : k + 1 \in DOMAIN events /\ events'[k] = events[k + 1] /\ k \in Nat
           /\ \A k \in DOMAIN events : k # 1 => k - 1 \in DOMAIN events' /\ events'[k - 1] = events[k]
           /\ \A k \in DOMAIN events : k \in Nat \ {0}
<1>1. events \in Seq(MonEvent)
  BY DEF MonInv, MonTypes
<1>2. Len(events) \in Nat \ {0} /\ DOMAIN events = 1 .. Len(events)
  BY <1>1
<1>3. Len(events') = Len(events) - 1 /\ DOMAIN events' = 1 .. Len(events) - 1
  BY <1>1, <1>2
<1>4. \A k \in 1 .. Len(events) - 1 : events'[k] = events[k + 1]
  BY <1>1, <1>2
<1>5. \A k \in DOMAIN events : k # 1 => k - 1 \in 1 .. Len(events) - 1 /\ (k - 1) + 1 = k
  BY <1>2
<1>6. events' \in Seq(MonEvent) /\ Head(events) = events[1] /\ events[1] \in MonEvent
  BY <1>1, <1>2
<1> QED BY <1>2, <1>3, <1>4, <1>5, <1>6

\* An event taken off the queue is looked at with Docker's answer of now: either there
\* is none and the container counts as missed, or it is being handled.
LEMMA EventStep ==
    ASSUME MonInv, processDockerEvent
    PROVE  MonInv'
<1> USE DEF MonInv
<1>0. PICK e : e = Head(events)
  OBVIOUS
<1>1. /\ phase = "listen" /\ events # << >> /\ events' = Tail(events)
      /\ UNCHANGED <<docker, run, scan, captured, gaps>>
  BY DEF processDockerEvent, dockerVars
<1>2. \/ /\ missed' = missed \cup {e.c}
         /\ cur' = cur /\ phase' = phase
      \/ /\ missed' = missed
         /\ cur' = [type |-> e.type, c |-> e.c, pid |-> Pid(e.c)]
         /\ phase' = "handle"
  BY <1>0 DEF processDockerEvent
<1>3. /\ e \in MonEvent
      /\ e = events[1]
      /\ events' \in Seq(MonEvent)
      /\ 1 \in DOMAIN events
      /\ \A k \in DOMAIN events' : k + 1 \in DOMAIN events /\ events'[k] = events[k + 1] /\ k \in Nat
      /\ \A k \in DOMAIN events : k # 1 => k - 1 \in DOMAIN events' /\ events'[k - 1] = events[k]
      /\ \A k \in DOMAIN events : k \in Nat \ {0}
  BY <1>0, <1>1, QueueTail
<1>4. \A d \in Monitored : Pid(d)' = Pid(d)
  BY <1>1 DEF Pid
<1>5. \A d \in Monitored : d # e.c =>
         /\ Pending(d) => Pending(d)'
         /\ EndPending(d) => EndPending(d)'
  BY <1>3 DEF Pending, EndPending
<1>6. EndPending(e.c) => EndPending(e.c)' \/ e.type # "start"
  BY <1>3 DEF EndPending
<1>7. Pid(e.c) \in Nat
  BY <1>3 DEF MonTypes, MonEvent, Pid
<1>8. MonTypes'
  BY <1>1, <1>2, <1>3, <1>7 DEF MonTypes, MonEvent
<1>9. LastEventTrue'
  <2> SUFFICES ASSUME NEW k \in DOMAIN events',
                      \A j \in DOMAIN events' : j > k => events'[j].c # events'[k].c
               PROVE  events'[k].type = "start" <=> docker[events'[k].c] = "running"
    BY <1>1 DEF LastEventTrue
  <2>1. k + 1 \in DOMAIN events /\ events'[k] = events[k + 1] /\ k \in Nat
    BY <1>3
  <2>2. ASSUME NEW j \in DOMAIN events, j > k + 1 PROVE events[j].c # events[k + 1].c
    <3>1. j # 1 /\ j \in Nat
      BY <1>3, <2>1, <2>2
    <3>2. j - 1 \in DOMAIN events' /\ events'[j - 1] = events[j] /\ j - 1 > k
      BY <1>3, <2>1, <2>2, <3>1
    <3> QED BY <2>1, <3>2
  <2> QED BY <2>1, <2>2 DEF LastEventTrue
<1>10. QueueOfSubscription'
  BY <1>1, <1>2 DEF QueueOfSubscription
<1>11. e.c \in Monitored /\ (~Pending(e.c)' => (e.type = "start" <=> docker[e.c] = "running"))
  <2>1. ASSUME ~Pending(e.c)', NEW j \in DOMAIN events, j > 1 PROVE events[j].c # e.c
    <3>1. j # 1
      BY <1>3, <2>1
    <3>2. j - 1 \in DOMAIN events' /\ events'[j - 1] = events[j]
      BY <1>3, <3>1
    <3> QED BY <2>1, <3>2 DEF Pending
  <2> QED BY <1>3, <2>1 DEF LastEventTrue, MonEvent
<1>12. CASE phase' = "handle"
  <2>1. /\ missed' = missed
        /\ cur'.type = e.type /\ cur'.c = e.c /\ cur'.pid = Pid(e.c)
    BY <1>1, <1>2, <1>12
  <2>2. InspectionTrue'
    <3>1. Pid(e.c)' = Pid(e.c)
      BY <1>4, <1>11
    <3>2. cur'.pid = Pid(cur.c)' /\ (Pending(cur.c)' <=> Pending(e.c)') /\ docker' = docker
      BY <1>1, <2>1, <3>1 DEF Pid, Pending
    <3> QED BY <1>11, <2>1, <3>2 DEF InspectionTrue
  <2>3. NoStaleCapture'
    BY <1>1, <1>3, <1>4, <1>5, <1>6, <1>12, <2>1 DEF NoStaleCapture, Handling
  <2>4. AgreesOrWorks'
    BY <1>1, <1>3, <1>4, <1>5, <1>12, <2>1 DEF AgreesOrWorks, Handling
  <2> QED BY <1>8, <1>9, <1>10, <2>2, <2>3, <2>4
<1>13. CASE phase' = phase
  <2>1. missed' = missed \cup {e.c} /\ phase' # "handle"
    BY <1>1, <1>2, <1>13
  <2>2. NoStaleCapture'
    BY <1>1, <1>4, <1>5, <1>13, <2>1 DEF NoStaleCapture, Handling
  <2>3. AgreesOrWorks'
    BY <1>1, <1>4, <1>5, <1>13, <2>1 DEF AgreesOrWorks, Handling
  <2>4. InspectionTrue'
    BY <2>1 DEF InspectionTrue
  <2> QED BY <1>8, <1>9, <1>10, <2>2, <2>3, <2>4
<1> QED BY <1>2, <1>12, <1>13

\* Handling the last event of a container leaves it captured as it runs; the end of a
\* process clears the capture whatever was missed before.
LEMMA HandleStep ==
    ASSUME MonInv, handleContainerEvent
    PROVE  MonInv'
<1> USE DEF MonInv
<1>0. PICK c, pid, type : c = cur.c /\ pid = cur.pid /\ type = cur.type
  OBVIOUS
<1>1. /\ phase = "handle" /\ phase' = "listen"
      /\ UNCHANGED <<docker, run, scan, events, gaps>>
  BY DEF handleContainerEvent, dockerVars
<1>2. /\ c \in Monitored /\ pid \in Nat /\ type \in EventTypes
      /\ ~Pending(c) => pid = Pid(c) /\ (type = "start" <=> docker[c] = "running")
      /\ pid \notin {0, Pid(c)} => EndPending(c)
  BY <1>0, <1>1 DEF MonTypes, InspectionTrue
<1>3. \A d \in Monitored : /\ Pid(d)' = Pid(d)
                           /\ Pending(d)' <=> Pending(d)
                           /\ EndPending(d)' <=> EndPending(d)
                           /\ Handling(d) <=> d = c
                           /\ ~Handling(d)'
  BY <1>0, <1>1 DEF Pid, Pending, EndPending, Handling
<1>4. docker[c] = "running" => Pid(c) # 0
  BY <1>2 DEF Pid, MonTypes
<1>5. docker[c] # "running" => Pid(c) = 0
  BY DEF Pid
<1>6. LastEventTrue' /\ QueueOfSubscription' /\ InspectionTrue'
  BY <1>1 DEF LastEventTrue, QueueOfSubscription, InspectionTrue
<1>7. CASE /\ type = "start" /\ missed' = missed
           /\ captured' = [captured EXCEPT ![c] = IF pid = 0 \/ @ # 0 THEN @ ELSE pid]
  <2>1. MonTypes'
    BY <1>1, <1>2, <1>7 DEF MonTypes
  <2>2. \A d \in Monitored : captured'[d] = IF d # c \/ pid = 0 \/ captured[d] # 0 THEN captured[d] ELSE pid
    BY <1>7 DEF MonTypes
  <2>3. NoStaleCapture'
    BY <1>0, <1>1, <1>2, <1>3, <1>7, <2>2 DEF NoStaleCapture
  <2>4. AgreesOrWorks'
    BY <1>0, <1>1, <1>2, <1>3, <1>4, <1>7, <2>2 DEF AgreesOrWorks, NoStaleCapture, EndPending, Pending
  <2> QED BY <1>6, <2>1, <2>3, <2>4
<1>8. CASE /\ type = "start" /\ pid # 0 /\ captured' = captured
           /\ missed' = IF pid = Pid(c) /\ captured[c] = 0 THEN missed \cup {c} ELSE missed
  <2>1. MonTypes'
    BY <1>1, <1>8 DEF MonTypes
  <2>2. \A d \in Monitored \ missed' : d \notin missed
    BY <1>8
  <2>3. NoStaleCapture'
    BY <1>0, <1>1, <1>3, <1>8, <2>2 DEF NoStaleCapture
  <2>4. c \notin missed' => captured[c] = Pid(c) \/ Pending(c)
    <3> SUFFICES ASSUME c \notin missed' PROVE captured[c] = Pid(c) \/ Pending(c)
      OBVIOUS
    <3>1. CASE pid # Pid(c)
      BY <1>2, <3>1
    <3>2. CASE pid = Pid(c)
      <4>1. captured[c] # 0 /\ c \notin missed
        BY <1>8, <3>2
      <4>2. captured[c] \in {0, Pid(c)} \/ EndPending(c)
        BY <1>0, <1>1, <1>2, <1>8, <4>1 DEF NoStaleCapture
      <4> QED BY <4>1, <4>2 DEF EndPending, Pending
    <3> QED BY <3>1, <3>2
  <2>5. AgreesOrWorks'
    BY <1>1, <1>2, <1>3, <1>8, <2>2, <2>4 DEF AgreesOrWorks
  <2> QED BY <1>6, <2>1, <2>3, <2>5
<1>9. CASE /\ type # "start" /\ missed' = missed \ {c}
           /\ captured' = [captured EXCEPT ![c] = 0]
  <2>1. MonTypes'
    BY <1>1, <1>2, <1>9 DEF MonTypes
  <2>2. \A d \in Monitored : captured'[d] = IF d = c THEN 0 ELSE captured[d]
    BY <1>9 DEF MonTypes
  <2>3. NoStaleCapture'
    BY <1>1, <1>3, <1>9, <2>2 DEF NoStaleCapture
  <2>4. AgreesOrWorks'
    BY <1>1, <1>2, <1>3, <1>5, <1>9, <2>2 DEF AgreesOrWorks
  <2> QED BY <1>6, <2>1, <2>3, <2>4
<1> QED BY <1>0, <1>2, <1>7, <1>8, <1>9 DEF handleContainerEvent, StartCapture,
     CaptureFails, EventTypes

\* Docker and the monitor, step by step.
LEMMA MonStep ==
    ASSUME MonInv, [MNext]_mvars
    PROVE  MonInv'
<1>1. ASSUME NEW c \in Monitored, DockerStart(c) PROVE MonInv'
  <2>1. Emitted(c, "start")
    BY <1>1, EmitFacts DEF DockerStart, MonInv
  <2>2. /\ docker[c] = "stopped"
        /\ docker' = [docker EXCEPT ![c] = "running"] /\ run' = [run EXCEPT ![c] = @ + 1]
        /\ UNCHANGED <<phase, scan, cur, captured, gaps>>
    BY <1>1 DEF DockerStart
  <2>3. /\ docker' \in [Monitored -> {"stopped", "running", "removed"}]
        /\ run' \in [Monitored -> Nat]
        /\ run'[c] # 0 /\ docker'[c] = "running"
        /\ \A d \in Monitored \ {c} : docker'[d] = docker[d] /\ run'[d] = run[d]
    BY <2>2 DEF MonInv, MonTypes
  <2> QED BY <2>1, <2>2, <2>3, DockerStep
<1>2. ASSUME NEW c \in Monitored, DockerStop(c) PROVE MonInv'
  <2>1. Emitted(c, "die")
    BY <1>2, EmitFacts DEF DockerStop, MonInv
  <2> QED BY <1>2, <2>1, DockerStep DEF DockerStop, MonInv, MonTypes
<1>3. ASSUME NEW c \in Monitored, DockerRemove(c) PROVE MonInv'
  <2>1. /\ docker[c] = "stopped"
        /\ docker' = [docker EXCEPT ![c] = "removed"]
        /\ UNCHANGED <<run, phase, scan, events, cur, captured, missed, gaps>>
    BY <1>3 DEF DockerRemove
  <2>2. \A d \in Monitored : /\ docker'[d] = "running" <=> docker[d] = "running"
                             /\ Pid(d)' = Pid(d)
                             /\ Pending(d)' = Pending(d)
                             /\ EndPending(d)' = EndPending(d)
                             /\ Handling(d)' = Handling(d)
    BY <2>1 DEF MonInv, MonTypes, Pid, Pending, EndPending, Handling
  <2>3. MonTypes' /\ QueueOfSubscription'
    BY <2>1, <2>2 DEF MonInv, MonTypes, QueueOfSubscription
  <2>4. ASSUME NEW k \in DOMAIN events PROVE events[k].c \in Monitored
    <3>1. events \in Seq(MonEvent)
      BY DEF MonInv, MonTypes
    <3>2. events[k] \in MonEvent
      BY <3>1
    <3> QED BY <3>2 DEF MonEvent
  <2>5. LastEventTrue'
    BY <2>1, <2>2, <2>4 DEF MonInv, LastEventTrue
  <2>6. phase = "handle" => cur.c \in Monitored
    BY DEF MonInv, MonTypes
  <2>7. InspectionTrue'
    BY <2>1, <2>2, <2>6 DEF MonInv, InspectionTrue, Pending, EndPending, Pid
  <2>8. NoStaleCapture' /\ AgreesOrWorks'
    BY <2>1, <2>2 DEF MonInv, NoStaleCapture, AgreesOrWorks
  <2> QED BY <2>3, <2>5, <2>7, <2>8 DEF MonInv
<1>4. CASE UNCHANGED mvars
  BY <1>4 DEF mvars, dockerVars, MonInv, MonTypes, LastEventTrue, QueueOfSubscription,
     InspectionTrue, NoStaleCapture, AgreesOrWorks, Pending, EndPending, Handling, Pid
<1> QED BY <1>1, <1>2, <1>3, <1>4, ListStep, ScanStep, PhaseStep, StreamErrorStep, EventStep,
        HandleStep DEF MNext, Monitor

\* Stale start events, quick restarts, doubled stop events, containers that die while
\* they are inspected, failing listings, inspections and captures and breaks of the stream
\* leave no wrong capture of any other container behind, for any number of containers,
\* restarts, failures and breaks.
THEOREM MonitorAgrees == MSpec => []AgreesUnlessPending
<1>1. MInit => MonInv
  BY DEF MInit, MonInv, MonTypes, LastEventTrue, QueueOfSubscription, InspectionTrue,
     NoStaleCapture, AgreesOrWorks
<1>2. MonInv => AgreesUnlessPending
  BY DEF MonInv, AgreesOrWorks, Handling, Pending, AgreesUnlessPending
<1> QED BY <1>1, <1>2, MonStep, PTL DEF MSpec
=============================================================================
