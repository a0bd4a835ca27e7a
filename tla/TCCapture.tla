----------------------------- MODULE TCCapture -----------------------------
(***************************************************************************)
(* The agent's TC based traffic capture                                    *)
(* (agent/network/tc_traffic_capture.go): for each interface of a captured *)
(* container a veth pair whose host end is called nv-in-<interface>, a     *)
(* drop rule on the nv-br bridge, and two numbers taken from one table,    *)
(* the interface index (it makes the MAC address) and the preference of    *)
(* the bridge rule.  All operations hold tc.mutex; StartContainerCapture   *)
(* runs external commands in between, so it is one action per interface.   *)
(***************************************************************************)
EXTENDS Naturals

CONSTANTS
    Containers,  \* container IDs
    Names,       \* interface names
    IfacesOf,    \* container -> its interfaces, without lo
    PrefMax,     \* TC_PREF_MAX: numbers are 1 .. PrefMax - 1
    MaxFailures  \* bound on failing commands

ASSUME IfacesAssumption == IfacesOf \in [Containers -> SUBSET Names]
ASSUME PrefMaxAssumption == PrefMax \in Nat \ {0} /\ MaxFailures \in Nat

None == "none"
ASSUME NoneAssumption == None \notin Containers

VARIABLES
    lock,        \* tc.mutex: "free", "capture" (a Start runs) or "cleanup"
    bridgeReady,
    containers,  \* tc.containers: container -> (interface -> index of its veth pair)
    prefs,       \* tc.prefs: the numbers in use
    portMap,     \* tc.portMap: interface name -> pref; nv-in- and nv-ex- entries are equal
    tcRules,     \* the bridge rules recorded in TCContainerInfo.TCRules
    starting, left, veths,  \* the Start in progress: container, interfaces to do, pairs made
    nic,         \* container -> interface -> "orig", "renamed" (nv-ex-) or "gone"
    wires,       \* (container, interface): the host ends nv-in-<interface> that exist
    bridge,      \* the drop rules installed on nv-br
    undeleted,   \* history: rules of the bridge whose deletion was tried and failed
    failures     \* operations in which a command failed

tables == <<containers, prefs, portMap, tcRules>>
startVars == <<starting, left, veths>>
kernel == <<nic, wires, bridge, undeleted>>
vars == <<lock, bridgeReady, tables, startVars, kernel, failures>>

Set(f, k, v) == [x \in DOMAIN f \cup {k} |-> IF x = k THEN v ELSE f[x]]

Del(f, K) == [x \in DOMAIN f \ K |-> f[x]]

-----------------------------------------------------------------------------
Free(used) == (1 .. PrefMax - 1) \ used

\* The scan for the smallest free number; 0 when the table is full.
LeastFree(used) ==
    IF Free(used) = {} THEN 0
    ELSE CHOOSE n \in Free(used) : \A m \in Free(used) : n <= m

Mark(used, n) == IF n = 0 THEN used ELSE used \cup {n}

\* Mutant: the number is handed out without being marked.
IndexUnmarked(used) == used

\* prefs after getAvailableIndex has handed out LeastFree(used).
getAvailableIndex(used) == Mark(used, LeastFree(used))

\* getAvailablePref(portIndex), called with prefs = used: the index itself when it
\* is not marked, which is the case for index 0 only, else the smallest free number.
AvailablePref(used, index) == IF index \notin used THEN index ELSE LeastFree(used)

\* Mutant: the preference is not marked.
PrefUnmarked(used, index) == used

\* prefs after getAvailablePref.
getAvailablePref(used, index) ==
    IF index \notin used THEN used \cup {index} ELSE Mark(used, LeastFree(used))

-----------------------------------------------------------------------------
\* At most MaxFailures operations meet a failing command.
Count(failed) ==
    /\ failed => failures < MaxFailures
    /\ failures' = IF failed THEN failures + 1 ELSE failures

\* cleanupContainerInterfaces deletes the nv- interfaces of the container, the
\* renamed originals among them, and every nv- interface of the host; deleting one
\* end of a veth pair deletes the other.  Errors are ignored: what cannot be listed or
\* deleted (keptNics, keptWires) stays.
cleanupContainerInterfaces(c, keptNics, keptWires) ==
    /\ nic' = [nic EXCEPT ![c] = [i \in IfacesOf[c] |->
                 IF @[i] = "renamed" /\ i \notin keptNics THEN "gone" ELSE @[i]]]
    /\ wires' = keptWires

\* StartContainerCapture up to its loop; a container that is captured already is
\* left as it is.  The container lists its original interfaces and whatever the
\* cleanup left of an earlier capture; when the listing fails, the Start is over.
StartContainerCapture(c) ==
    /\ lock = "free" /\ bridgeReady /\ c \notin DOMAIN containers
    /\ \E keptNics \in SUBSET {i \in IfacesOf[c] : nic[c][i] = "renamed"},
          keptWires \in SUBSET wires, listed \in BOOLEAN :
         /\ cleanupContainerInterfaces(c, keptNics, keptWires)
         /\ \/ /\ listed
               /\ lock' = "capture"
               /\ starting' = c
               /\ left' = {i \in IfacesOf[c] : nic'[c][i] # "gone" \/ <<c, i>> \in keptWires}
               /\ veths' = << >>
            \/ ~listed /\ UNCHANGED <<lock, startVars>>
         /\ Count(keptNics # {} \/ keptWires # {} \/ ~listed)
    /\ UNCHANGED <<bridgeReady, tables, bridge, undeleted>>

\* An interface can be captured when it still is the original one and its host end
\* finds its name free.
Capturable(i) == nic[starting][i] = "orig" /\ \A w \in wires : w[2] # i

\* createVethPair fails for one interface: no MAC address; or, the index being
\* taken already, the interface cannot be renamed or the pair not created.  What is
\* left of an earlier capture always fails, and both of its ends may be listed (a
\* name like nv-ex-eth0 is too long to get the prefix once more).
createVethPairFails(i) ==
    /\ lock = "capture" /\ i \in left
    /\ \/ UNCHANGED <<prefs, nic>>
       \/ prefs' = getAvailableIndex(prefs) /\ UNCHANGED nic
       \/ /\ prefs' = getAvailableIndex(prefs)
          /\ nic' = [nic EXCEPT ![starting] = [@ EXCEPT ![i] = "renamed"]]
       \/ /\ ~Capturable(i)
          /\ prefs' = getAvailableIndex(getAvailableIndex(prefs))
          /\ UNCHANGED nic
    /\ left' = left \ {i}
    /\ Count(Capturable(i))
    /\ UNCHANGED <<lock, bridgeReady, containers, portMap, tcRules, starting, veths, wires, bridge,
                   undeleted>>

\* createVethPair and setupTCRules for one interface.  Without a preference the
\* pair stays and no rule is set up; a rule whose command fails is not recorded.
CaptureInterface(i) ==
    /\ lock = "capture" /\ i \in left /\ Capturable(i)
    /\ LET index == LeastFree(prefs)
           used  == getAvailableIndex(prefs)
           pref  == AvailablePref(used, index)
           rule  == [c |-> starting, i |-> i, pref |-> pref]
       IN /\ veths' = Set(veths, i, index)
          /\ prefs' = getAvailablePref(used, index)
          /\ \/ pref = 0 /\ UNCHANGED <<portMap, tcRules, bridge, undeleted, failures>>
             \/ /\ pref # 0
                /\ portMap' = Set(portMap, i, pref)
                /\ \/ /\ tcRules' = tcRules \cup {rule}
                      /\ bridge' = bridge \cup {rule}
                      /\ undeleted' = undeleted \ {rule}
                      /\ UNCHANGED failures
                   \/ Count(TRUE) /\ UNCHANGED <<tcRules, bridge, undeleted>>
    /\ nic' = [nic EXCEPT ![starting] = [@ EXCEPT ![i] = "renamed"]]
    /\ wires' = wires \cup {<<starting, i>>}
    /\ left' = left \ {i}
    /\ UNCHANGED <<lock, bridgeReady, containers, starting>>

\* StartContainerCapture after its loop.
StartReturns ==
    /\ lock = "capture" /\ left = {}
    /\ containers' = Set(containers, starting, veths)
    /\ lock' = "free"
    /\ starting' = None
    /\ veths' = << >>
    /\ UNCHANGED <<bridgeReady, prefs, portMap, tcRules, left, kernel, failures>>

Recorded(c) == {r \in tcRules : r.c = c}

\* The numbers StopContainerCapture releases: what portMap says about the names of
\* the container's interfaces, and their indexes.
Released(c) ==
    {portMap[i] : i \in DOMAIN containers[c] \cap DOMAIN portMap}
    \cup {containers[c][i] : i \in DOMAIN containers[c]}

HostEnds(c) == {w \in wires : w[2] \in DOMAIN containers[c]}

\* What StopContainerCapture does to its tables, whatever its commands did.
Release(c) ==
    /\ tcRules' = tcRules \ Recorded(c)
    /\ prefs' = prefs \ Released(c)
    /\ portMap' = Del(portMap, DOMAIN containers[c])
    /\ containers' = Del(containers, {c})

\* Mutant: the rules to delete are looked up in portMap like the released numbers.
StopByPortMap(c) ==
    /\ lock = "free" /\ c \in DOMAIN containers
    /\ bridge' = {r \in bridge : r.pref \notin Released(c)}
    /\ undeleted' = undeleted \cap bridge'
    /\ wires' = wires \ HostEnds(c)
    /\ Release(c)
    /\ UNCHANGED <<lock, bridgeReady, startVars, nic, failures>>

\* StopContainerCapture.  "tc filter del" with a preference and no handle removes
\* every rule of that preference; "ip link del nv-in-<interface>" removes whatever
\* interface has that name on the host; the original interface keeps its new name.
\* A command that fails is logged at most, and the record of the rule goes all the same.
StopContainerCapture(c) ==
    /\ lock = "free" /\ c \in DOMAIN containers
    /\ \E failed \in SUBSET Recorded(c), keptWires \in SUBSET HostEnds(c) :
         /\ LET deleted == {r.pref : r \in Recorded(c) \ failed}
            IN bridge' = {r \in bridge : r.pref \notin deleted}
         /\ undeleted' = (undeleted \cup failed) \cap bridge'
         /\ wires' = (wires \ HostEnds(c)) \cup keptWires
         /\ Count(failed # {} \/ keptWires # {})
    /\ Release(c)
    /\ UNCHANGED <<lock, bridgeReady, startVars, nic>>

\* Cleanup takes the mutex ...
Cleanup ==
    /\ lock = "free"
    /\ lock' = "cleanup"
    /\ UNCHANGED <<bridgeReady, tables, startVars, kernel, failures>>

\* cleanupBridge ignores its errors: the bridge goes with its rules or stays with them.
cleanupBridge ==
    /\ bridge' \in {{}, bridge}
    /\ undeleted' = bridge'

\* ... calls StopContainerCapture, which locks it again, for each captured
\* container, and so returns only if there is none.
CleanupReturns ==
    /\ lock = "cleanup" /\ DOMAIN containers = {}
    /\ cleanupBridge
    /\ Count(bridge' # {})
    /\ bridgeReady' = FALSE
    /\ lock' = "free"
    /\ UNCHANGED <<tables, startVars, nic, wires>>

-----------------------------------------------------------------------------
\* A container stops and starts again in a new network namespace.
ContainerRestarts(c) ==
    /\ starting # c
    /\ nic' = [nic EXCEPT ![c] = [i \in IfacesOf[c] |-> "orig"]]
    /\ wires' = {w \in wires : w[1] # c}
    /\ UNCHANGED <<lock, bridgeReady, tables, startVars, bridge, undeleted, failures>>

\* initNVBridge replaces the bridge by an empty one; when a command fails, the old
\* bridge may stay with its rules, and no capture can start.
initNVBridge ==
    /\ cleanupBridge
    /\ bridgeReady' \in {TRUE, FALSE}
    /\ bridgeReady' => bridge' = {}
    /\ Count(~bridgeReady')

\* The agent dies at any point; NewTCTrafficCapture starts with empty tables.
AgentRestarts ==
    /\ lock' = "free"
    /\ containers' = << >> /\ prefs' = {} /\ portMap' = << >> /\ tcRules' = {}
    /\ starting' = None /\ left' = {} /\ veths' = << >>
    /\ initNVBridge
    /\ UNCHANGED <<nic, wires>>

Init ==
    /\ lock = "free" /\ bridgeReady \in BOOLEAN
    /\ containers = << >> /\ prefs = {} /\ portMap = << >> /\ tcRules = {}
    /\ starting = None /\ left = {} /\ veths = << >>
    /\ nic = [c \in Containers |-> [i \in IfacesOf[c] |-> "orig"]]
    /\ wires = {} /\ bridge = {} /\ undeleted = {}
    /\ failures = 0

Next ==
    \/ \E c \in Containers :
         StartContainerCapture(c) \/ StopContainerCapture(c) \/ ContainerRestarts(c)
    \/ \E i \in Names : createVethPairFails(i) \/ CaptureInterface(i)
    \/ StartReturns \/ Cleanup \/ CleanupReturns \/ AgentRestarts

Spec == Init /\ [][Next]_vars

-----------------------------------------------------------------------------
(* Properties *)

Rule == [c: Containers, i: Names, pref: 1 .. PrefMax - 1]

\* Type invariant.
TypeOK ==
    /\ lock \in {"free", "capture", "cleanup"}
    /\ bridgeReady \in BOOLEAN
    /\ DOMAIN containers \subseteq Containers
    /\ \A c \in DOMAIN containers :
         /\ DOMAIN containers[c] \subseteq IfacesOf[c]
         /\ containers[c] \in [DOMAIN containers[c] -> 0 .. PrefMax - 1]
    /\ prefs \subseteq 0 .. PrefMax - 1
    /\ DOMAIN portMap \subseteq Names
    /\ portMap \in [DOMAIN portMap -> 1 .. PrefMax - 1]
    /\ tcRules \subseteq Rule
    /\ IF lock = "capture"
       THEN starting \in Containers \ DOMAIN containers
       ELSE starting = None /\ left = {}
    /\ DOMAIN veths \subseteq (IF starting = None THEN {} ELSE IfacesOf[starting])
    /\ veths \in [DOMAIN veths -> 0 .. PrefMax - 1]
    /\ left \subseteq (IF starting = None THEN {} ELSE IfacesOf[starting] \ DOMAIN veths)
    /\ DOMAIN nic = Containers
    /\ \A c \in Containers : nic[c] \in [IfacesOf[c] -> {"orig", "renamed", "gone"}]
    /\ wires \subseteq Containers \X Names
    /\ bridge \subseteq Rule /\ undeleted \subseteq bridge
    /\ failures \in 0 .. MaxFailures

\* The index of a veth pair, of a captured container or of the Start in progress.
HasIndex(c, i, n) ==
    \/ c \in DOMAIN containers /\ i \in DOMAIN containers[c] /\ n = containers[c][i]
    \/ c = starting /\ i \in DOMAIN veths /\ n = veths[i]

\* tc_traffic_capture.go:365 hands out unique indexes for the MAC addresses: no
\* two veth pairs of captured containers have the same index (0 stands for none)
\* and every index stays reserved as long as its pair exists, although Stop may
\* release a number that portMap attributes to the wrong container.
IndexesUnique ==
    \A c, d \in Containers, i, j \in Names, n \in 1 .. PrefMax - 1 :
        HasIndex(c, i, n) =>
            /\ n \in prefs
            /\ HasIndex(d, j, n) => c = d /\ i = j

\* Why it holds: the preferences portMap knows are reserved, differ from each other
\* and from every index, so that Stop never releases the index of another pair.
PortPrefsApart ==
    \A k \in DOMAIN portMap :
        /\ portMap[k] \in prefs
        /\ \A l \in DOMAIN portMap : portMap[k] = portMap[l] => k = l
        /\ \A c \in Containers, i \in Names : ~HasIndex(c, i, portMap[k])

\* Every drop rule on the bridge is recorded for a container that is captured or
\* being captured, so that a later Stop finds it, unless the command that should have
\* deleted it failed: as long as commands succeed, no rule outlives its container,
\* although port map entries are overwritten and preferences handed out twice.
OrphansOnlyByFailure ==
    \A r \in bridge \ undeleted :
        r \in tcRules /\ (r.c \in DOMAIN containers \/ r.c = starting)
=============================================================================
