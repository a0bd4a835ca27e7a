# TLA+ verification of micro-segment

micro-segment is a network micro-segmentation program: a **controller** that
holds the policy and the picture of the network, an **agent** on each host that
captures container traffic and reports it, and a C **data plane** (DP) that
inspects packets and enforces the policy. This directory models the controller,
the agent and the policy and reassembly parts of the data plane: what their state
is, what every operation does to it, and what can be relied on when the
operations, the goroutines, the data plane's threads, the processes and the Docker
daemon interleave, fail and restart.

All paths below are relative to `src/micro-segment/`. `PROJECT.json` maps each
definition to the source lines it translates.

## 1. Inventory

### Components, their state and their operations

| Component | State | Operations that change it |
|---|---|---|
| Policy engine, `internal/controller/policy/policy.go` | `rules`, the cached evaluation order `ruleOrder`, `groupModes`, one `RWMutex` | `AddRule`, `UpdateRule`, `DeleteRule`, `SetGroupMode`; `MatchPolicy` reads |
| Topology graph, `internal/controller/graph/graph.go` | every link twice: `outs` of its source, `ins` of its destination | `AddLink`, `DeleteLink`, `DeleteNode`, `Reset` |
| Cache, `internal/controller/cache/cache.go` | workloads, connections, workload graph; groups, policies, hosts, agents | `UpdateWorkloadFromProto`, `DeleteWorkload`, `UpdateConnectionFromProto`; others without callers |
| gRPC server, `internal/controller/grpc/server.go` | agent registry, `running`, `mutex` | `Register`, `Heartbeat`, `checkAgentTimeout`, `Start`, `Stop`, the report handlers |
| REST API, `internal/controller/rest/` | none | translates requests into calls of the engine and the cache |
| Agent gRPC client, `internal/agent/grpc/client.go` | `connected`, the connection | `Connect`, `Register`, `heartbeatLoop`, `ReportConnections` |
| Agent engine, `internal/agent/engine/engine.go` | wiring | `Start`, `Stop`, callbacks of DP and aggregator |
| Connection aggregator, `internal/agent/connection/aggregator.go` | `connsCache`, `connectionMap`, `threatLogs` | `AddConnection`, `AddThreatLog`, `flush`, `Stop` |
| TC capture, `internal/agent/network/tc_traffic_capture.go` | `containers`, `prefs`, `portMap`, the kernel's interfaces and TC rules | `StartContainerCapture`, `StopContainerCapture`, `Cleanup` |
| Container monitor, `internal/agent/network/container_monitor.go` | event subscription | initial scan, event loop, `handleContainerEvent` |
| DP client, `internal/agent/dp/client.go` | socket, `connected` | `Connect`, `readLoop`, `SendPolicy`, `AddMAC`, ... |
| DP control thread, `internal/dp/ctrl/ctrl.c` | endpoint map, the staged policy, switches and subnet lists | `dp_ctrl_add_mac`, `dp_ctrl_del_mac`, `dp_ctrl_cfg_policy`, `dp_ctrl_disable_net_policy`, ... |
| DP policy, `internal/dp/dpi/dpi_policy.c` | rule tables with version and reference count, FQDN records | `dpi_policy_cfg`, `dpi_policy_update`, `dpi_rule_add`; lookups read |
| DP packet path, `dpi_entry.c`, `dpi_packet.c`, `dpi_session.c` | per thread: sessions, a copy of the configuration | `dpi_recv_packet`, `dpi_session_create`, `dpi_policy_reeval`, `dpi_session_release` |
| DP fragments, `dpi_frag.c`, `utils/asm.c` | per thread: fragments held of each datagram | `dpi_ip_defrag`, `dpi_frag_send`, `dpi_frag_discard`, `ipfrag_release` |
| rest of the data plane | meters, timers, logs, parsers, packet I/O | data threads |

### How they interact

- Agents call the controller over gRPC: `Register` once, `Heartbeat` every
  10 s, `ReportConnections` and `ReportThreats` at every flush. The server's
  handlers update the registry and the cache. The timeout checker runs every
  30 s and marks agents offline after 60 s of silence.
- The cache drives the graph: one `AddLink` per reported connection, one
  `DeleteNode` per deleted workload.
- The DP sends connection samples over a Unix datagram socket; the client's read
  loop hands them to the aggregator, whose timer goroutine merges and reports.
- The container monitor drives the TC capture from Docker's events.
- REST handlers call the policy engine from one goroutine per request.
- In the DP one control thread receives the agent's messages and changes endpoints
  and rule tables, which the data threads read inside RCU read sections, one per
  packet. The control thread waits for `synchronize_rcu` before it frees, and asks
  a data thread through an event to delete sessions. Each data thread copies the
  configuration at the start of a packet; the control thread has thread ID 0 and
  sees the copy of data thread 0.

### What is hard here

Interleavings (read loop against flush timer, reports of several agents against
deletions, the monitor against the Docker daemon), locks (a recursive read
lock, a mutex held across `GracefulStop`, a mutex locked twice by `Cleanup`),
lost messages and restarts (heartbeats, `Register`, controller and agent
crashes, gaps in the event stream), stale cached state (`ruleOrder`,
connections of deleted workloads, events handled with later data), shared
number tables and maps at their limit; in the data plane tables and endpoints freed
under RCU, handle and version written one after the other, versions that wrap,
policies in several messages, two structures that must answer like one rule list,
fragments in any order. `PROJECT.json` lists each hazard at its line, those of the
parts that are not modelled included.

### What makes each component correct

- *Policy engine*: `ruleOrder` enumerates the table, the verdict is that of a
  best-priority matching rule, every call returns.
- *Graph*: both copies of every link agree and no link dangles, i.e. it behaves
  like one set of links.
- *Cache*: statistics, from the graph, and topology, from the connections,
  contradict each other only where keys collide or a workload was deleted; links are
  lost only with a workload.
- *Registry*: "online" is recent, "offline" is really silent, nobody is stuck.
- *Shutdown*: the mutex is released on every path; what has stopped has drained.
- *Aggregator*: no sample is lost silently or counted twice; summaries are right.
- *Capture*: indexes, and thereby MAC addresses, are unique; no rule outlives its
  container unless deleting it failed.
- *Monitor*: captures follow what Docker says, but for what was missed or failed.
- *DP policy*: nothing is freed while a packet uses it, nothing leaks, a packet
  that passes was judged by the table in force, and the table decides like the rule
  list it was built from.
- *DP fragments*: a datagram is inspected exactly when it is complete, and its
  fragments leave once.

## 2. Modules

`Proofs` modules hold theorems, `MC` modules the values of constants that a
configuration file cannot write down.

| Module | Models | Composes |
|---|---|---|
| `PolicyEngine` | rule table, order, group modes, `MatchPolicy` | |
| `PolicyLock` | `Engine.mutex` between matchers and writers | |
| `AbstractTopology` | what a graph of attributed links promises | |
| `TopologyGraph` | the two-copy graph, refining `AbstractTopology` | `AbstractTopology` |
| `TopologyCache` | workloads, connections and the graph they drive | extends `TopologyGraph` |
| `AgentRegistry` | registry, timeout checker, agent clients, crashes | server and client |
| `ServerShutdown` | `Server.Stop` against calls and the checker | server, grpc-go, main |
| `ConnAggregator` | cache, merge, batches, threat logs, reports | aggregator, engine, client |
| `TCCapture` | number table, port map, kernel state | capture, kernel, agent restarts |
| `ContainerMonitor` | scan, subscription, events, inspections | monitor, Docker |
| `DPPolicy` | rule tables and endpoints of the DP against its data threads | control thread, data threads, sessions |
| `DPRules` | building one rule table and looking packets up in it | |
| `DPFragments` | IPv4 reassembly of one data thread | `dpi_frag.c`, `asm.c`, packet path |
| `LeastElement` | one lemma the proofs share | |

The second component of a proof module has prefixed names for its variables, initial
predicate, next-state relation and specification (`lvars`, `LInit`, `LNext`, `LSpec` in
`PolicyLock`; `S` in `ServerShutdown`, `M` in `ContainerMonitor`, `G` in
`TopologyGraph`, `R` in `DPRules`), so that one module of theorems can extend both.

### Correspondence with the code

**PolicyEngine.** `rules` and `groupModes` are partial functions for the Go maps,
`ruleOrder` the slice. Each exported operation holds `Engine.mutex` and is one
action. `updateRuleOrder` iterates over a map and sorts with the unstable
`sort.Slice`, so any enumeration sorted by priority may come out
(`SortedOrders`). `moved` is a history variable: the rules whose priority
`UpdateRule` changed since the last sort. Rule ports are left out because
`matchPort` accepts every port. `Disable`, `any`, empty and zero application
lists are kept.

**PolicyLock.** `sync.RWMutex` as documented: an announced writer holds back new
readers, waits for the present ones, and on `Unlock` lets the readers it held
back in. `MatchPolicy` read-locks (`MatchPolicyRLock`), and when no rule matches
`GetGroupMode` read-locks again (`GetGroupModeRLock`).

**TopologyGraph.** `outs` and `ins` map `<<source, link, destination>>` to the
attribute, one for each copy. `DeleteNode` removes what `deleteLink` is called
for and what disappears with the node's own maps, separately for each copy, so
that a divergence would be visible. The graph's four hooks are never registered.

**TopologyCache.** One action per update, since `ReportConnections` takes
`Cache.mutex` once per connection. The figures of a report are one attribute. The
variables of the graph are those of `TopologyGraph`, and an update contains the
graph's own action. A workload ID is a sequence of parts, and `connectionKey` joins
two of them with the separator as the code does: IDs come from agents and nothing
validates them, so two pairs of workloads may share an entry of `connections` while the
graph has a link for each. `forgotten` is history: pairs one of whose workloads was
deleted since their last report.

**AgentRegistry.** Time advances in heartbeat intervals; ages saturate one above
the largest value an online agent may reach. Calls end within their 5 s
deadline, hence within the interval. A failing `Register` may or may not have
been executed. The agent draws a new ID per process, so an agent restart is
another agent. Server and controller process crash together and lose the
registry.

**ServerShutdown.** `lock` is the holder of `Server.mutex`. The loop condition
`for s.running` reads without the mutex; `synced` records whether the checker has
synchronised since `Stop`'s write and lets it see either value until then.

**ConnAggregator.** A sample carries the figures the merge treats differently. The
timer goroutine's `pc` follows `flush`: threat logs, swap, merge one by one, take
a batch, report. `delivered`, `lost`, `dropped` and the `from` field are history.

**TCCapture.** `StartContainerCapture` runs shell commands, so it is one action
before its loop, one per interface and one after, all under `lock`. The kernel
state that the commands change (`nic`, `wires`, `bridge`) is part of the model:
deleting one end of a veth pair deletes the other, `tc filter del` with a
preference removes every rule of that preference, `ip link del` removes whatever
has the name. The agent may restart at any point, and commands may fail, each as the
code treats it: the cleanup before a capture and the deletions of
`StopContainerCapture` are only logged, and the records go all the same; a failing
listing of interfaces ends the Start; an interface that cannot be renamed or paired is
skipped with its numbers taken; a failing bridge rule leaves its preference; a failing
`initNVBridge` leaves the old bridge with its rules and no capture possible.
`undeleted` is history: rules of the bridge whose deletion was tried and failed. What an
earlier capture left in a container is listed again and fails, because the names
`nv-in-eth0` and `nv-ex-eth0` are too long to be prefixed once more; a missing qdisc
shows as failing rule commands.

**ContainerMonitor.** Docker's own steps are external actions. An event is received
first and inspected then, so that what `ContainerInspect` says may be newer than
the event. `ContainerList`, each `ContainerInspect` and each capture may fail, and the
code tries none of them again. `missed` is history: containers one of whose starts or
ends the monitor could not use, for lack of the event or for such a failure; a handled
end takes the container out again.

**DPPolicy.** A table is a number in order of creation, 0 the NULL handle; its
content is the choice of verdict at `Judge` (allow, deny, or exempt: open without
`POLICY_DESC_CHECK_VER`). `dpi_policy_update` is one action up to the write of
`policy_hdl`, one for `policy_ver`, one after the grace period, because data threads
read both fields without a lock. `waiting` holds the read sections that
`synchronize_rcu` still waits for, those open when it was called. An endpoint object
is a MAC and one of two indexes; replacing an endpoint leaves the MAC unmapped for a
moment, as the code does. A packet is `RecvPacket`, `ReadHdl`, `Judge`, `Leave`; a
new session is judged twice, by `dpi_session_create` and by `dpi_policy_reeval`, from
two reads of the handle. A message part that only adds rules to the staged table
changes nothing here; a lost part is one that is not taken.

**DPRules.** `exact` is the hash map, `list` the range rules in order. `AddRule` is
the whole of one rule's handling by `dpi_policy_cfg`, application rules included, and uses
`LookupByKey`, the lookup of packets, as `dpi_rule_add_one` does. `snap` is what that
lookup sees: the copy of the configuration that data thread 0 has, the strict group mode
and the FQDN records of the moment, whose addresses and virtual hosts come and go with
DNS answers, rules and deletions; it may change between two rules (`CopyConfig`). The
reference, `FirstMatch`, only knows the list of rules as sent. A session is looked up
again when its application becomes known (`Decisions`): for a rule that checks the
application, or because the rule was found by the record of a virtual host, which only a
ready session can compare with its own (`OwnNames`). The control thread's lookup has no
session and takes such a rule for one that decides.
`Merge` combines what the names of a peer find: the earliest rule wins, and between two
entries of one rule, which the code decides by the order of its lookups, either may.

**DPFragments.** A fragment is position, length and the more-fragments bit;
`ipfrag_hold` is `Hold`, `asm_construct` is `Constructs` and `Stretch`, and
`Receive` is `dpi_ip_defrag` with the delivery that follows in the same packet.

## 3. Runs

| Run | Instance | What it shows |
|---|---|---|
| `policy_engine` | 3 rule IDs, 2 groups, bodies that tie, shadow, are disabled, name applications | the order enumerates the table, verdicts follow priorities unless a priority was changed in place |
| `policy_lock` | 3 matchers, 2 writers | no verdict overlaps a change; every call returns unless an inner read lock meets a waiting writer; that state is final |
| `topology_graph` | 3 nodes, 2 attributes | copies agree, no dangling link, the copies refine one set of links |
| `topology_cache` | 2 workloads whose IDs make two keys collide, 2 attributes | links and stored connections match, figures included, but for collisions and deleted workloads; links leave only with a workload |
| `agent_registry` | 2 agents, timeout 6, period 3, 1 crash, 7 failing calls | staleness bounds of online and offline, detection of silent agents, recovery after losses |
| `server_shutdown` | 2 locking calls and 1 other, 2 calls each | drained on return, checker ends, `Stop` returns unless it has locked a call out |
| `conn_aggregator` | 4 samples, 1 threat log, map and batch limit 1 | each sample in exactly one place, entries summarise their samples of one flow, the map's limit, samples and threats settle |
| `tc_capture` | 2 containers sharing `eth0`, table of 5 numbers, 2 operations with failing commands | unique and reserved indexes, port preferences apart from them, orphan rules only where a deletion failed |
| `container_monitor` | 2 containers, 2 runs each, 1 stream error | captures agree with Docker unless an event is pending, was missed or met a failure, and converge; listing, inspections and captures may fail every time |
| `dp_policy` | 2 MACs, one of them with traffic, 1 data thread, 4 tables, versions modulo 3, 2 MACs per message | nothing in use is freed, tables are neither leaked nor lost, a staged table is private, passing packets were judged by the table in force |
| `dp_rules` | 10 rules, policies of up to 3, 2 peers, 2 ports, 1 application and unknown ones, 2 FQDN records of which one is for a virtual host, 4 configurations | the first matching rule decides when the peer is treated as at staging and its own rule is not behind one for its virtual host; otherwise still some matching rule, and range rules are not lost |
| `dp_fragments` | 1 datagram, 5 fragments at 4 offsets with 5 lengths, 8 bytes of room | only complete datagrams are inspected, complete ones do not wait, fragments leave once |

### Bounds and why they are enough

- Three rules are the smallest table in which a moved rule stands between two
  unmoved ones.
- Two workloads, `a` and `a-a`, suffice for a collision: the key of `a` talking to `a-a`
  is that of `a-a` talking to `a`.
- Three graph nodes give self-links, both directions of a pair, and a third node
  whose links a `DeleteNode` must spare.
- Timeout 6 and period 3 are the real 60 s and 30 s in heartbeats. Seven failures
  let one agent be silent past the timeout and come back.
- `MapMax = ListMax = 1` makes every capacity test bite with four samples; the
  samples contain a repeated flow with swapped time stamps, a denied flow and a
  protocol without ports.
- A table of five numbers runs full with three interfaces (two numbers each). Two
  failing operations let a rule survive its container's Stop and then meet a capture
  that fails, or a bridge that cannot be replaced.
- Two runs per container let a stale start event meet a later run.
- Four tables with versions modulo 3 (1 and 2, since 0 is skipped) let a version come
  round again; two MACs per message are a table with two users, a repeated MAC and
  an unknown one. `Busy` keeps the traffic to one MAC: the endpoints of two MACs meet
  only in a shared table, which the second one holds without traffic. Larger
  instances were checked once and passed: both MACs with traffic and 3 tables, two
  threads with 2 MACs and 2 tables, two threads with 1 MAC and 3 tables (1.5 to
  6 million states).
- Three rules are an exact or range rule shadowed by an earlier one with a third in
  between; the rules tie, overlap, are external, name an FQDN with or without
  virtual host, one or two applications. The configurations are: no subnets yet and
  nothing resolved, one peer internal and the other resolved to one record, or to that
  and to one for a virtual host, policy switched off; with strict group mode and
  without. One application is enough beside the unknown one and any: a second adds
  keys of the same kind.
- Five fragments complete a datagram of up to four pieces with a duplicate, an
  overlap or a late last fragment in any position; lengths beyond the room make the
  construction fail.
- `MaxCrashes`, `MaxFailures`, `MaxCalls`, `MaxRuns`, `MaxGaps` are the only bounds
  on otherwise unbounded behaviour; each appears in the guards of its actions.

### Fairness

- `AgentRegistry`: weak fairness of `Tick`, the checker and each heartbeat
  attempt, because tickers fire and calls end at their deadline. Nothing obliges
  a controller to start or an agent to survive.
- `PolicyLock`, `ServerShutdown`: goroutines inside an operation go on (weak);
  `Lock` is granted under strong fairness, because Go's mutexes do not starve a
  waiter.
- `ConnAggregator`: the ticker ticks and flush steps complete (weak).
- `ContainerMonitor`: the monitor's goroutine runs and Docker answers (weak).
- No fairness is assumed of the environment: Docker, the DP, operators, failures.

Deadlock checking is switched off where the system really may stop: after `Stop`
(`ServerShutdown`, `ConnAggregator`), when containers have used up their runs
(`ContainerMonitor`), when all rules or fragments of the bound are used up
(`DPRules`, `DPFragments`), and in `PolicyLock`, whose deadlock is the subject.

### Observations

Behaviour that the properties carve out explicitly:

- `MatchPolicy` takes the read lock twice when no rule matches (`policy.go:220`);
  with a writer waiting in between neither returns: the "unless caught" of
  `ReturnsUnlessCaught`, and `CaughtIsFinal`.
- After a controller restart the heartbeats of running agents are answered with
  success and ignored (`server.go:193`): the "unless crashed" of
  `OnlineAgainUnlessCrashed`.

- `UpdateRule` with a new priority does not re-sort (`policy.go:67`): the
  "unless moved" of `VerdictByPriorityUnlessMoved`.
- `Stop` holds `Server.mutex` while `GracefulStop` waits for calls that need it
  (`server.go:115`): the "unless caught" of `StopCompletesUnlessCaught`.
- Events between scan and subscription, during a reconnect, and of containers
  removed before they are inspected are missed, and a listing, an inspection or a
  capture that fails is logged and not tried again (`container_monitor.go:63`, `:100`,
  `:176`, `:213`): the `missed` of `AgreesUnlessPending`. Such a container stays
  uncaptured for its whole run.
- A failing `tc filter del` is logged and the record of the rule is deleted all the same
  (`tc_traffic_capture.go:578-605`), so that no later Stop knows of it; a failing
  `initNVBridge` may leave the old bridge's rules: the `undeleted` of
  `OrphansOnlyByFailure`.
- The key of a connection, `ClientWL + "-" + ServerWL` (`cache.go:294`, `:520`), does not
  determine the pair: one of two colliding pairs is missing in the topology API while
  the graph counts both. Connections of a deleted workload stay in the cache without a
  link. Both are the exceptions of `GraphMatchesConnections`.
- A session that saw no packet while the versions went once round keeps its verdict
  (`dpi_policy.c:1351`); one judged open while the policy was switched off stays open
  when it is switched on (`ctrl.c:1634`); one that a table exempted is never judged
  again (`dpi_policy.c:971`): the exceptions of `PassedByTableInForce`.
- A policy staged while data thread 0 holds an empty or a switched-off configuration
  loses the order of its rules (`dpi_policy.c:428`, `dpi_entry.c:474`): the condition
  `StagedAlike` of `FirstMatchDecides`.
- With a rule for a virtual host before it, a rule for an address that the host's record
  resolves to is not installed: the lookup of `dpi_rule_add_one` has no session, finds
  the first rule as `CHECK_VH` (`dpi_policy.c:1895`) and `dpi_rule_add` takes the key for
  decided (`dpi_policy.c:432`, `:522`). A session with another virtual host then gets the
  default action: the condition `Unblocked` of `FirstMatchDecides`. The comment "ctrl
  path does not reach here, only dp does" (`dpi_policy.c:1855`) overlooks this caller.
- When both ends of a datagram are known and a piece in the middle is missing,
  `ipfrag_construct` returns -1 as a `bool` and the fragment goes on by itself
  (`dpi_frag.c:226`): the "unless alone" of `SentOnceUnlessAlone`.

Seen while reading, not stated as a property:

- Starting a capture deletes the `nv-` interfaces of every captured container
  (`tc_traffic_capture.go:714`); the model does it, `OrphansOnlyByFailure` is about
  the rules that remain.
- `main.c:302-304` leaves the DP's threat, traffic and connection callbacks unset, while
  `dpi_session.c` calls `connect_report`; reports of the DP are therefore not
  modelled, and the samples of `ConnAggregator` are what the agent's read loop could
  receive.
- Internal subnets and policy addresses are staged through one static pointer that is
  not reset after the last part (`ctrl.c:1483`).
- `dpi_fqdn_entry_delete_marked` names a record after freeing it in a debug message
  (`dpi_policy.c:2055`).
- `Cleanup` locks `tc.mutex` twice when something is captured
  (`tc_traffic_capture.go:765`); `CleanupReturns` has that guard.
- `StopContainerCapture` releases the preference `portMap` has for the interface
  name, which may be another container's (`tc_traffic_capture.go:593`); two
  bridge rules can then get the same preference. Indexes are not affected, which
  is what `PortPrefsApart` explains.
- An agent whose first `Connect` or `Register` fails never tries again.
- In NFQUEUE mode an accepted datagram returns before its held fragments are freed
  (`dpi_entry.c:670`).
- The DP client's read loop clears `connected` without knowing whether its socket is
  still the current one (`client.go:151`); nothing in the program reconnects.
- A late report recreates the graph node of a deleted workload.
- `Engine.MatchPolicy` and the group modes have no caller in the program; they are
  modelled as the engine offers them.
- Replacing an endpoint also handles an `oldmac` other than the new one
  (`ctrl.c:415-436`); `ReplaceUnmap` models the replacement under the same MAC.
- The engine's DP callback fills neither `ClientWL` nor `ServerWL`
  (`engine.go:163-189`), so all connections share one key of the controller's
  cache; reports carry deltas and the cache replaces figures by them.
- No code path pushes policies to the agents, and the agent never calls
  `GetPolicies`.
- The aggregator's `Stop` makes no last flush.

## 4. Proofs

TLAPS proves the following for every value of the constants that satisfies the
named assumptions. Every invariant and every safety action property that a run checks
is also the statement of a theorem.

**PolicyEngineProofs**, the rule table (assumes finitely many non-zero rule IDs, bodies
that are rules, `Any` not a group). `IInv` is `TypeOK /\ OrderIsEnumeration /\
SortedExceptMoved`. The verdict alone is not inductive: that a first hit is a best
candidate needs the order to list every rule, to list nothing else, and to be
sorted but for moved rules. `Invariance` shows `IInv` inductive with one step per
action; `SortedOrdersFacts` says what a re-sort returns; `FirstHitFacts` turns the
loop into a statement about candidates. Results: `TypeCorrect`, `OrderEnumerates`,
`PriorityVerdict`, `ZeroVerdict`.

*The engine's mutex* (assumes that `None` is no writer; any number of matchers and
writers). `LockInv` is what `sync.RWMutex` gives: only the announced writer writes, then
nobody reads, and a matcher waits for its inner read lock only behind an announced
writer. The last part is what makes the deadlock provable: the announced writer waits
for that very matcher. Results: `VerdictsNotTorn`, and `CaughtForever`: the deadlock
that `ReturnsUnlessCaught` excludes is permanent.

**TopologyProofs** (no assumptions for the graph). `GInv` is `GTypeOK /\ CopiesAgree /\
EndsPresent`. Agreement alone is not inductive: `DeleteNode` skips a link whose
other end is missing, so agreement after it needs that no link dangles before.
Results: `CopiesNeverDiverge`, `NoDanglingLink`, and the refinement `OutRefinement`,
which the agreement of the copies carries over to the other copy.

*The cache* (assumes that its link name is one of the graph's and that workload IDs are
sequences; nothing about which keys collide). `CacheInv` adds that all links have that
name, that every entry is stored under the key of its own pair (`EntriesKeyed`) and
`GraphMatchesConnections`; a deletion keeps this only because no link dangles, and a
report that overwrites an entry keeps it because the entry was stored under its key, so
that the overwritten pair collides with the new one. Results: `GraphFollowsConnections`, the
action property `LinksLeaveWithWorkload`, and `CacheDrivesGraph` (`Spec => GSpec`): what
the cache does to its graph is a behaviour of `TopologyGraph`, so the theorems above
hold inside the cache.

**AgentRegistryProofs** (assumes positive timeout and period). `OnlineIsRecent` is
strengthened with the age of online agents at the checker's last tick: an agent
online now was at most `Timeout` old when the checker last ran, plus the time
since. While the controller is down its registry is empty. Results: `OnlineRecent`,
`OfflineSilent`, `EntriesMatchClients`.

*The shutdown* (assumes that holders of the mutex have distinct names; any number of
calls). `Drained` adds to `StoppedMeansDrained` that the listener is closed from the
moment `Stop` waits; `MutexHeld` says who holds `Server.mutex`. Results: `StopDrains`,
and `CaughtStopHangs`: once `Stop` holds the mutex and a `Register` or `Heartbeat` is
inside without it, `Stop` never returns.

**ConnAggregatorProofs** (assumes samples with natural figures, a natural map limit and a
positive batch limit). `EInv`: every entry, in the map or under report, belongs to a
sequence of samples of one key, its bytes are the last partial sum, its time and
action those of the latest sighting, its severity and threat those of the most severe
sample. The reference definitions of `EntriesSummarise` are sums and `CHOOSE`s; the
invariant replaces each by the witness that determines it, and `EntrySummarises` goes
back, with a least counterexample in place of an induction. `LInv`: every sample is
at one of eight stations, is held once within it, and what the goroutine has in its
hands is empty outside the steps that fill it. Results: `EntriesAreSummaries`,
`OrdinaryBounded`, `SamplesOnce`.

**TCCaptureProofs** (assumes a non-empty number table). `IndexInv` joins
`IndexesUnique` with `PortPrefsApart`: uniqueness is not inductive by itself, for
`StopContainerCapture` releases whatever number `portMap` has under a name, which
is harmless only because those numbers are never indexes. `RuleInv` says that
installed rules are recorded unless their deletion failed, and recorded rules have an
owner. Results:
`CaptureInvariant`, `IndexUniqueness`, `PortPrefSeparation`, `NoRuleOutlives`.

*The container monitor* (assumes bounds that are numbers). `MonInv` says what the
queue of events knows: the last event of a container in it tells what Docker says
now (`LastEventTrue`), it is empty outside a subscription, what was inspected for an
event is still so or another event of the container is queued (`InspectionTrue`), and a
capture of a process that is gone has its end on the way (`NoStaleCapture`). Without the last
two the handling of a start event with later data would not keep the agreement. Every
failure adds the container to `missed`, and only a handled end takes it out, which
leaves it uncaptured and ended. Result: `MonitorAgrees`.

**DPFragmentsProofs** (assumes natural offsets, lengths and room; any number of keys and
fragments). The strengthening says of every entry of the map what `ipfrag_hold` has
let in: fragments are non-empty, pairwise disjoint and end within `length`; once `last`
is set some fragment ends at `length`; `first` is set when a fragment starts at 0.
That is what `asm_construct` relies on when it looks for the end only at gaps: without
disjointness a gap-free stretch need not be exact, and without the last fragment's end
it could be short. Results: `InspectedDatagramsAreWhole`, `CompleteDatagramsLeave`,
`FragmentsSentOnce`.

**DPPolicyProofs** (assumes at least two versions and that the traffic looked at is
that of known MACs; any number of MACs, data threads and tables). `IInv` makes explicit
what `dpi_policy.c` relies on. `Counted`: `ref_cnt` is the number of endpoints that
refer to the table, plus one while `dpi_policy_update` has replaced it and not yet given
its reference back; a replaced endpoint object does not count, its twin does.
`Referred` and `Used`: handles point to allocated tables, and only staged or referenced
tables are allocated. `ReadersOK`: if the control thread is about to free an endpoint or
the last reference of a table, the read sections that hold it are among those it waits
for. The skipped grace period (`ref_cnt` of 2 or more) is safe only together with
`Counted`: another reference then means another endpoint, so nothing is freed. There is
one lemma per action. Results: `NeverFreedInUse`, `NoTableLeaked`, `StagedStaysPrivate`,
all from `InvariantHolds`.

*Versions.* `VInv` is about which table judged a session. A version tells tables apart
that are less than `VerMod - 1` apart (`Versions`), only the newest table is handed out
(`StagedNewest`), so no endpoint goes back to an older one (`SessionsOK`), and handle and
version of an endpoint agree except between the two writes of `dpi_policy_update`
(`EpVersions`), during which no packet of that MAC counts as undisturbed
(`AllFreshOK`). Equal versions then mean the same table, or one that is at least
`VerMod - 1` tables newer. Result: `JudgedByTableInForce`.

*Rule tables* (`DPRulesAssumption`: addresses, FQDN codes and the external address are
told apart, applications are numbered from 1, rules are records of naturals with a
finite list of applications). `RulesInv`: every entry of the hash map and every item of
the list belongs to the rule its descriptor names (`TableOK`), and every range rule for
any application is covered by an item of its range (`RangesCovered`). Results:
`OnlyMatchesDecide`, `RangeRulesStay`. `OrderInv` is what `dpi_rule_add_one` achieves by
looking a key up before it adds it: the list is in the order of the rules, and for a
name that every configuration seen so far treated as the present one does, and of which
none knew a further record (`GoodName`), a key is in the hash map once and not after the
list's items that match it (`Ordered`); where a rule may answer for such a name, and no
rule for a virtual host keeps it out (`Clear`), it or an earlier one does (`Complete`),
found by a name that stands whatever the virtual host of the session (`PlainNames`). That
last part is what makes the answer hold for every session: the names a session has are
closed under it (`NamesClosed`). Both restrictions are necessary: `FirstMatchDecides`
fails without either, see the observations. Order
and completeness need each other: the lookup that finds nothing is evidence that no
earlier rule concerns the key only if the table is complete. The loop over a rule's
applications is followed through the intermediate tables (`AppsRun`), again with a least
counterexample. `ReadyDecides` is about the lookups of a session that knows its
application and virtual host, `EarlyDecides` about what a lookup before that leaves to
them. Result: `FirstMatchWins`, that hash map and list, asked once or more, decide like
the list of rules in the message.

**LeastElement**: every non-empty set of naturals has a least element, for the
`CHOOSE` of the first hit and of the smallest free number, and where an induction over
data is replaced by a least counterexample.

Only model-checked: the liveness properties, because fairness and `ENABLED` are outside
the prover's reach: `ReturnsUnlessCaught`, `SilentAgentDetected`,
`OnlineAgainUnlessCrashed`, `CheckerExits`, `StopCompletesUnlessCaught`,
`ReportsSettle` and `CaptureConverges`.

## 5. Not modelled

- **Rest of the data plane**: the life cycle of FQDN records, the unknown-IP cache,
  X-Forwarded-For and service mesh lookups, TCP state tracking, meters and the timer
  wheel are planned, see below. Logs and reports have no consumer (callbacks unset).
  Byte-level decoding, application parsers and packet I/O stay out: TLC has nothing to
  say about them at a useful level of detail. IPv6 fragments run the same code on
  other header fields.
- **REST API, gRPC definitions, web UI**: stateless or generated.
- **Groups, policies, hosts and agents of the cache, the agent's network policy,
  `traffic_capture.go`**: no caller in the program.
- **DP client**: planned as `AgentLinks`.
- The repository's other top-level directories (agent, controller, dp, share, monitor,
  upgrader, db) are the NeuVector tree the project was extracted from. They are by far
  the larger part of the repository's lines, but no part of this program: nothing in
  `micro-segment/` imports them.

## 6. Plan

Done in this order: policy engine, graph and cache, registry, shutdown, aggregator,
capture, monitor, DP policy and rules, DP fragments, and the proofs of the safety
properties of all of them. Next:

1. `DPFqdn`: FQDN records, their codes and the entries data threads attach to them.
2. `TimerWheel` and `DPSession`: the wheel as an abstract "fires at its time"
   specification and its refinement; TCP states and their timers.
3. `DPMeter`: rate windows, checked against a reference definition.
4. `AgentLinks`: DP client life cycle, dispatch and failing pushes; `GroupCache`.
5. Proofs: with each of these modules the invariants it adds. A composition of
   `ContainerMonitor` with `TCCapture`, in which the monitor's capture is the whole
   sequence of `StartContainerCapture`, would let `MonitorAgrees` and
   `IndexUniqueness` be stated of one system.
