-------------------------- MODULE ConnAggregator --------------------------
(***************************************************************************)
(* The agent's connection aggregator (agent/connection/aggregator.go) with *)
(* the report callback of the engine (agent/engine/engine.go).  The DP read*)
(* loop appends samples to connsCache at any time; the timer goroutine     *)
(* flushes: it swaps the cache out, merges the samples into connectionMap, *)
(* takes a batch out of the map and reports it.  A report that fails is not*)
(* repeated.                                                               *)
(***************************************************************************)
EXTENDS Naturals, Sequences, FiniteSets, FiniteSetsExt

CONSTANTS
    SampleIds,   \* the samples the DP sends, each at most once
    Sample,      \* SampleIds -> figures of the sample
    ThreatIds,   \* the threat logs the DP sends, each at most once
    MapMax,      \* connectionMapMax
    ListMax      \* connectionListMax

Figures == [peer: STRING, port: Nat, proto: {"tcp", "udp", "icmp", "sctp"},
            bytes: Nat, seen: Nat, sev: Nat, threat: Nat, action: 0..3]

ASSUME SampleAssumption == Sample \in [SampleIds -> Figures]
ASSUME MaxAssumption == MapMax \in Nat /\ ListMax \in Nat \ {0}

PolicyActionAllow == 1

VARIABLES
    connsCache,     \* Aggregator.connsCache
    work,           \* the samples updateConnections has swapped out and not yet merged
    connectionMap,  \* Aggregator.connectionMap: key -> entry
    batch,          \* the entries putConnections has taken out of the map
    pc,             \* timer goroutine: "wait", "threats", "swap", "merge", "send", "exited"
    stopped,        \* stopCh closed
    connected,      \* the gRPC client is connected
    fresh,          \* samples the DP has not sent yet
    delivered,      \* sample -> how often its bytes reached the controller
    lost, dropped,  \* samples in failed reports; samples refused by a full map
    threats         \* threat log -> "fresh", "cached", "taken", "reported" or "lost"

vars == <<connsCache, work, connectionMap, batch, pc, stopped, connected,
          fresh, delivered, lost, dropped, threats>>

connVars == <<connsCache, work, connectionMap, batch, stopped, connected, fresh,
              delivered, lost, dropped>>

-----------------------------------------------------------------------------
\* keyTCPUDPConnection and keyOtherConnection, reduced to the fields that vary
\* here: other protocols share one key per peer.
Key(s) == IF s.proto \in {"tcp", "udp"} THEN <<s.peer, s.port, s.proto>> ELSE <<s.peer>>

\* An entry remembers, for the properties, which samples it was made of.
NewEntry(id) ==
    LET s == Sample[id]
    IN [bytes |-> s.bytes, seen |-> s.seen, action |-> s.action, sev |-> s.sev,
        threat |-> s.threat, from |-> <<id>>]

\* Mutant: the last sample wins whatever its time stamp.
MergeLastArrival(e, id) ==
    LET s == Sample[id]
    IN [bytes |-> e.bytes + s.bytes,
        seen |-> s.seen,
        action |-> s.action,
        sev |-> IF e.sev < s.sev THEN s.sev ELSE e.sev,
        threat |-> IF e.sev < s.sev THEN s.threat ELSE e.threat,
        from |-> Append(e.from, id)]

\* The merge of updateConnectionMap: counters add up, the latest sighting decides
\* the action, the highest severity the threat.
Merge(e, id) ==
    LET s == Sample[id]
    IN [bytes |-> e.bytes + s.bytes,
        seen |-> IF e.seen <= s.seen THEN s.seen ELSE e.seen,
        action |-> IF e.seen <= s.seen THEN s.action ELSE e.action,
        sev |-> IF e.sev < s.sev THEN s.sev ELSE e.sev,
        threat |-> IF e.sev < s.sev THEN s.threat ELSE e.threat,
        from |-> Append(e.from, id)]

PutEntry(k, e) ==
    connectionMap' = [x \in DOMAIN connectionMap \cup {k} |->
                        IF x = k THEN e ELSE connectionMap[x]]

\* Mutant: the capacity test is off by one.
AdmitsOneMore(s) == Cardinality(DOMAIN connectionMap) <= MapMax \/ s.action > PolicyActionAllow

\* A full map still admits samples that deny or violate.
Admits(s) == Cardinality(DOMAIN connectionMap) < MapMax \/ s.action > PolicyActionAllow

updateConnectionMap(id) ==
    LET s == Sample[id]  k == Key(s)
    IN \/ /\ k \in DOMAIN connectionMap
          /\ PutEntry(k, Merge(connectionMap[k], id))
          /\ UNCHANGED dropped
       \/ /\ k \notin DOMAIN connectionMap /\ Admits(s)
          /\ PutEntry(k, NewEntry(id))
          /\ UNCHANGED dropped
       \/ /\ k \notin DOMAIN connectionMap /\ ~Admits(s)
          /\ dropped' = dropped \cup {id}
          /\ UNCHANGED connectionMap

-----------------------------------------------------------------------------
\* AddConnection, called from the DP client's read loop.
AddConnection(id) ==
    /\ id \in fresh
    /\ fresh' = fresh \ {id}
    /\ connsCache' = Append(connsCache, id)
    /\ UNCHANGED <<work, connectionMap, batch, pc, stopped, connected, delivered, lost, dropped, threats>>

\* AddThreatLog, called from the DP client's read loop.
AddThreatLog(t) ==
    /\ threats[t] = "fresh"
    /\ threats' = [threats EXCEPT ![t] = "cached"]
    /\ UNCHANGED <<connVars, pc>>

Taken(from, to) == [t \in ThreatIds |-> IF threats[t] = from THEN to ELSE threats[t]]

\* flush begins: putThreatLogs takes the threat logs under their lock ...
SwapThreatLogs ==
    /\ pc = "wait"
    /\ threats' = Taken("cached", "taken")
    /\ pc' = "threats"
    /\ UNCHANGED connVars

\* Mutant: the threat logs added since the swap are cleared with the others.
ReportThreatsClears ==
    /\ pc = "threats"
    /\ threats' = [t \in ThreatIds |->
                    IF threats[t] = "taken" THEN "reported"
                    ELSE IF threats[t] = "cached" THEN "fresh" ELSE threats[t]]
    /\ pc' = "swap"
    /\ UNCHANGED connVars

\* ... and onThreatLogs reports them or loses them.
ReportThreats ==
    /\ pc = "threats"
    /\ \/ connected /\ threats' = Taken("taken", "reported")
       \/ threats' = Taken("taken", "lost")
    /\ pc' = "swap"
    /\ UNCHANGED connVars

\* Mutant: the cache is copied and not cleared.
SwapWithoutClear ==
    /\ pc = "swap"
    /\ work' = connsCache
    /\ pc' = "merge"
    /\ UNCHANGED <<connsCache, connectionMap, batch, stopped, connected, fresh,
                   delivered, lost, dropped, threats>>

\* updateConnections takes the whole cache under its lock.
SwapCache ==
    /\ pc = "swap"
    /\ work' = connsCache
    /\ connsCache' = << >>
    /\ pc' = "merge"
    /\ UNCHANGED <<connectionMap, batch, stopped, connected, fresh, delivered, lost, dropped, threats>>

\* updateConnections merges the samples one by one.
MergeOne ==
    /\ pc = "merge" /\ work # << >>
    /\ updateConnectionMap(Head(work))
    /\ work' = Tail(work)
    /\ UNCHANGED <<connsCache, batch, pc, stopped, connected, fresh, delivered, lost, threats>>

\* putConnections takes at most ListMax entries, in map iteration order, out of
\* the map before it reports them.
TakeBatch ==
    /\ pc = "merge" /\ work = << >>
    /\ \E K \in SUBSET DOMAIN connectionMap :
         /\ Cardinality(K) = Min({ListMax, Cardinality(DOMAIN connectionMap)})
         /\ batch' = {connectionMap[k] : k \in K}
         /\ connectionMap' = [x \in DOMAIN connectionMap \ K |-> connectionMap[x]]
    /\ pc' = "send"
    /\ UNCHANGED <<connsCache, work, stopped, connected, fresh, delivered, lost, dropped, threats>>

BatchIds == UNION {{e.from[i] : i \in DOMAIN e.from} : e \in batch}

\* onConnections: the report reaches the controller, whether or not the answer
\* comes back before the deadline ...
ReportArrives ==
    /\ pc = "send" /\ connected
    /\ delivered' = [id \in SampleIds |->
                       IF id \in BatchIds THEN delivered[id] + 1 ELSE delivered[id]]
    /\ batch' = {}
    /\ pc' = "wait"
    /\ UNCHANGED <<connsCache, work, connectionMap, stopped, connected, fresh, lost, dropped, threats>>

\* ... or it fails, or the client is not connected and the batch is discarded.
ReportLost ==
    /\ pc = "send"
    /\ lost' = lost \cup BatchIds
    /\ batch' = {}
    /\ pc' = "wait"
    /\ UNCHANGED <<connsCache, work, connectionMap, stopped, connected, fresh, delivered, dropped, threats>>

\* Stop closes stopCh; timerLoop leaves its select without a last flush, possibly
\* after one more tick.
Stop ==
    /\ ~stopped
    /\ stopped' = TRUE
    /\ UNCHANGED <<connsCache, work, connectionMap, batch, pc, connected, fresh,
                   delivered, lost, dropped, threats>>

Exit ==
    /\ stopped /\ pc = "wait"
    /\ pc' = "exited"
    /\ UNCHANGED <<connsCache, work, connectionMap, batch, stopped, connected, fresh,
                   delivered, lost, dropped, threats>>

-----------------------------------------------------------------------------
Init ==
    /\ connsCache = << >> /\ work = << >> /\ connectionMap = << >> /\ batch = {}
    /\ pc = "wait" /\ stopped = FALSE
    /\ connected \in BOOLEAN
    /\ fresh = SampleIds
    /\ delivered = [id \in SampleIds |-> 0]
    /\ lost = {} /\ dropped = {}
    /\ threats = [t \in ThreatIds |-> "fresh"]

flush == SwapThreatLogs \/ ReportThreats \/ SwapCache \/ MergeOne \/ TakeBatch \/ ReportArrives \/ ReportLost

Next ==
    \/ \E id \in SampleIds : AddConnection(id)
    \/ \E t \in ThreatIds : AddThreatLog(t)
    \/ flush \/ Stop \/ Exit

\* The ticker ticks and the steps of a flush complete (calls have a deadline).
Spec == Init /\ [][Next]_vars /\ WF_vars(flush) /\ WF_vars(Exit)

-----------------------------------------------------------------------------
(* Properties *)

\* The indices at which a list holds a sample.
At(q, id) == {i \in DOMAIN q : q[i] = id}

Entries == {connectionMap[k] : k \in DOMAIN connectionMap} \cup batch

\* The places a sample is in; each delivery of its bytes is a place of its own.
Places(id) ==
    {<<"fresh", x>> : x \in fresh \cap {id}}
    \cup {<<"cache", i>> : i \in At(connsCache, id)}
    \cup {<<"work", i>> : i \in At(work, id)}
    \cup (UNION {{<<"map", k, i>> : i \in At(connectionMap[k].from, id)} : k \in DOMAIN connectionMap})
    \cup (UNION {{<<"batch", e, i>> : i \in At(e.from, id)} : e \in batch})
    \cup {<<"delivered", n>> : n \in 1 .. delivered[id]}
    \cup {<<"lost", x>> : x \in lost \cap {id}}
    \cup {<<"dropped", x>> : x \in dropped \cap {id}}

\* No traffic is invented and none disappears silently: at every point of every
\* interleaving of the read loop and the timer goroutine a sample is in exactly
\* one place, and it reaches the controller at most once.
EachSampleOnce == \A id \in SampleIds : Cardinality(Places(id)) = 1

\* What an aggregated entry must say about the samples merged into it, in the
\* order they were merged, stated without the incremental merge.
SamplesOf(e) == [i \in DOMAIN e.from |-> Sample[e.from[i]]]

LatestSighting(q) ==
    Max({i \in DOMAIN q : \A j \in DOMAIN q : q[j].seen <= q[i].seen})

FirstMostSevere(q) ==
    Min({i \in DOMAIN q : \A j \in DOMAIN q : q[j].sev <= q[i].sev})

\* The bytes of all samples.
TotalBytes(q) ==
    LET sum[i \in 0 .. Len(q)] == IF i = 0 THEN 0 ELSE sum[i - 1] + q[i].bytes
    IN  sum[Len(q)]

\* One peer and, for TCP and UDP, one protocol and port.
OneFlow(q) ==
    \A i, j \in DOMAIN q :
        /\ q[i].peer = q[j].peer
        /\ q[i].proto \in {"tcp", "udp"} => <<q[i].proto, q[i].port>> = <<q[j].proto, q[j].port>>

Summarises(e) ==
    LET q == SamplesOf(e)
    IN /\ OneFlow(q)
       /\ e.bytes = TotalBytes(q)
       /\ e.seen = q[LatestSighting(q)].seen
       /\ e.action = q[LatestSighting(q)].action
       /\ e.sev = q[FirstMostSevere(q)].sev
       /\ e.threat = q[FirstMostSevere(q)].threat

\* Every entry, in the map or under report, is the summary of its samples: samples of
\* one flow (ports and protocols are never mixed), sums of the counters, action of
\* the latest sighting even when samples arrive out of order, threat of the most
\* severe one.
EntriesSummarise == \A e \in Entries : Summarises(e)

\* However many denied or violating connections crowd in, the map never holds more
\* than MapMax entries that were admitted as ordinary traffic.
OrdinaryEntriesBounded ==
    Cardinality({k \in DOMAIN connectionMap :
                   Sample[connectionMap[k].from[1]].action <= PolicyActionAllow}) <= MapMax

\* A sample is reported, lost in a failed report, or refused by a full map.
Settled(id) == delivered[id] > 0 \/ id \in lost \/ id \in dropped

\* Nothing the read loop hands over is forgotten while the aggregator runs: samples
\* settle, and threat logs, those added during a report included, are reported or
\* lost with a failed report, never cleared.
ReportsSettle ==
    /\ \A id \in SampleIds : (id \notin fresh) ~> (Settled(id) \/ stopped)
    /\ \A t \in ThreatIds :
         (threats[t] # "fresh") ~> (threats[t] \in {"reported", "lost"} \/ stopped)
=============================================================================
