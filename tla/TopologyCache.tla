--------------------------- MODULE TopologyCache ---------------------------
(***************************************************************************)
(* The part of the controller's cache that answers topology queries        *)
(* (internal/controller/cache/cache.go): workloads, connections and the    *)
(* workload graph.  Agents drive it through ReportWorkload and             *)
(* ReportConnections of the gRPC server; several agents report at the same *)
(* time, and ReportConnections takes Cache.mutex once per connection, so   *)
(* every interleaving of the single updates below can happen.              *)
(***************************************************************************)
EXTENDS TopologyGraph, Sequences

\* TopologyGraph is Cache.wlGraph: its nodes are workload IDs, its attributes the figures
\* of a report (bytes, sessions, severity, action), its only link name the following.
GraphLinkName == "graph"

ASSUME GraphLinkAssumption == GraphLinkName \in Links

\* A workload ID is the sequence of its characters, coarsened to parts of which the
\* separator is one; agents report IDs and nothing in the program validates them.
ASSUME NodesAssumption == \A n \in Nodes : n \in Seq(STRING)

VARIABLES
    workloads,    \* the keys of Cache.workloads
    connections,  \* Cache.connections: key -> the connection last reported under it
    forgotten     \* history: the pairs one of whose workloads was deleted since they
                  \* were last reported

vars == <<workloads, connections, forgotten, gvars>>

\* The key is ClientWL + "-" + ServerWL: <<"a">> talking to <<"a", "-", "a">> has the key
\* of <<"a", "-", "a">> talking to <<"a">>.
connectionKey(c, s) == c \o <<"-">> \o s

Connection(c, s, a) == [client |-> c, server |-> s, figures |-> a]

PairOf(conn) == <<conn.client, conn.server>>

-----------------------------------------------------------------------------
\* AddWorkload, and ReportWorkload with "add" or "update".
UpdateWorkload(w) ==
    /\ workloads' = workloads \cup {w}
    /\ UNCHANGED <<connections, forgotten, gvars>>

\* The pairs reported so far that name workload w.
PairsOf(w) == {p \in {PairOf(connections[k]) : k \in DOMAIN connections} : w \in {p[1], p[2]}}

Forget(w) == forgotten' = forgotten \cup PairsOf(w)

\* Mutant: the graph is emptied instead of losing one node.
DeleteWorkloadResets(w) ==
    /\ workloads' = workloads \ {w}
    /\ nodes' = nodes \ {w}
    /\ outs' = << >>
    /\ ins' = << >>
    /\ Forget(w)
    /\ UNCHANGED connections

\* Mutant: the connections go, the graph is not told.
DeleteWorkloadDropsConnections(w) ==
    /\ workloads' = workloads \ {w}
    /\ connections' = Del(connections,
            {k \in DOMAIN connections : PairOf(connections[k]) \in PairsOf(w)})
    /\ Forget(w)
    /\ UNCHANGED gvars

\* ReportWorkload with "delete".  DeleteNode does nothing for a workload that no
\* connection has named; the connections stay in every case.
DeleteWorkload(w) ==
    /\ workloads' = workloads \ {w}
    /\ \/ DeleteNode(w)
       \/ w \notin nodes /\ UNCHANGED gvars
    /\ Forget(w)
    /\ UNCHANGED connections

\* One connection of a report.  The end points need not be known workloads, and the
\* entry replaces what was stored under its key, be it of this pair or of another.
UpdateConnection(c, s, a) ==
    /\ connections' = Set(connections, connectionKey(c, s), Connection(c, s, a))
    /\ forgotten' = forgotten \ {<<c, s>>}
    /\ AddLink(c, GraphLinkName, s, a)
    /\ UNCHANGED workloads

-----------------------------------------------------------------------------
\* The links GetNetworkGraph returns.
NetworkLinks == {connections[k] : k \in DOMAIN connections}

Init ==
    /\ workloads = {}
    /\ connections = << >>
    /\ forgotten = {}
    /\ GInit

Next ==
    \/ \E w \in Nodes : UpdateWorkload(w) \/ DeleteWorkload(w)
    \/ \E c, s \in Nodes, a \in Attrs : UpdateConnection(c, s, a)

Spec == Init /\ [][Next]_vars

-----------------------------------------------------------------------------
(* Properties *)

\* Two pairs of workloads may share a key; this says that they do.
Collide(p, q) == p # q /\ connectionKey(p[1], p[2]) = connectionKey(q[1], q[2])

\* The links of the graph, which the statistics API counts, and the connections, which
\* the topology API lists, contradict each other in two ways only.  A link without its
\* own entry has lost it to a pair with the same key; an entry without its link is of a
\* pair one of whose workloads was deleted since it was reported, and such an entry
\* always stays.  Everywhere else both give the figures of the last report.
GraphMatchesConnections ==
    /\ \A e \in DOMAIN outs :
          LET pair == <<e[1], e[3]>>
              key == connectionKey(e[1], e[3])
          IN /\ key \in DOMAIN connections
             /\ \/ connections[key] = Connection(e[1], e[3], outs[e])
                \/ Collide(pair, PairOf(connections[key]))
    /\ \A k \in DOMAIN connections :
          LET conn == connections[k]
              edge == <<conn.client, GraphLinkName, conn.server>>
          IN IF PairOf(conn) \in forgotten
             THEN edge \notin DOMAIN outs
             ELSE edge \in DOMAIN outs /\ outs[edge] = conn.figures

\* A link leaves the graph only when one of its end points is deleted, and then
\* all links of that workload leave at once; a report about other workloads never
\* costs a link.
LinksLostStep ==
    \A e \in DOMAIN outs \ DOMAIN outs' :
        \E w \in {e[1], e[3]} :
            /\ w \notin nodes'
            /\ \A x \in DOMAIN outs' \cup DOMAIN ins' : w \notin {x[1], x[3]}

LinksLostOnlyWithWorkload == [][LinksLostStep]_vars
=============================================================================
