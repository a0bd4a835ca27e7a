-------------------------- MODULE TopologyProofs --------------------------
(***************************************************************************)
(* Proofs about the workload graph, for every set of nodes, link names and *)
(* attributes: its two copies never diverge, no link dangles, and it       *)
(* implements AbstractTopology.  The last part is about TopologyCache,      *)
(* which keeps the graph next to its connections.                          *)
(***************************************************************************)
EXTENDS TopologyCache, TLAPS

\* The inductive invariant: typing, equal copies, and end nodes present.  Without
\* EndsPresent, deleteLink's check that both nodes exist could leave a copy behind.
GInv == GTypeOK /\ CopiesAgree /\ EndsPresent

\* When the copies agree and no link dangles, DeleteNode removes exactly the
\* links that touch the node, from both copies.
LEMMA DeleteNodeLinks ==
    ASSUME CopiesAgree, EndsPresent, NEW n, DeleteNode(n)
    PROVE  /\ outs' = [x \in {y \in DOMAIN outs : y[1] # n /\ y[3] # n} |-> outs[x]]
           /\ ins' = outs'
<1> DEFINE Keep == {y \in DOMAIN outs : y[1] # n /\ y[3] # n}
<1>1. ins = outs
  BY DEF CopiesAgree
<1>2. \A e \in DOMAIN outs : e[1] \in nodes /\ e[3] \in nodes
  BY DEF EndsPresent
<1>3. DOMAIN outs \ (Incident(n) \cup OwnOuts(n)) = Keep
  BY <1>1, <1>2 DEF Incident, OwnOuts
<1>4. DOMAIN ins \ (Incident(n) \cup OwnIns(n)) = Keep
  BY <1>1, <1>2 DEF Incident, OwnIns
<1>5. outs' = [x \in Keep |-> outs[x]]
  BY <1>3 DEF DeleteNode, Del
<1>6. ins' = [x \in Keep |-> outs[x]]
  BY <1>1, <1>4 DEF DeleteNode, Del
<1> QED BY <1>5, <1>6

\* The two copies of every link agree and no link dangles, in every state.
THEOREM GraphInvariant == GSpec => []GInv
<1>1. GInit => GInv
  BY DEF GInit, GInv, GTypeOK, CopiesAgree, EndsPresent
<1>2. GInv /\ [GNext]_gvars => GInv'
  <2> SUFFICES ASSUME GInv, [GNext]_gvars PROVE GInv'
    OBVIOUS
  <2>1. CASE Reset
    BY <2>1 DEF Reset, GInv, GTypeOK, CopiesAgree, EndsPresent
  <2>2. ASSUME NEW s \in Nodes, NEW d \in Nodes, NEW l \in Links, NEW a \in Attrs,
               AddLink(s, l, d, a)
        PROVE  GInv'
    <3>1. <<s, l, d>> \in Edges
      BY DEF Edges
    <3>2. GTypeOK'
      BY <2>2, <3>1 DEF GInv, GTypeOK, AddLink, Set
    <3>3. CopiesAgree'
      BY <2>2 DEF GInv, CopiesAgree, AddLink
    <3>4. EndsPresent'
      <4>1. DOMAIN outs' = DOMAIN outs \cup {<<s, l, d>>} /\ DOMAIN ins' = DOMAIN ins \cup {<<s, l, d>>}
        BY <2>2 DEF AddLink, Set
      <4>2. nodes' = nodes \cup {s, d}
        BY <2>2 DEF AddLink
      <4> QED BY <4>1, <4>2 DEF GInv, EndsPresent
    <3> QED BY <3>2, <3>3, <3>4 DEF GInv
  <2>3. ASSUME NEW s \in Nodes, NEW d \in Nodes, NEW l \in Links, DeleteLink(s, l, d)
        PROVE  GInv'
    <3>1. GTypeOK'
      BY <2>3 DEF GInv, GTypeOK, DeleteLink, Del
    <3>2. CopiesAgree'
      BY <2>3 DEF GInv, CopiesAgree, DeleteLink
    <3>3. EndsPresent'
      BY <2>3 DEF GInv, EndsPresent, DeleteLink, Del
    <3> QED BY <3>1, <3>2, <3>3 DEF GInv
  <2>4. ASSUME NEW n \in Nodes, DeleteNode(n) PROVE GInv'
    <3> DEFINE Keep == {y \in DOMAIN outs : y[1] # n /\ y[3] # n}
    <3>1. outs' = [x \in Keep |-> outs[x]] /\ ins' = outs'
      BY <2>4, DeleteNodeLinks DEF GInv
    <3>2. nodes' = nodes \ {n}
      BY <2>4 DEF DeleteNode
    <3>3. GTypeOK'
      BY <3>1, <3>2 DEF GInv, GTypeOK
    <3>4. CopiesAgree'
      BY <3>1 DEF CopiesAgree
    <3>5. EndsPresent'
      BY <3>1, <3>2 DEF GInv, EndsPresent
    <3> QED BY <3>3, <3>4, <3>5 DEF GInv
  <2>5. CASE UNCHANGED gvars
    BY <2>5 DEF gvars, GInv, GTypeOK, CopiesAgree, EndsPresent
  <2> QED BY <2>1, <2>2, <2>3, <2>4, <2>5 DEF GNext
<1> QED BY <1>1, <1>2, PTL DEF GSpec

\* Ins and Outs always describe the same attributed links.
THEOREM CopiesNeverDiverge == GSpec => []CopiesAgree
BY GraphInvariant, PTL DEF GInv

\* No stored link names a node that was deleted.
THEOREM NoDanglingLink == GSpec => []EndsPresent
BY GraphInvariant, PTL DEF GInv

\* Read from the source nodes' copies, the graph implements the abstract topology:
\* in particular DeleteNode removes every link of the node in both directions.
THEOREM OutRefinement == GSpec => ImplementsByOuts
<1> USE DEF OutView!Edges, Edges
<1>1. GInit => OutView!AInit
  BY DEF GInit, OutView!AInit
<1>2. GInv /\ [GNext]_gvars => [OutView!ANext]_(OutView!avars)
  <2> SUFFICES ASSUME GInv, [GNext]_gvars
               PROVE  OutView!ANext \/ UNCHANGED <<nodes, outs>>
    BY DEF OutView!avars
  <2>1. CASE Reset
    BY <2>1 DEF Reset, OutView!ANext, OutView!AReset
  <2>2. ASSUME NEW s \in Nodes, NEW d \in Nodes, NEW l \in Links, NEW a \in Attrs,
               AddLink(s, l, d, a)
        PROVE  OutView!ANext
    <3>1. OutView!ASetLink(<<s, l, d>>, a)
      BY <2>2 DEF AddLink, Set, OutView!ASetLink
    <3> QED BY <3>1 DEF OutView!ANext
  <2>3. ASSUME NEW s \in Nodes, NEW d \in Nodes, NEW l \in Links, DeleteLink(s, l, d)
        PROVE  OutView!ANext
    <3>1. OutView!ARemoveLink(<<s, l, d>>)
      BY <2>3 DEF DeleteLink, Del, OutView!ARemoveLink
    <3> QED BY <3>1 DEF OutView!ANext
  <2>4. ASSUME NEW n \in Nodes, DeleteNode(n) PROVE OutView!ANext
    <3>1. OutView!ARemoveNode(n)
      BY <2>4, DeleteNodeLinks DEF GInv, DeleteNode, OutView!ARemoveNode
    <3> QED BY <3>1 DEF OutView!ANext
  <2>5. CASE UNCHANGED gvars
    BY <2>5 DEF gvars
  <2> QED BY <2>1, <2>2, <2>3, <2>4, <2>5 DEF GNext
<1> QED BY <1>1, <1>2, GraphInvariant, PTL DEF GSpec, ImplementsByOuts, OutView!ASpec

-----------------------------------------------------------------------------
(* The cache: TopologyCache for every set of workloads and figures. *)

\* An entry sits under the key of its own pair.
EntriesKeyed ==
    \A k \in DOMAIN connections :
        /\ connections[k].client \in Nodes
        /\ connections[k].server \in Nodes
        /\ connectionKey(connections[k].client, connections[k].server) = k

\* The cache's inductive invariant: the cache only stores links named "graph", its
\* graph is consistent, entries sit under their keys, and graph and connections match.
CacheInv ==
    /\ DOMAIN outs \subseteq Nodes \X {GraphLinkName} \X Nodes
    /\ outs = [x \in DOMAIN outs |-> outs[x]]
    /\ CopiesAgree
    /\ EndsPresent
    /\ EntriesKeyed
    /\ GraphMatchesConnections

\* The two halves of GraphMatchesConnections: what it says of a link ...
LinkMatches(e) ==
    LET key == connectionKey(e[1], e[3])
    IN /\ key \in DOMAIN connections
       /\ \/ connections[key] = Connection(e[1], e[3], outs[e])
          \/ Collide(<<e[1], e[3]>>, PairOf(connections[key]))

\* ... and what it says of an entry.
EntryMatches(k) ==
    LET conn == connections[k]
        edge == <<conn.client, GraphLinkName, conn.server>>
    IN IF PairOf(conn) \in forgotten
       THEN edge \notin DOMAIN outs
       ELSE edge \in DOMAIN outs /\ outs[edge] = conn.figures

LEMMA MatchesParts ==
    GraphMatchesConnections <=>
        /\ \A e \in DOMAIN outs : LinkMatches(e)
        /\ \A k \in DOMAIN connections : EntryMatches(k)
BY DEF GraphMatchesConnections, LinkMatches, EntryMatches

\* The same of the state after a step.
LEMMA MatchesPartsNext ==
    GraphMatchesConnections' <=>
        /\ \A e \in DOMAIN outs' : LinkMatches(e)'
        /\ \A k \in DOMAIN connections' : EntryMatches(k)'
BY DEF GraphMatchesConnections, LinkMatches, EntryMatches

\* Deleting a workload takes exactly the links of that workload, and exactly their
\* entries become entries of a forgotten pair.
LEMMA DeleteWorkloadStep ==
    ASSUME CacheInv, NEW w \in Nodes, DeleteWorkload(w)
    PROVE  CacheInv' /\ LinksLostStep
<1> DEFINE Keep == {y \in DOMAIN outs : y[1] # w /\ y[3] # w}
<1>1. /\ outs' = [x \in Keep |-> outs[x]] /\ ins' = outs'
      /\ nodes' = nodes \ {w}
  <2>1. CASE w \notin nodes /\ UNCHANGED gvars
    <3>1. Keep = DOMAIN outs
      BY <2>1 DEF CacheInv, EndsPresent
    <3>2. outs = [x \in DOMAIN outs |-> outs[x]]
      BY DEF CacheInv
    <3> QED BY <2>1, <3>1, <3>2 DEF gvars, CacheInv, CopiesAgree
  <2>2. CASE DeleteNode(w)
    BY <2>2, DeleteNodeLinks DEF CacheInv, DeleteNode
  <2> QED BY <2>1, <2>2 DEF DeleteWorkload
<1>2. connections' = connections /\ forgotten' = forgotten \cup PairsOf(w)
  BY DEF DeleteWorkload, Forget
<1>3. DOMAIN outs' = Keep /\ DOMAIN ins' = Keep
  BY <1>1
<1>4. ASSUME NEW e \in DOMAIN outs' PROVE LinkMatches(e)'
  <2>1. e \in DOMAIN outs /\ outs'[e] = outs[e]
    BY <1>1, <1>3
  <2>2. LinkMatches(e)
    BY <2>1, MatchesParts DEF CacheInv
  <2> QED BY <1>2, <2>1, <2>2 DEF LinkMatches, Connection, Collide, PairOf
<1>5. ASSUME NEW k \in DOMAIN connections' PROVE EntryMatches(k)'
  <2> DEFINE conn == connections[k]
             edge == <<conn.client, GraphLinkName, conn.server>>
  <2>1. k \in DOMAIN connections /\ connections'[k] = conn
    BY <1>2
  <2>2. EntryMatches(k)
    BY <2>1, MatchesParts DEF CacheInv
  <2>3. CASE w \in {conn.client, conn.server}
    <3>1. PairOf(conn) \in PairsOf(w)
      BY <2>1, <2>3 DEF PairsOf, PairOf
    <3>2. edge \notin DOMAIN outs'
      BY <1>3, <2>3
    <3> QED BY <1>2, <2>1, <3>1, <3>2 DEF EntryMatches
  <2>4. CASE w \notin {conn.client, conn.server}
    <3>1. PairOf(conn) \in forgotten' <=> PairOf(conn) \in forgotten
      BY <1>2, <2>4 DEF PairsOf, PairOf
    <3>2. edge \in DOMAIN outs' <=> edge \in DOMAIN outs
      BY <1>3, <2>4
    <3>3. edge \in DOMAIN outs => outs'[edge] = outs[edge]
      BY <1>1, <1>3, <2>4
    <3> QED BY <2>1, <2>2, <3>1, <3>2, <3>3 DEF EntryMatches
  <2> QED BY <2>3, <2>4
<1>6. GraphMatchesConnections'
  BY <1>4, <1>5, MatchesPartsNext
<1>7. /\ DOMAIN outs' \subseteq Nodes \X {GraphLinkName} \X Nodes
      /\ outs' = [x \in DOMAIN outs' |-> outs'[x]]
  BY <1>1, <1>3 DEF CacheInv
<1>8. CopiesAgree' /\ EndsPresent' /\ EntriesKeyed'
  BY <1>1, <1>2, <1>3 DEF CacheInv, CopiesAgree, EndsPresent, EntriesKeyed
<1>9. ASSUME NEW e \in DOMAIN outs \ DOMAIN outs'
      PROVE  \E v \in {e[1], e[3]} :
                /\ v \notin nodes'
                /\ \A x \in DOMAIN outs' \cup DOMAIN ins' : v \notin {x[1], x[3]}
  <2>1. w \in {e[1], e[3]}
    BY <1>3, <1>9
  <2>2. w \notin nodes' /\ \A x \in DOMAIN outs' \cup DOMAIN ins' : w \notin {x[1], x[3]}
    BY <1>1, <1>3
  <2> QED BY <2>1, <2>2
<1> QED BY <1>6, <1>7, <1>8, <1>9 DEF CacheInv, LinksLostStep

\* A reported connection is written to the connections and to the graph alike; the only
\* entry it replaces is that of its key.
LEMMA UpdateConnectionStep ==
    ASSUME CacheInv, NEW c \in Nodes, NEW s \in Nodes, NEW a \in Attrs,
           UpdateConnection(c, s, a)
    PROVE  CacheInv' /\ LinksLostStep
<1> DEFINE edge == <<c, GraphLinkName, s>>
           key == connectionKey(c, s)
           conn == Connection(c, s, a)
<1>1. /\ nodes' = nodes \cup {c, s}
      /\ outs' = [x \in DOMAIN outs \cup {edge} |-> IF x = edge THEN a ELSE outs[x]]
      /\ ins' = [x \in DOMAIN ins \cup {edge} |-> IF x = edge THEN a ELSE ins[x]]
      /\ connections' = [x \in DOMAIN connections \cup {key} |->
                            IF x = key THEN conn ELSE connections[x]]
      /\ forgotten' = forgotten \ {<<c, s>>}
  BY DEF UpdateConnection, AddLink, Set
<1>2. conn.client = c /\ conn.server = s /\ conn.figures = a /\ PairOf(conn) = <<c, s>>
  BY DEF Connection, PairOf
<1>3. ASSUME NEW e \in DOMAIN outs' PROVE LinkMatches(e)'
  <2>1. CASE e = edge
    <3>1. key \in DOMAIN connections' /\ connections'[key] = conn /\ outs'[e] = a
      BY <1>1, <2>1
    <3>2. connectionKey(e[1], e[3]) = key /\ Connection(e[1], e[3], outs'[e]) = conn
      BY <2>1, <3>1
    <3> HIDE DEF key, conn
    <3> QED BY <3>1, <3>2 DEF LinkMatches
  <2>2. CASE e # edge
    <3> DEFINE old == connectionKey(e[1], e[3])
    <3>1. e \in DOMAIN outs /\ outs'[e] = outs[e]
      BY <1>1, <2>2
    <3>2. <<e[1], e[3]>> # <<c, s>>
      BY <3>1, <2>2 DEF CacheInv
    <3>3. LinkMatches(e)
      BY <3>1, MatchesParts DEF CacheInv
    <3>4. CASE old = key
      <4>1. old \in DOMAIN connections' /\ connections'[old] = conn
        BY <1>1, <3>4
      <4>2. Collide(<<e[1], e[3]>>, PairOf(conn))
        BY <1>2, <3>2, <3>4 DEF Collide
      <4> HIDE DEF conn
      <4> QED BY <4>1, <4>2 DEF LinkMatches, Collide, PairOf
    <3>5. CASE old # key
      <4>1. old \in DOMAIN connections' /\ connections'[old] = connections[old]
        BY <1>1, <3>3, <3>5 DEF LinkMatches
      <4> QED BY <3>1, <3>3, <4>1 DEF LinkMatches, Collide, PairOf, Connection
    <3> QED BY <3>4, <3>5
  <2> QED BY <2>1, <2>2
<1>4. ASSUME NEW k \in DOMAIN connections' PROVE EntryMatches(k)'
  <2>1. CASE k = key
    <3>1. connections'[k] = conn
      BY <1>1, <2>1
    <3>2. PairOf(conn) \notin forgotten'
      BY <1>1, <1>2
    <3>3. edge \in DOMAIN outs' /\ outs'[edge] = a
      BY <1>1
    <3> HIDE DEF conn
    <3> QED BY <1>2, <3>1, <3>2, <3>3 DEF EntryMatches
  <2>2. CASE k # key
    <3> DEFINE was == connections[k]
               his == <<was.client, GraphLinkName, was.server>>
    <3>1. k \in DOMAIN connections /\ connections'[k] = was
      BY <1>1, <2>2
    <3>2. EntryMatches(k)
      BY <3>1, MatchesParts DEF CacheInv
    <3>3. connectionKey(was.client, was.server) = k
      BY <3>1 DEF CacheInv, EntriesKeyed
    <3>4. <<was.client, was.server>> # <<c, s>>
      BY <2>2, <3>3
    <3>5. PairOf(was) \in forgotten' <=> PairOf(was) \in forgotten
      BY <1>1, <3>4 DEF PairOf
    <3>6. his # edge
      BY <3>4
    <3>7. /\ his \in DOMAIN outs' <=> his \in DOMAIN outs
          /\ his \in DOMAIN outs => outs'[his] = outs[his]
      BY <1>1, <3>6
    <3> QED BY <3>1, <3>2, <3>5, <3>7 DEF EntryMatches
  <2> QED BY <2>1, <2>2
<1>5. GraphMatchesConnections'
  BY <1>3, <1>4, MatchesPartsNext
<1>6. /\ DOMAIN outs' \subseteq Nodes \X {GraphLinkName} \X Nodes
      /\ outs' = [x \in DOMAIN outs' |-> outs'[x]]
  BY <1>1 DEF CacheInv
<1>7. CopiesAgree'
  BY <1>1 DEF CacheInv, CopiesAgree
<1>8. EndsPresent'
  BY <1>1 DEF CacheInv, EndsPresent
<1>9. EntriesKeyed'
  BY <1>1, <1>2 DEF CacheInv, EntriesKeyed
<1>10. LinksLostStep
  BY <1>1 DEF LinksLostStep
<1> QED BY <1>5, <1>6, <1>7, <1>8, <1>9, <1>10 DEF CacheInv

\* Every step of the cache keeps the invariant and loses only links of a deleted
\* workload.
LEMMA CacheStep ==
    ASSUME CacheInv, [Next]_vars
    PROVE  CacheInv' /\ [LinksLostStep]_vars
<1>1. ASSUME NEW w \in Nodes, UpdateWorkload(w) PROVE CacheInv' /\ LinksLostStep
  BY <1>1 DEF gvars, UpdateWorkload, CacheInv, CopiesAgree, EndsPresent,
     EntriesKeyed, GraphMatchesConnections,
     Connection, Collide, PairOf, LinksLostStep
<1>2. CASE UNCHANGED vars
  BY <1>2 DEF vars, gvars, CacheInv, CopiesAgree, EndsPresent, EntriesKeyed,
     GraphMatchesConnections, Connection, Collide, PairOf
<1> QED BY <1>1, <1>2, DeleteWorkloadStep, UpdateConnectionStep DEF Next

\* The empty cache satisfies the invariant.
LEMMA CacheInit ==
    ASSUME Init
    PROVE  CacheInv
BY DEF Init, GInit, CacheInv, CopiesAgree, EndsPresent, EntriesKeyed,
   GraphMatchesConnections

\* Whatever reports and deletions of workloads interleave: a link of the graph differs
\* from the entry of its key only when another pair shares that key, and an entry has no
\* link exactly when one of its workloads was deleted since it was reported.
THEOREM GraphFollowsConnections == Spec => []GraphMatchesConnections
<1>1. CacheInv => GraphMatchesConnections
  BY DEF CacheInv
<1> QED BY <1>1, CacheInit, CacheStep, PTL DEF Spec

\* A link leaves the graph only with one of its workloads, and then no link of that
\* workload is left in either copy.
THEOREM LinksLeaveWithWorkload == Spec => LinksLostOnlyWithWorkload
BY CacheInit, CacheStep, PTL DEF Spec, LinksLostOnlyWithWorkload

\* What the cache does to its graph is a behaviour of the graph: every operation is one
\* graph operation or leaves the graph alone, so what is proved of the graph holds in it.
THEOREM CacheDrivesGraph == Spec => GSpec
<1>1. Init => GInit
  BY DEF Init
<1>2. [Next]_vars => [GNext]_gvars
  <2> SUFFICES ASSUME [Next]_vars PROVE GNext \/ UNCHANGED gvars
    OBVIOUS
  <2>1. ASSUME NEW w \in Nodes, UpdateWorkload(w) \/ DeleteWorkload(w)
        PROVE  GNext \/ UNCHANGED gvars
    BY <2>1 DEF UpdateWorkload, DeleteWorkload, GNext, gvars
  <2>2. ASSUME NEW c \in Nodes, NEW s \in Nodes, NEW a \in Attrs, UpdateConnection(c, s, a)
        PROVE  GNext
    BY <2>2, GraphLinkAssumption DEF UpdateConnection, GNext
  <2>3. CASE UNCHANGED vars
    BY <2>3 DEF vars, gvars
  <2> QED BY <2>1, <2>2, <2>3 DEF Next
<1> QED BY <1>1, <1>2, PTL DEF Spec, GSpec
=============================================================================
