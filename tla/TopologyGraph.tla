--------------------------- MODULE TopologyGraph ---------------------------
(***************************************************************************)
(* The controller's workload graph (internal/controller/graph/graph.go).   *)
(* The code stores every link twice: under outs of its source node and     *)
(* under ins of its destination node, each time with its attribute.  Here  *)
(* outs[<<s, l, d>>] is nodes[s].outs[l].ends[d] and ins[<<s, l, d>>] is   *)
(* nodes[d].ins[l].ends[s]; a graphLink without ends, which the code drops,*)
(* is the absence of such keys.  Every operation holds Graph.mutex.        *)
(***************************************************************************)
EXTENDS Naturals, FiniteSets

CONSTANTS Nodes, Links, Attrs

VARIABLES
    nodes,  \* the keys of Graph.nodes
    outs,   \* partial map, edge -> attribute, kept by the source node
    ins     \* partial map, edge -> attribute, kept by the destination node

gvars == <<nodes, outs, ins>>

Edges == Nodes \X Links \X Nodes

Set(m, e, a) == [x \in DOMAIN m \cup {e} |-> IF x = e THEN a ELSE m[x]]

Del(m, E) == [x \in DOMAIN m \ E |-> m[x]]

-----------------------------------------------------------------------------
Reset ==
    /\ nodes' = {}
    /\ outs' = << >>
    /\ ins' = << >>

\* Mutant: the destination's copy keeps its old attribute when the link exists.
AddLinkStaleIn(s, l, d, a) ==
    /\ nodes' = nodes \cup {s, d}
    /\ outs' = Set(outs, <<s, l, d>>, a)
    /\ ins' = IF <<s, l, d>> \in DOMAIN ins THEN ins ELSE Set(ins, <<s, l, d>>, a)

\* AddLink creates the missing end nodes and writes both copies of the attribute.
AddLink(s, l, d, a) ==
    /\ nodes' = nodes \cup {s, d}
    /\ outs' = Set(outs, <<s, l, d>>, a)
    /\ ins' = Set(ins, <<s, l, d>>, a)

\* DeleteLink does nothing unless both end nodes exist.
DeleteLink(s, l, d) ==
    /\ {s, d} \subseteq nodes
    /\ outs' = Del(outs, {<<s, l, d>>})
    /\ ins' = Del(ins, {<<s, l, d>>})
    /\ UNCHANGED nodes

\* The edges DeleteNode passes to deleteLink: first those that ins of the node
\* names, then those that outs of the node names.
Incident(n) ==
    {e \in DOMAIN ins : e[3] = n /\ e[1] \in nodes}
        \cup {e \in DOMAIN outs : e[1] = n /\ e[3] \in nodes}

\* The edges whose copy disappears with the node's own maps.
OwnOuts(n) == {e \in DOMAIN outs : e[1] = n}
OwnIns(n) == {e \in DOMAIN ins : e[3] = n}

\* Mutant: the loop over the node's in-links is missing.
DeleteNodeOutsOnly(n) ==
    /\ n \in nodes
    /\ outs' = Del(outs, OwnOuts(n))
    /\ ins' = Del(ins, OwnOuts(n) \cup OwnIns(n))
    /\ nodes' = nodes \ {n}

DeleteNode(n) ==
    /\ n \in nodes
    /\ outs' = Del(outs, Incident(n) \cup OwnOuts(n))
    /\ ins' = Del(ins, Incident(n) \cup OwnIns(n))
    /\ nodes' = nodes \ {n}

-----------------------------------------------------------------------------
\* The read operations.
Attr(s, l, d) == outs[<<s, l, d>>]
Ins(n) == {e[1] : e \in OwnIns(n)}
Outs(n) == {e[3] : e \in OwnOuts(n)}
GetNodeCount == Cardinality(nodes)
GetLinkCount == Cardinality(DOMAIN outs)

-----------------------------------------------------------------------------
GInit ==
    /\ nodes = {}
    /\ outs = << >>
    /\ ins = << >>

GNext ==
    \/ Reset
    \/ \E s, d \in Nodes, l \in Links, a \in Attrs : AddLink(s, l, d, a)
    \/ \E s, d \in Nodes, l \in Links : DeleteLink(s, l, d)
    \/ \E n \in Nodes : DeleteNode(n)

GSpec == GInit /\ [][GNext]_gvars

-----------------------------------------------------------------------------
(* Properties *)

\* Type invariant of the graph.
GTypeOK ==
    /\ nodes \subseteq Nodes
    /\ DOMAIN outs \subseteq Edges
    /\ outs \in [DOMAIN outs -> Attrs]
    /\ DOMAIN ins \subseteq Edges
    /\ ins \in [DOMAIN ins -> Attrs]

\* The two copies of every link agree, attribute included, whatever sequence of
\* AddLink, DeleteLink and DeleteNode led here: Ins and Outs answer from
\* different copies and must describe the same graph.
CopiesAgree == outs = ins

\* Both ends of every stored link are nodes of the graph: a link to a node that
\* DeleteNode removed would be reached by Outs and never deleted again.
EndsPresent ==
    \A e \in DOMAIN outs \cup DOMAIN ins : {e[1], e[3]} \subseteq nodes

\* The graph implements the abstract topology, read from the out-copies: DeleteNode
\* removes the node together with every link that names it at either end.
OutView == INSTANCE AbstractTopology WITH present <- nodes, linkAttr <- outs
ImplementsByOuts == OutView!ASpec
=============================================================================
