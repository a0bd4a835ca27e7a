------------------------- MODULE AbstractTopology -------------------------
(***************************************************************************)
(* What the topology graph promises: a set of nodes and one attributed     *)
(* link per (source, link name, destination).  Removing a node removes     *)
(* every link that touches it, in either direction.                        *)
(***************************************************************************)
CONSTANTS Nodes, Links, Attrs

VARIABLES present, linkAttr

avars == <<present, linkAttr>>

Edges == Nodes \X Links \X Nodes

AInit == present = {} /\ linkAttr = << >>

ASetLink(e, a) ==
    /\ present' = present \cup {e[1], e[3]}
    /\ linkAttr' = [x \in DOMAIN linkAttr \cup {e} |-> IF x = e THEN a ELSE linkAttr[x]]

ARemoveLink(e) ==
    /\ linkAttr' = [x \in DOMAIN linkAttr \ {e} |-> linkAttr[x]]
    /\ UNCHANGED present

ARemoveNode(n) ==
    /\ present' = present \ {n}
    /\ linkAttr' = [x \in {y \in DOMAIN linkAttr : y[1] # n /\ y[3] # n} |-> linkAttr[x]]

AReset == present' = {} /\ linkAttr' = << >>

ANext ==
    \/ \E e \in Edges, a \in Attrs : ASetLink(e, a)
    \/ \E e \in Edges : ARemoveLink(e)
    \/ \E n \in Nodes : ARemoveNode(n)
    \/ AReset

ASpec == AInit /\ [][ANext]_avars
=============================================================================
