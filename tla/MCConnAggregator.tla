------------------------- MODULE MCConnAggregator -------------------------
(* Four samples: two of one TCP flow with time stamps out of order, a denied TCP *)
(* flow on another port, and an ICMP one.                                        *)
EXTENDS ConnAggregator

S(peer, port, proto, bytes, seen, sev, threat, action) ==
    [peer |-> peer, port |-> port, proto |-> proto, bytes |-> bytes, seen |-> seen,
     sev |-> sev, threat |-> threat, action |-> action]

MCSample ==
    << S("p", 80, "tcp", 1, 5, 0, 0, 1),
       S("p", 80, "tcp", 2, 3, 2, 7, 3),
       S("p", 81, "tcp", 4, 4, 1, 9, 2),
       S("p", 0, "icmp", 8, 4, 0, 0, 1) >>
=============================================================================
