----------------------------- MODULE MCDPRules -----------------------------
(* DPRules for TLC: two peers, one of them on a host, and what lookups can   *)
(* see: no subnets yet and nothing resolved; one peer internal and the other *)
(* resolved to a FQDN record, or to that and to one for a virtual host;      *)
(* network policy disabled; with strict group mode and without.               *)
EXTENDS DPRules

MCOwn == 9
MCIpType == [p \in Peers |-> IF p = 2 THEN "host" ELSE "none"]
View(nets, off, codes) ==
    [nets |-> nets, detect |-> TRUE, off |-> off, strict |-> codes = {5},
     codes |-> [p \in Peers |-> IF p = 2 THEN codes ELSE {}], vh |-> {6}]
MCViews ==
    {View({}, FALSE, {}), View({1, MCOwn}, FALSE, {5}), View({1, MCOwn}, FALSE, {5, 6}),
     View({1, MCOwn}, TRUE, {5})}
MCPolicies ==
    {[dir |-> "in", apply |-> FALSE, deny |-> TRUE], [dir |-> "out", apply |-> TRUE, deny |-> TRUE]}
Rule(lo, hi, phi, apps) == [lo |-> lo, hi |-> hi, plo |-> 1, phi |-> phi, apps |-> apps]
MCRules ==
    {Rule(s[1], s[2], 1, a) : s \in {<<2, 2>>, <<6, 6>>}, a \in {<< >>, <<1>>}}
    \cup {Rule(s[1], s[2], 1, << >>) : s \in {<<0, 0>>, <<5, 5>>, <<1, 2>>}}
    \cup {Rule(2, 2, 2, << >>), Rule(1, 2, 1, <<1>>), Rule(1, 2, 2, <<1, 0>>)}
=============================================================================
