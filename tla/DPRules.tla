------------------------------ MODULE DPRules ------------------------------
(***************************************************************************)
(* The rule table of a data plane policy (internal/dp/dpi/dpi_policy.c):   *)
(* how dpi_rule_add builds it, rule after rule, and how a packet is looked *)
(* up in it.  A rule whose addresses and ports are single values goes into *)
(* the hash map policy_map, the others into a list that is searched in     *)
(* order.  The hash map is asked first, so a rule must not get into it     *)
(* when an earlier rule already decides its key: dpi_rule_add_one looks    *)
(* the key up before it adds it.  That lookup is the one packets use, and  *)
(* it reads the configuration that data thread 0 copied with its last      *)
(* packet, because the control thread has no THREAD_ID of its own, and     *)
(* the FQDN records and the strict group mode of that moment.              *)
(*                                                                         *)
(* A FQDN record may be for a virtual host: its rules concern only the     *)
(* sessions that name the host.  Until a session's application is known,   *)
(* and for the control thread, which has no session, every such rule is a  *)
(* hit that is to be checked later (CHECK_VH).                             *)
(*                                                                         *)
(* Left out: the ICMP rule of id 0 that dpi_add_default_policy appends (it *)
(* has a list of its own), rules skipped for want of memory or FQDN codes, *)
(* the flag that spares policies without FQDN rules the lookups by records *)
(* (they can find ranges only), the lookups for the log of a session that  *)
(* ends (dpi_sess_policy_reeval) and for proxied traffic, sessions picked  *)
(* up midstream whose application stays unknown.  The                      *)
(* tables of the protocols are independent: the one below is that of one   *)
(* protocol.  The workload's own end of a rule is its address, so that a   *)
(* direction has a list and hash keys of its own: the direction is chosen  *)
(* once.                                                                   *)
(***************************************************************************)
EXTENDS Naturals, FiniteSets, SequencesExt

CONSTANTS
    Peers,     \* addresses of peers, positive numbers
    Own,       \* the workload's address
    IpType,    \* Peers -> type of the address (specialip_subnet4)
    Codes,     \* codes of FQDN records, which stand for an address in a rule
    Ports,
    Apps,      \* applications, 1 .. n
    Policies,  \* direction, apply_dir and default action (deny or not) of policies
    Views,     \* what a lookup can see: subnets, switches, FQDN records of addresses
    Rules,     \* rules a message can carry
    MaxRules   \* bound: rules of the policy

External == 0                      \* sip or dip 0 stands for any external address
AnyApp == Cardinality(Apps) + 1    \* DP_POLICY_APP_UNKNOWN, the largest number

ASSUME DPRulesAssumption ==
    /\ External \notin Peers \cup Codes /\ Peers \cap Codes = {}
    /\ IsFiniteSet(Apps) /\ Apps = 1 .. Cardinality(Apps)
    /\ MaxRules \in Nat
    /\ Rules \subseteq [lo : Nat, hi : Nat, plo : Nat, phi : Nat, apps : Seq(Apps \cup {0})]
    /\ Policies \subseteq [dir : {"in", "out"}, apply : BOOLEAN, deny : BOOLEAN]
    /\ Views \subseteq [nets : SUBSET (Peers \cup {Own}), detect : BOOLEAN, off : BOOLEAN,
                        strict : BOOLEAN, codes : [Peers -> SUBSET Codes], vh : SUBSET Codes]

VARIABLES
    cfg,    \* the policy's member of Policies
    snap,   \* the view of the control thread's lookups: the copy of data thread 0
            \* and the FQDN records of the moment
    rules,  \* rules received, in order
    exact,  \* policy_map: pairs of a key and a descriptor
    list,   \* range_rule_list of the direction
    seen    \* the views the rules were added under

rvars == <<cfg, snap, rules, exact, list, seen>>

Addresses == Peers \cup Codes \cup {External}

\* A descriptor names the rule (desc.order) and the position of the application
\* in it, 0 for the rule itself.
Default == <<MaxRules + 1, 0>>     \* no rule: def_action, id 0, order 0xffffffff

\* desc.action = DP_POLICY_ACTION_CHECK_APP
ChecksApp(rs, d) == d # Default /\ d[2] = 0 /\ rs[d[1]].apps # << >>

-----------------------------------------------------------------------------
(* Which packets the table is asked about *)

\* dpi_is_ip4_internal: without subnets every address is internal.
Internal(v, ip) == v.nets = {} \/ ip \in v.nets

TypeOf(ip) == IF ip \in Peers THEN IpType[ip] ELSE "none"

\* The FQDN records that resolved to the address (fqdn_ipv4_map).
CodesOf(v, ip) == IF ip \in Peers THEN v.codes[ip] ELSE {}

\* check_sgm
Strict(v) == v.strict /\ cfg.deny

\* Ingress traffic that dpi_policy_lookup_by_key opens without a lookup.
OpenIn(v, ip, nbe) ==
    \/ Internal(v, ip) /\ ~cfg.apply /\ TypeOf(ip) # "uwl" /\ ~nbe /\ ~Strict(v)
    \/ TypeOf(ip) = "uwl" /\ ~v.detect

\* Egress traffic decided without a lookup: opened, or stopped as traffic to the
\* external address of a service.
OpenOut(v, ip, nbe) ==
    \/ Internal(v, ip) /\ ~Internal(v, Own) /\ cfg.apply
    \/ ~Internal(v, ip) /\ TypeOf(ip) = "ext"
    \/ /\ Internal(v, ip) /\ ~cfg.apply /\ CodesOf(v, ip) = {}
       /\ TypeOf(ip) \notin {"host", "uwl"} /\ ~nbe /\ ~Strict(v)
    \/ TypeOf(ip) = "uwl" /\ ~v.detect
    \/ nbe /\ TypeOf(ip) = "svc"

\* The packet's verdict comes from the table.
TableUsed(v, ip, nbe) ==
    /\ ~v.off
    /\ TypeOf(ip) # "link"
    /\ ~(IF cfg.dir = "in" THEN OpenIn(v, ip, nbe) ELSE OpenOut(v, ip, nbe))

-----------------------------------------------------------------------------
(* Lookup *)

\* Mutant: the application of the key is not compared.
InRangeAnyApp(item, k) == k.ip \in item.lo .. item.hi /\ k.port \in item.plo .. item.phi

\* rule_key_in_range
InRange(item, k) ==
    /\ k.ip \in item.lo .. item.hi
    /\ k.port \in item.plo .. item.phi
    /\ k.app \in item.alo .. item.ahi

\* _dpi_policy_lookup_by_key; a key that is twice in the hash map finds any of them.
LookupKey(tb, k) ==
    LET hits == {e[2] : e \in {x \in tb.exact : x[1] = k}}
        first == SelectInSeq(tb.list, LAMBDA item : InRange(item, k))
    IN  IF hits # {} THEN hits
        ELSE IF first # 0 THEN {tb.list[first].desc} ELSE {Default}

\* policy_desc_merge, over what the lookups of several names find: the earliest rule
\* wins; between two entries of one rule the order of the lookups decides.
Merge(found) ==
    {d \in UNION {found[x] : x \in DOMAIN found} :
        \A x \in DOMAIN found : \E e \in found[x] : d[1] <= e[1]}

\* The names under which a rule can mean the address: itself, the FQDN records it
\* belongs to and, for an external address, any external one.
Aliases(v, ip, external) ==
    {ip} \cup CodesOf(v, ip) \cup (IF external THEN {External} ELSE {})

\* The names of a packet's peer, and those that stand when its session names the
\* virtual hosts of the records host.
Names(v, ip) == Aliases(v, ip, ~Internal(v, ip))
OwnNames(v, ip, host) == Names(v, ip) \ (v.vh \ host)

\* dpi_policy_lookup_by_key once the table is used.
LookupByKey(tb, names, port, app) ==
    Merge([x \in names |-> LookupKey(tb, [ip |-> x, port |-> port, app |-> app])])

\* One of the names is what the lookup found the descriptor by.
HitBy(tb, names, port, app, d) ==
    \E x \in names : d \in LookupKey(tb, [ip |-> x, port |-> port, app |-> app])

\* The decision of a ready session: it tells the virtual hosts apart.  A rule that
\* checks the application makes it look up again with the application, or AnyApp when
\* that is not identified.
Ready(tb, rs, own, port, app) ==
    UNION {IF ChecksApp(rs, d) THEN LookupByKey(tb, own, port, app) ELSE {d} :
             d \in LookupByKey(tb, own, port, 0)}

\* The rules that can have decided a session once it is ready, whether or not it was
\* looked up before that.  What the early lookup finds waits for the application
\* (CHECK_APP) or, found by a virtual host, for the session to be ready (CHECK_VH).
Decisions(tb, rs, v, ip, host, port, app) ==
    LET all == Names(v, ip)
        own == OwnNames(v, ip, host)
        known == LookupByKey(tb, own, port, app)
        ready == Ready(tb, rs, own, port, app)
        Early(d) ==
            IF ChecksApp(rs, d) THEN known
            ELSE (IF HitBy(tb, all \ v.vh, port, 0, d) THEN {d} ELSE {})
                 \cup (IF d # Default /\ HitBy(tb, all \cap v.vh, port, 0, d) THEN ready ELSE {})
    IN  ready \cup UNION {Early(d) : d \in LookupByKey(tb, all, port, 0)}

-----------------------------------------------------------------------------
(* dpi_rule_add *)

\* What the lookup of the control thread finds for the key of a new rule.  It has no
\* session: a virtual host counts as found and, not being CHECK_APP, as decided.
Found(tb, k) ==
    IF TableUsed(snap, k.ip, FALSE)
    THEN LookupByKey(tb, Names(snap, k.ip), k.port, k.app)
    ELSE {Default}

\* Mutant: the key is added whatever is there.
AddExactAlways(tb, k, d) ==
    {[tb |-> [tb EXCEPT !.exact = @ \cup {<<k, d>>}], added |-> TRUE, exist |-> Default]}

\* dpi_rule_add_one for a single key
AddExact(tb, k, d) ==
    {IF f = Default
     THEN [tb |-> [tb EXCEPT !.exact = @ \cup {<<k, d>>}], added |-> TRUE, exist |-> f]
     ELSE [tb |-> tb, added |-> FALSE, exist |-> f] : f \in Found(tb, k)}

\* dpi_range_rule_add
AddRange(tb, item) ==
    LET same == SelectInSeq(tb.list, LAMBDA x : [x EXCEPT !.desc = item.desc] = item)
    IN  IF same = 0
        THEN {[tb |-> [tb EXCEPT !.list = Append(@, item)], added |-> TRUE, exist |-> Default]}
        ELSE {[tb |-> tb, added |-> FALSE, exist |-> tb.list[same].desc]}

Single(r) == r.lo = r.hi /\ r.plo = r.phi
Key(r, app) == [ip |-> r.lo, port |-> r.plo, app |-> app]
Item(r, alo, ahi, d) ==
    [lo |-> r.lo, hi |-> r.hi, plo |-> r.plo, phi |-> r.phi, alo |-> alo, ahi |-> ahi,
     desc |-> d]

\* dpi_add_app_rule
AddApp(tb, r, app, d) ==
    IF app = 0 THEN AddRange(tb, Item(r, 0, AnyApp, d))
    ELSE IF Single(r) THEN AddExact(tb, Key(r, app), d)
    ELSE AddRange(tb, Item(r, app, app, d))

\* The rules of the applications of rule n.
AddApps(tb, r, n) ==
    LET after[i \in 0 .. Len(r.apps)] ==
            IF i = 0 THEN {tb}
            ELSE UNION {{x.tb : x \in AddApp(t, r, r.apps[i], <<n, i>>)} : t \in after[i - 1]}
    IN  after[Len(r.apps)]

\* Mutant: a range that is there already counts as decided, application or not.
AfterFirstForgets(res, r, n) ==
    IF ~res.added /\ ((~Single(r) /\ r.apps = << >>) \/ ~ChecksApp(rules, res.exist))
    THEN {res.tb}
    ELSE IF r.apps = << >> THEN {x.tb : x \in AddApp(res.tb, r, 0, <<n, 0>>)}
    ELSE AddApps(res.tb, r, n)

\* What follows the attempt to add the rule itself: a rule for any application is
\* also added for the second lookup, unless an earlier one decides its key.
AfterFirst(res, r, n) ==
    IF ~res.added /\ ~ChecksApp(rules, res.exist) THEN {res.tb}
    ELSE IF r.apps = << >> THEN {x.tb : x \in AddApp(res.tb, r, 0, <<n, 0>>)}
    ELSE AddApps(res.tb, r, n)

\* One rule of a message.  A rule for any protocol is added for one protocol after
\* the other with the same key variables: for a rule without applications key_h.app
\* may then still be what dpi_add_app_rule set for the protocol before (ahi = AnyApp).
\* The code of a FQDN rule, and the record it changes, are set before its key is looked
\* up (config_fqdn_ipv4_mapping): snap is what the lookup sees, and CopyConfig the change.
AddRule(r, ahi) ==
    /\ Len(rules) < MaxRules
    /\ ahi = 0 \/ r.apps = << >>
    /\ LET n == Len(rules) + 1
           tb == [exact |-> exact, list |-> list]
           first == IF Single(r) THEN AddExact(tb, Key(r, 0), <<n, 0>>)
                    ELSE AddRange(tb, Item(r, 0, ahi, <<n, 0>>))
       IN  \E t \in UNION {AfterFirst(res, r, n) : res \in first} :
             exact' = t.exact /\ list' = t.list
    /\ rules' = Append(rules, r)
    /\ seen' = seen \cup {snap}
    /\ UNCHANGED <<cfg, snap>>

\* Data thread 0 receives a packet and copies the configuration of that moment; or
\* an address is resolved by a DNS answer or by the rule that comes next, or a FQDN
\* record is changed or deleted, or the strict group mode is switched.
CopyConfig(v) ==
    /\ v # snap
    /\ Len(rules) < MaxRules
    /\ snap' = v
    /\ UNCHANGED <<cfg, rules, exact, list, seen>>

\* MSG_START: an empty table, for any configuration copied so far.
RInit ==
    /\ cfg \in Policies
    /\ snap \in Views
    /\ rules = << >>
    /\ exact = {}
    /\ list = << >>
    /\ seen = {}

RNext ==
    \/ \E r \in Rules, ahi \in {0, AnyApp} : AddRule(r, ahi)
    \/ \E v \in Views : CopyConfig(v)

RSpec == RInit /\ [][RNext]_rvars

-----------------------------------------------------------------------------
(* The reference: rules in the order of the message *)

\* The rule is about a packet whose peer has these names, its application aside.
Concerns(r, names, port) == names \cap (r.lo .. r.hi) # {} /\ port \in r.plo .. r.phi

\* The applications of the rule that the packet's application falls under.
AppsFor(r, app) == {i \in DOMAIN r.apps : r.apps[i] \in {0, app}}

Matches(r, names, port, app) ==
    Concerns(r, names, port) /\ (r.apps = << >> \/ AppsFor(r, app) # {})

\* The first rule that matches, as the agent matches a connection.
FirstMatch(names, port, app) ==
    LET n == SelectInSeq(rules, LAMBDA r : Matches(r, names, port, app))
    IN  IF n = 0 THEN Default
        ELSE IF rules[n].apps = << >> THEN <<n, 0>>
        ELSE <<n, Min(AppsFor(rules[n], app))>>

-----------------------------------------------------------------------------
(* Properties *)

Table == [exact |-> exact, list |-> list]

\* The rules were added under views that treat the packet's peer, and the names it
\* has in rules, as the view v does, and knew no record of it that v does not know.
StagedAlike(v, ip) ==
    \A s \in seen :
        /\ CodesOf(s, ip) \subseteq CodesOf(v, ip)
        /\ \A x \in Names(v, ip) : TableUsed(s, x, FALSE) /\ Internal(s, x) = Internal(v, ip)

\* No rule for the address alone comes after a rule for one of its virtual hosts.
Unblocked(rs, v, ip) ==
    \A m, n \in DOMAIN rs :
        n < m /\ Single(rs[m]) /\ rs[m].lo = ip
            => ~Concerns(rs[n], CodesOf(v, ip) \cap v.vh, rs[m].plo)

\* A table and its hash map decide every packet, in one lookup or more and with any
\* virtual host, as the first matching rule of the message does, when the peer is
\* treated as it was when the rules were added and no rule for its address alone comes
\* after one for its virtual hosts.  (Otherwise not: a policy received while data
\* thread 0 still holds the empty or the disabled configuration, or for an endpoint
\* with namespace boundary whose east-west traffic is not enforced, loses its order;
\* and dpi_rule_add drops the later rule for the address, so that a session with
\* another virtual host gets the default.)
FirstMatchDecides ==
    \A v \in Views, ip \in Peers :
        (\E nbe \in BOOLEAN : TableUsed(v, ip, nbe))
            /\ StagedAlike(v, ip) /\ Unblocked(rules, v, ip)
        => \A host \in SUBSET (CodesOf(v, ip) \cap v.vh),
              port \in Ports, app \in Apps \cup {AnyApp} :
             Decisions(Table, rules, v, ip, host, port, app) =
                 {FirstMatch(OwnNames(v, ip, host), port, app)}

\* Whatever the view the rules were added under, a packet is never decided by a rule
\* that does not match it (nor its virtual host), and never left with a rule that
\* still wants to check the application once that is known.
DecidedByAMatch ==
    \A v \in Views, ip \in Peers, port \in Ports, app \in Apps \cup {AnyApp} :
    \A host \in SUBSET (CodesOf(v, ip) \cap v.vh) :
    \A d \in Decisions(Table, rules, v, ip, host, port, app) :
        \/ d = Default
        \/ LET r == rules[d[1]] IN
             /\ Concerns(r, OwnNames(v, ip, host), port)
             /\ IF r.apps = << >> THEN d[2] = 0 ELSE d[2] \in AppsFor(r, app)

\* A range rule for any application is never lost: a packet it matches is decided
\* by some rule, under whatever view the rules were added.
RangeRuleNeverLost ==
    \A v \in Views, ip \in Peers, port \in Ports, app \in Apps \cup {AnyApp} :
    \A host \in SUBSET (CodesOf(v, ip) \cap v.vh) :
        (\E i \in DOMAIN rules : /\ ~Single(rules[i]) /\ rules[i].apps = << >>
                                 /\ Concerns(rules[i], OwnNames(v, ip, host), port))
        => Default \notin Decisions(Table, rules, v, ip, host, port, app)
=============================================================================
