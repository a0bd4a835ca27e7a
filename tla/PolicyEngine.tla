--------------------------- MODULE PolicyEngine ---------------------------
(***************************************************************************)
(* The controller's policy engine (internal/controller/policy/policy.go):  *)
(* the rule table, the evaluation order derived from it, and MatchPolicy,  *)
(* which returns the first enabled rule of that order that matches a flow. *)
(* Every exported operation runs under Engine.mutex, so one operation is   *)
(* one action; what the recursive read lock inside MatchPolicy can do to   *)
(* the callers is the subject of module PolicyLock.                        *)
(***************************************************************************)
EXTENDS Integers, Sequences, FiniteSets

CONSTANTS
    RuleIds,     \* the non-zero rule IDs that requests may carry
    Groups,      \* group names of flows
    Any,         \* the group name "any"
    Apps,        \* application IDs; 0 in a rule's list means any application
    RuleBodies   \* the rule bodies that requests may carry

\* types.go:11-20, controller.PolicyAction
ActionAllow == 1
ActionDeny == 2
ActionViolate == 3

Modes == {"Monitor", "Protect"}

\* controller.PolicyRule without its ID (the table's key) and without Ports:
\* matchPort accepts every port, so no verdict depends on them.
Rule == [from: Groups \cup {Any}, to: Groups \cup {Any},
         apps: SUBSET (Apps \cup {0}), action: {"allow", "deny", "violate"},
         disable: BOOLEAN, priority: Nat]

Flow == [from: Groups, to: Groups, app: Apps]

ASSUME RuleIdsAssumption == RuleIds \subseteq Nat \ {0} /\ IsFiniteSet(RuleIds)
ASSUME RuleBodiesAssumption == RuleBodies \subseteq Rule
ASSUME AnyAssumption == Any \notin Groups

VARIABLES
    rules,       \* Engine.rules: rule ID -> rule, absent IDs outside DOMAIN
    ruleOrder,   \* Engine.ruleOrder
    groupModes,  \* Engine.groupModes: partial map, group name -> mode
    moved        \* history: IDs whose priority UpdateRule changed since the last sort

vars == <<rules, ruleOrder, groupModes, moved>>

-----------------------------------------------------------------------------
\* Mutant: the comparison forgotten, the IDs stay in map iteration order.
UnsortedOrders(rs) ==
    {s \in [1..Cardinality(DOMAIN rs) -> DOMAIN rs] :
        \A id \in DOMAIN rs : \E i \in DOMAIN s : s[i] = id}

\* updateRuleOrder collects the IDs in map iteration order and sorts them with
\* the unstable sort.Slice: any enumeration sorted by priority may come out.
SortedOrders(rs) ==
    {s \in [1..Cardinality(DOMAIN rs) -> DOMAIN rs] :
        /\ \A id \in DOMAIN rs : \E i \in DOMAIN s : s[i] = id
        /\ \A i, j \in DOMAIN s : i # j => s[i] # s[j]
        /\ \A i, j \in DOMAIN s : i < j => rs[s[i]].priority <= rs[s[j]].priority}

updateRuleOrder(rs) ==
    /\ ruleOrder' \in SortedOrders(rs)
    /\ moved' = {}

Put(rs, id, r) == [x \in DOMAIN rs \cup {id} |-> IF x = id THEN r ELSE rs[x]]

Drop(rs, id) == [x \in DOMAIN rs \ {id} |-> rs[x]]

\* Mutant: AddRule without its check for ID 0.
AddRuleUnchecked(id, r) ==
    /\ rules' = Put(rules, id, r)
    /\ updateRuleOrder(rules')
    /\ UNCHANGED groupModes

\* AddRule rejects ID 0; an ID already present is overwritten.
AddRule(id, r) ==
    /\ id # 0
    /\ rules' = Put(rules, id, r)
    /\ updateRuleOrder(rules')
    /\ UNCHANGED groupModes

\* UpdateRule replaces the rule and leaves ruleOrder as it is.
UpdateRule(id, r) ==
    /\ id \in DOMAIN rules
    /\ rules' = Put(rules, id, r)
    /\ moved' = IF r.priority = rules[id].priority THEN moved ELSE moved \cup {id}
    /\ UNCHANGED <<ruleOrder, groupModes>>

\* Mutant: DeleteRule forgets to rebuild the order.
DeleteRuleKeepsOrder(id) ==
    /\ id \in DOMAIN rules
    /\ rules' = Drop(rules, id)
    /\ UNCHANGED <<ruleOrder, groupModes, moved>>

DeleteRule(id) ==
    /\ id \in DOMAIN rules
    /\ rules' = Drop(rules, id)
    /\ updateRuleOrder(rules')
    /\ UNCHANGED groupModes

SetGroupMode(g, m) ==
    /\ groupModes' = [x \in DOMAIN groupModes \cup {g} |->
                        IF x = g THEN m ELSE groupModes[x]]
    /\ UNCHANGED <<rules, ruleOrder, moved>>

-----------------------------------------------------------------------------
GetGroupMode(g) == IF g \in DOMAIN groupModes THEN groupModes[g] ELSE "Monitor"

getDefaultAction(g) ==
    IF GetGroupMode(g) = "Protect" THEN ActionDeny ELSE ActionViolate

actionFromString(a) ==
    IF a = "allow" THEN ActionAllow
    ELSE IF a = "deny" THEN ActionDeny
    ELSE ActionViolate

matchApp(apps, app) == app \in apps \/ 0 \in apps

\* The conditions of MatchPolicy's loop body; an empty Applications list matches.
RuleMatches(r, f) ==
    /\ ~r.disable
    /\ r.from = f.from \/ r.from = Any
    /\ r.to = f.to \/ r.to = Any
    /\ r.apps # {} => matchApp(r.apps, f.app)

Hits(f) == {i \in DOMAIN ruleOrder : RuleMatches(rules[ruleOrder[i]], f)}

FirstHit(f) == CHOOSE i \in Hits(f) : \A j \in Hits(f) : i <= j

\* The rule ID and the action MatchPolicy returns; ID 0 says that no rule matched.
MatchPolicy(f) ==
    IF Hits(f) = {}
    THEN <<0, getDefaultAction(f.to)>>
    ELSE LET id == ruleOrder[FirstHit(f)]
         IN <<id, actionFromString(rules[id].action)>>

-----------------------------------------------------------------------------
Init ==
    /\ rules = << >>
    /\ ruleOrder = << >>
    /\ groupModes = << >>
    /\ moved = {}

Next ==
    \/ \E id \in RuleIds \cup {0}, r \in RuleBodies : AddRule(id, r)
    \/ \E id \in RuleIds, r \in RuleBodies : UpdateRule(id, r)
    \/ \E id \in RuleIds : DeleteRule(id)
    \/ \E g \in Groups, m \in Modes : SetGroupMode(g, m)

Spec == Init /\ [][Next]_vars

-----------------------------------------------------------------------------
(* Properties *)

\* Type invariant: rules and groupModes are partial maps, ruleOrder a list of IDs.
TypeOK ==
    /\ DOMAIN rules \subseteq RuleIds
    /\ rules \in [DOMAIN rules -> Rule]
    /\ ruleOrder \in Seq(RuleIds)
    /\ DOMAIN groupModes \subseteq Groups
    /\ groupModes \in [DOMAIN groupModes -> Modes]
    /\ moved \subseteq RuleIds

\* ruleOrder lists every stored rule exactly once and nothing else: MatchPolicy
\* dereferences rules[id] for each listed ID without checking that it is there,
\* and a stored rule that is not listed would never be evaluated.
OrderIsEnumeration ==
    /\ \A i \in DOMAIN ruleOrder : ruleOrder[i] \in DOMAIN rules
    /\ \A id \in DOMAIN rules : \E i \in DOMAIN ruleOrder : ruleOrder[i] = id
    /\ \A i, j \in DOMAIN ruleOrder : i # j => ruleOrder[i] # ruleOrder[j]

\* The rules whose priority was not changed in place are in priority order: an
\* UpdateRule that keeps the priority never disturbs the order.
SortedExceptMoved ==
    \A i, j \in DOMAIN ruleOrder :
        (i < j /\ ruleOrder[i] \notin moved /\ ruleOrder[j] \notin moved)
            => rules[ruleOrder[i]].priority <= rules[ruleOrder[j]].priority

\* What MatchPolicy promises, stated on the table alone: among the enabled rules
\* that match, one of the best (lowest) priority decides.
Candidates(f) == {id \in DOMAIN rules : RuleMatches(rules[id], f)}

Best(f) == {id \in Candidates(f) :
              \A o \in Candidates(f) : rules[id].priority <= rules[o].priority}

PriorityDecides(f) ==
    IF Candidates(f) = {}
    THEN MatchPolicy(f) = <<0, getDefaultAction(f.to)>>
    ELSE \E id \in Best(f) : MatchPolicy(f) = <<id, actionFromString(rules[id].action)>>

\* policy.go:116 sorts the rules by priority: every verdict is the one the stored
\* priorities call for, as long as no priority was changed in place since the last
\* sort (UpdateRule does not sort).
VerdictByPriorityUnlessMoved == moved = {} => \A f \in Flow : PriorityDecides(f)

\* Rule ID 0 in a verdict means that no rule matched, and only that: callers
\* tell the default action from a rule's action by it (AddRule refuses ID 0).
ZeroMeansNoRule == \A f \in Flow : MatchPolicy(f)[1] = 0 <=> Candidates(f) = {}
=============================================================================
