------------------------ MODULE PolicyEngineProofs ------------------------
(***************************************************************************)
(* Proofs about PolicyEngine, for every set of rule IDs, groups and rule   *)
(* bodies.  The inductive invariant is the conjunction of the type         *)
(* invariant, the fact that ruleOrder enumerates the table, and the fact   *)
(* that it is sorted except for rules re-prioritised in place.  The last   *)
(* part is about PolicyLock, the mutex under which the engine runs.        *)
(***************************************************************************)
EXTENDS PolicyEngine, PolicyLock, LeastElement, FiniteSetTheorems, TLAPS

\* The inductive invariant of the rule table and its evaluation order.
IInv == TypeOK /\ OrderIsEnumeration /\ SortedExceptMoved

\* What updateRuleOrder leaves behind: a list of rule IDs that enumerates the new
\* table without repetition and in priority order.
LEMMA SortedOrdersFacts ==
    ASSUME NEW rs, DOMAIN rs \subseteq RuleIds, NEW s \in SortedOrders(rs)
    PROVE  /\ s \in Seq(RuleIds)
           /\ \A i \in DOMAIN s : s[i] \in DOMAIN rs
           /\ \A id \in DOMAIN rs : \E i \in DOMAIN s : s[i] = id
           /\ \A i, j \in DOMAIN s : i # j => s[i] # s[j]
           /\ \A i, j \in DOMAIN s : i < j => rs[s[i]].priority <= rs[s[j]].priority
<1>1. Cardinality(DOMAIN rs) \in Nat
  BY FS_Subset, FS_CardinalityType, RuleIdsAssumption
<1>2. s \in [1..Cardinality(DOMAIN rs) -> DOMAIN rs]
  BY DEF SortedOrders
<1>3. s \in [1..Cardinality(DOMAIN rs) -> RuleIds]
  BY <1>2
<1>4. s \in Seq(RuleIds)
  BY <1>1, <1>3
<1> QED BY <1>2, <1>4 DEF SortedOrders

\* Every state of the engine satisfies the inductive invariant: ruleOrder
\* enumerates the table exactly and is sorted but for rules re-prioritised in place.
THEOREM Invariance == Spec => []IInv
<1>1. Init => IInv
  BY DEF Init, IInv, TypeOK, OrderIsEnumeration, SortedExceptMoved
<1>2. IInv /\ [Next]_vars => IInv'
  <2> SUFFICES ASSUME IInv, [Next]_vars PROVE IInv'
    OBVIOUS
  <2> USE DEF IInv
  <2>1. CASE \E id \in RuleIds \cup {0}, r \in RuleBodies : AddRule(id, r)
    <3>1. PICK id \in RuleIds \cup {0}, r \in RuleBodies : AddRule(id, r)
      BY <2>1
    <3>2. id \in RuleIds /\ r \in Rule
      BY <3>1, RuleBodiesAssumption DEF AddRule
    <3>3. /\ DOMAIN rules' \subseteq RuleIds
          /\ rules' \in [DOMAIN rules' -> Rule]
      BY <3>1, <3>2 DEF AddRule, Put, TypeOK
    <3>4. ruleOrder' \in SortedOrders(rules') /\ moved' = {}
      BY <3>1 DEF AddRule, updateRuleOrder
    <3>5. UNCHANGED groupModes
      BY <3>1 DEF AddRule
    <3>6. TypeOK'
      BY <3>3, <3>4, <3>5, SortedOrdersFacts DEF TypeOK
    <3>7. OrderIsEnumeration'
      BY <3>3, <3>4, SortedOrdersFacts DEF OrderIsEnumeration
    <3>8. SortedExceptMoved'
      BY <3>3, <3>4, SortedOrdersFacts DEF SortedExceptMoved
    <3> QED BY <3>6, <3>7, <3>8
  <2>2. CASE \E id \in RuleIds, r \in RuleBodies : UpdateRule(id, r)
    <3>1. PICK id \in RuleIds, r \in RuleBodies : UpdateRule(id, r)
      BY <2>2
    <3>2. r \in Rule /\ id \in DOMAIN rules
      BY <3>1, RuleBodiesAssumption DEF UpdateRule
    <3>3. /\ DOMAIN rules' = DOMAIN rules
          /\ rules' \in [DOMAIN rules' -> Rule]
          /\ rules'[id] = r
          /\ \A x \in DOMAIN rules \ {id} : rules'[x] = rules[x]
      BY <3>1, <3>2 DEF UpdateRule, Put, TypeOK
    <3>4. UNCHANGED <<ruleOrder, groupModes>>
      BY <3>1 DEF UpdateRule
    <3>5. /\ moved \subseteq moved'
          /\ moved' \subseteq RuleIds
          /\ id \notin moved' => r.priority = rules[id].priority
      BY <3>1 DEF UpdateRule, TypeOK
    <3>6. TypeOK'
      BY <3>3, <3>4, <3>5 DEF TypeOK
    <3>7. OrderIsEnumeration'
      BY <3>3, <3>4 DEF OrderIsEnumeration
    <3>8. SortedExceptMoved'
      <4>1. \A x \in DOMAIN rules \ moved' : rules'[x].priority = rules[x].priority
        BY <3>3, <3>5
      <4> QED BY <3>4, <3>5, <4>1 DEF SortedExceptMoved, OrderIsEnumeration
    <3> QED BY <3>6, <3>7, <3>8
  <2>3. CASE \E id \in RuleIds : DeleteRule(id)
    <3>1. PICK id \in RuleIds : DeleteRule(id)
      BY <2>3
    <3>3. /\ DOMAIN rules' \subseteq RuleIds
          /\ rules' \in [DOMAIN rules' -> Rule]
      BY <3>1 DEF DeleteRule, Drop, TypeOK
    <3>4. ruleOrder' \in SortedOrders(rules') /\ moved' = {}
      BY <3>1 DEF DeleteRule, updateRuleOrder
    <3>5. UNCHANGED groupModes
      BY <3>1 DEF DeleteRule
    <3>6. TypeOK'
      BY <3>3, <3>4, <3>5, SortedOrdersFacts DEF TypeOK
    <3>7. OrderIsEnumeration'
      BY <3>3, <3>4, SortedOrdersFacts DEF OrderIsEnumeration
    <3>8. SortedExceptMoved'
      BY <3>3, <3>4, SortedOrdersFacts DEF SortedExceptMoved
    <3> QED BY <3>6, <3>7, <3>8
  <2>4. CASE \E g \in Groups, m \in Modes : SetGroupMode(g, m)
    <3>1. PICK g \in Groups, m \in Modes : SetGroupMode(g, m)
      BY <2>4
    <3>2. UNCHANGED <<rules, ruleOrder, moved>>
      BY <3>1 DEF SetGroupMode
    <3>3. /\ DOMAIN groupModes' \subseteq Groups
          /\ groupModes' \in [DOMAIN groupModes' -> Modes]
      BY <3>1 DEF SetGroupMode, TypeOK
    <3> QED BY <3>2, <3>3 DEF TypeOK, OrderIsEnumeration, SortedExceptMoved
  <2>5. CASE UNCHANGED vars
    BY <2>5 DEF vars, TypeOK, OrderIsEnumeration, SortedExceptMoved
  <2> QED BY <2>1, <2>2, <2>3, <2>4, <2>5 DEF Next
<1> QED BY <1>1, <1>2, PTL DEF Spec

\* The type invariant of the engine.
THEOREM TypeCorrect == Spec => []TypeOK
BY Invariance, PTL DEF IInv

\* MatchPolicy never meets a listed ID without a rule, and skips no stored rule.
THEOREM OrderEnumerates == Spec => []OrderIsEnumeration
BY Invariance, PTL DEF IInv

\* The indices that match are exactly those of the candidate rules, and the loop
\* stops at the least of them.
LEMMA FirstHitFacts ==
    ASSUME IInv, NEW f \in Flow
    PROVE  /\ Hits(f) = {} <=> Candidates(f) = {}
           /\ Hits(f) # {} => /\ FirstHit(f) \in Hits(f)
                              /\ \A j \in Hits(f) : FirstHit(f) <= j
                              /\ ruleOrder[FirstHit(f)] \in Candidates(f)
<1>1. \A i \in Hits(f) : ruleOrder[i] \in Candidates(f)
  BY DEF Hits, Candidates, IInv, OrderIsEnumeration
<1>2. \A id \in Candidates(f) : \E i \in Hits(f) : ruleOrder[i] = id
  BY DEF Hits, Candidates, IInv, OrderIsEnumeration
<1>3. Hits(f) \in SUBSET Nat
  BY DEF Hits, IInv, TypeOK
<1>4. Hits(f) # {} => \E x \in Hits(f) : \A y \in Hits(f) : x <= y
  BY <1>3, LeastNatural
<1>5. Hits(f) # {} => FirstHit(f) \in Hits(f) /\ \A j \in Hits(f) : FirstHit(f) <= j
  BY <1>4 DEF FirstHit
<1> QED BY <1>1, <1>2, <1>5

\* With the order intact, the first rule that matches is one of the best.
LEMMA FirstHitIsBest ==
    ASSUME IInv, moved = {}, NEW f \in Flow
    PROVE  PriorityDecides(f)
<1>1. CASE Candidates(f) = {}
  BY <1>1, FirstHitFacts DEF PriorityDecides, MatchPolicy
<1>2. CASE Candidates(f) # {}
  <2> DEFINE id == ruleOrder[FirstHit(f)]
  <2>1. /\ Hits(f) # {} /\ FirstHit(f) \in Hits(f)
        /\ \A j \in Hits(f) : FirstHit(f) <= j
        /\ id \in Candidates(f)
    BY <1>2, FirstHitFacts
  <2>2. MatchPolicy(f) = <<id, actionFromString(rules[id].action)>>
    BY <2>1 DEF MatchPolicy
  <2>3. \A o \in Candidates(f) : rules[id].priority <= rules[o].priority
    <3> SUFFICES ASSUME NEW o \in Candidates(f)
                 PROVE  rules[id].priority <= rules[o].priority
      OBVIOUS
    <3>1. PICK j \in Hits(f) : ruleOrder[j] = o
      BY DEF Hits, Candidates, IInv, OrderIsEnumeration
    <3>2. FirstHit(f) <= j
      BY <2>1
    <3>3. FirstHit(f) \in DOMAIN ruleOrder /\ j \in DOMAIN ruleOrder
      BY <2>1 DEF Hits
    <3>4. FirstHit(f) \in Int /\ j \in Int
      BY <3>3 DEF IInv, TypeOK
    <3>5. rules[id].priority \in Nat
      BY <2>1 DEF Candidates, IInv, TypeOK, Rule
    <3>6. CASE FirstHit(f) = j
      BY <3>1, <3>5, <3>6
    <3>7. CASE FirstHit(f) < j
      BY <3>1, <3>3, <3>7 DEF IInv, SortedExceptMoved
    <3> QED BY <3>2, <3>4, <3>6, <3>7
  <2>4. id \in Best(f)
    BY <2>1, <2>3 DEF Best
  <2> QED BY <1>2, <2>2, <2>4 DEF PriorityDecides
<1> QED BY <1>1, <1>2

\* Whenever no priority was changed in place since the last sort, the verdict of
\* every flow is decided by a best-priority rule among those that match.
THEOREM PriorityVerdict == Spec => []VerdictByPriorityUnlessMoved
<1>1. IInv => VerdictByPriorityUnlessMoved
  BY FirstHitIsBest DEF VerdictByPriorityUnlessMoved
<1> QED BY <1>1, Invariance, PTL

\* A verdict carries rule ID 0 exactly when no enabled rule matches.
THEOREM ZeroVerdict == Spec => []ZeroMeansNoRule
<1>1. IInv => ZeroMeansNoRule
  <2> SUFFICES ASSUME IInv, NEW f \in Flow
               PROVE  MatchPolicy(f)[1] = 0 <=> Candidates(f) = {}
    BY DEF ZeroMeansNoRule
  <2>1. CASE Candidates(f) = {}
    BY <2>1, FirstHitFacts DEF MatchPolicy
  <2>2. CASE Candidates(f) # {}
    <3>1. Hits(f) # {} /\ ruleOrder[FirstHit(f)] \in Candidates(f)
      BY <2>2, FirstHitFacts
    <3>2. ruleOrder[FirstHit(f)] # 0
      BY <3>1, RuleIdsAssumption DEF Candidates, IInv, TypeOK
    <3>3. MatchPolicy(f)[1] = ruleOrder[FirstHit(f)]
      BY <3>1 DEF MatchPolicy
    <3> QED BY <2>2, <3>2, <3>3
  <2> QED BY <2>1, <2>2
<1> QED BY <1>1, Invariance, PTL

-----------------------------------------------------------------------------
(* The mutex of the engine: PolicyLock for every set of goroutines. *)

\* What sync.RWMutex guarantees: only the announced writer writes, and then nobody
\* holds the read lock; a matcher waits for the inner read lock only behind an
\* announced writer.
LockInv ==
    /\ matcher \in [Matchers -> {"idle", "want", "match", "want2", "mode"}]
    /\ writer \in [Writers -> {"idle", "want", "write"}]
    /\ \A x \in Writers : writer[x] = "write" => announced = x /\ Readers = {}
    /\ announced # None => announced \in Writers /\ writer[announced] # "idle"
    /\ \A r \in Matchers : Caught(r) => announced # None

\* No step of a matcher or a writer breaks what the mutex guarantees, and none frees a
\* matcher whose inner RLock waits.
LEMMA LockStep ==
    ASSUME LockInv, [LNext]_lvars
    PROVE  LockInv' /\ CaughtStep
<1> USE WritersAssumption DEF LockInv, Readers, Caught, CaughtStep
<1>1. ASSUME NEW r \in Matchers, MatchPolicyRLock(r) PROVE LockInv' /\ CaughtStep
  BY <1>1 DEF MatchPolicyRLock, Open
<1>2. ASSUME NEW r \in Matchers, RuleFound(r) PROVE LockInv' /\ CaughtStep
  BY <1>2 DEF RuleFound
<1>3. ASSUME NEW r \in Matchers, GetGroupModeRLock(r) PROVE LockInv' /\ CaughtStep
  BY <1>3 DEF GetGroupModeRLock, Open
<1>4. ASSUME NEW r \in Matchers, ModeFound(r) PROVE LockInv' /\ CaughtStep
  BY <1>4 DEF ModeFound
<1>5. ASSUME NEW x \in Writers, WriterLock(x) PROVE LockInv' /\ CaughtStep
  BY <1>5 DEF WriterLock
<1>6. ASSUME NEW x \in Writers, WriterAnnounce(x) PROVE LockInv' /\ CaughtStep
  BY <1>6 DEF WriterAnnounce, Open
<1>7. ASSUME NEW x \in Writers, WriterEnter(x) PROVE LockInv' /\ CaughtStep
  BY <1>7 DEF WriterEnter
<1>8. ASSUME NEW x \in Writers, WriterUnlock(x) PROVE LockInv' /\ CaughtStep
  BY <1>8 DEF WriterUnlock
<1>9. CASE UNCHANGED lvars
  BY <1>9 DEF lvars
<1> QED BY <1>1, <1>2, <1>3, <1>4, <1>5, <1>6, <1>7, <1>8, <1>9 DEF LNext, Leave

\* The mutex is free at first.
LEMMA LockInit ==
    ASSUME LInit
    PROVE  LockInv
BY DEF LInit, LockInv, Readers, Caught

\* No verdict is computed while a writer changes the table or the modes, however many
\* matchers and writers there are (no writer has the name that stands for nobody).
THEOREM VerdictsNotTorn == LSpec => []NoTornVerdict
<1>1. LockInv => NoTornVerdict
  BY DEF LockInv, NoTornVerdict, Readers
<1> QED BY <1>1, LockInit, LockStep, PTL DEF LSpec

\* A matcher whose second RLock meets an announced writer never returns, and no rule
\* is changed from then on: the recursive read lock of MatchPolicy hangs for good.
THEOREM CaughtForever == LSpec => CaughtIsFinal
<1>1. LockInv /\ [LNext]_lvars => [CaughtStep]_lvars
  BY LockStep
<1> QED BY <1>1, LockInit, LockStep, PTL DEF LSpec, CaughtIsFinal
=============================================================================
