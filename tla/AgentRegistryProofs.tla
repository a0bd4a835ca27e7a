------------------------ MODULE AgentRegistryProofs ------------------------
(***************************************************************************)
(* Proofs about AgentRegistry, for every set of agents, every timeout and  *)
(* checker period and every number of crashes and failing calls.           *)
(***************************************************************************)
EXTENDS AgentRegistry, ServerShutdown, TLAPS

\* Since the checker's last tick, phase intervals ago, no online agent had been
\* silent for longer than Timeout: the strengthening that makes OnlineIsRecent
\* inductive.
RecentAtLastTick ==
    \A a \in Agents : status[a] = "online" => age[a] <= Timeout + phase

\* A controller that is down has no registry.
DownIsEmpty == ~up => \A a \in Agents : status[a] = "absent"

RInv == TypeOK /\ DownIsEmpty /\ RecentAtLastTick /\ OfflineIsSilent /\ EntryMatchesClient

\* The registry's inductive invariant holds in every reachable state.
THEOREM RegistryInvariant == Spec => []RInv
<1> USE TimesAssumption, BoundsAssumption DEF MaxAge, ClientStates
<1>1. Init => RInv
  BY DEF Init, RInv, TypeOK, DownIsEmpty, RecentAtLastTick, OfflineIsSilent, EntryMatchesClient
<1>2. RInv /\ [Next]_vars => RInv'
  <2> SUFFICES ASSUME RInv, [Next]_vars PROVE RInv'
    OBVIOUS
  <2> USE DEF RInv, TypeOK, DownIsEmpty, RecentAtLastTick, OfflineIsSilent, EntryMatchesClient
  <2>1. ASSUME NEW a \in Agents, AgentStart(a) PROVE RInv'
    BY <2>1 DEF AgentStart, Register
  <2>2. ASSUME NEW a \in Agents, AgentStartFails(a) PROVE RInv'
    <3>1. CASE ~up /\ UNCHANGED <<status, age, failures>>
      BY <2>2, <3>1 DEF AgentStartFails
    <3>2. CASE up /\ failures < MaxFailures /\ failures' = failures + 1 /\ Register(a)
      BY <2>2, <3>2 DEF AgentStartFails, Register
    <3>3. CASE /\ up /\ failures < MaxFailures /\ failures' = failures + 1
               /\ UNCHANGED <<status, age>>
      BY <2>2, <3>3 DEF AgentStartFails
    <3> QED BY <2>2, <3>1, <3>2, <3>3 DEF AgentStartFails
  <2>3. ASSUME NEW a \in Agents, AgentDies(a) PROVE RInv'
    BY <2>3 DEF AgentDies
  <2>4. ASSUME NEW a \in Agents, sendHeartbeat(a) PROVE RInv'
    <3>1. CASE status[a] = "absent"
      BY <2>4, <3>1 DEF sendHeartbeat, Heartbeat
    <3>2. CASE status[a] # "absent"
      BY <2>4, <3>2 DEF sendHeartbeat, Heartbeat
    <3> QED BY <3>1, <3>2
  <2>5. ASSUME NEW a \in Agents, sendHeartbeatFails(a) PROVE RInv'
    BY <2>5 DEF sendHeartbeatFails
  <2>6. CASE checkAgentTimeout
    BY <2>6 DEF checkAgentTimeout, TimedOut
  <2>7. CASE Tick
    <3>1. \A a \in Agents : /\ age'[a] \in 0..MaxAge
                            /\ age'[a] >= age[a]
                            /\ age'[a] <= age[a] + 1
      BY <2>7 DEF Tick
    <3>2. /\ UNCHANGED <<up, status, client, crashes, failures>>
          /\ due' \subseteq Agents
          /\ age' \in [Agents -> 0..MaxAge]
      BY <2>7, <3>1 DEF Tick
    <3>3. phase' \in 0..CheckPeriod /\ (up => phase' = phase + 1)
      BY <2>7 DEF Tick
    <3>4. TypeOK' /\ DownIsEmpty' /\ EntryMatchesClient'
      BY <3>2, <3>3
    <3>5. RecentAtLastTick'
      BY <3>1, <3>2, <3>3
    <3>6. OfflineIsSilent'
      BY <3>1, <3>2
    <3> QED BY <3>4, <3>5, <3>6
  <2>8. CASE ControllerCrash
    <3>1. \A a \in Agents : status'[a] = "absent" /\ age'[a] = 0
      BY <2>8 DEF ControllerCrash
    <3>2. TypeOK'
      <4>1. 0 \in 0..MaxAge /\ 0 \in 0..CheckPeriod
        OBVIOUS
      <4>2. age' \in [Agents -> 0..MaxAge] /\ phase' \in 0..CheckPeriod
        BY <2>8, <4>1 DEF ControllerCrash
      <4>3. crashes' \in 0..MaxCrashes
        BY <2>8 DEF ControllerCrash
      <4>4. status' \in [Agents -> {"absent", "online", "offline"}] /\ up' \in BOOLEAN
        BY <2>8 DEF ControllerCrash
      <4> QED BY <2>8, <4>2, <4>3, <4>4 DEF ControllerCrash
    <3>3. crashes' # 0
      BY <2>8 DEF ControllerCrash
    <3> QED BY <3>1, <3>2, <3>3
  <2>9. CASE ControllerStart
    BY <2>9 DEF ControllerStart
  <2>10. CASE UNCHANGED vars
    BY <2>10 DEF vars
  <2> QED BY <2>1, <2>2, <2>3, <2>4, <2>5, <2>6, <2>7, <2>8, <2>9, <2>10 DEF Next
<1> QED BY <1>1, <1>2, PTL DEF Spec

\* No agent is shown online that has been silent for longer than the timeout plus
\* one period of the checker.
THEOREM OnlineRecent == Spec => []OnlineIsRecent
<1>1. RInv => OnlineIsRecent
  BY TimesAssumption DEF RInv, TypeOK, RecentAtLastTick, OnlineIsRecent, MaxAge
<1> QED BY <1>1, RegistryInvariant, PTL

\* No agent is shown offline that was heard from within the timeout.
THEOREM OfflineSilent == Spec => []OfflineIsSilent
BY RegistryInvariant, PTL DEF RInv

\* Only agents that started have an entry, and an agent that beats to a controller
\* that never crashed has one: no heartbeat of such an agent is answered "not found".
THEOREM EntriesMatchClients == Spec => []EntryMatchesClient
BY RegistryInvariant, PTL DEF RInv

-----------------------------------------------------------------------------
(* The shutdown of the same server: ServerShutdown for every set of calls. *)

\* Once Stop has the mutex the server takes no calls, and once it has returned none
\* is left: the closing of the listener is what makes the second part inductive.
Drained ==
    /\ call \in [Calls -> {"none", "entered", "locked"}]
    /\ stop \in {"draining", "returned"} => serving = FALSE
    /\ StoppedMeansDrained

\* When Stop has returned no call is being served any more, whatever number of calls
\* was in flight and whichever of them wait for the mutex.
THEOREM StopDrains == SSpec => []StoppedMeansDrained
<1>1. SInit => Drained
  BY DEF SInit, Drained, StoppedMeansDrained
<1>2. Drained /\ [SNext]_svars => Drained'
  <2> SUFFICES ASSUME Drained, [SNext]_svars PROVE Drained'
    OBVIOUS
  <2> USE DEF Drained, StoppedMeansDrained
  <2>1. ASSUME NEW c \in Calls, CallArrives(c) PROVE Drained'
    BY <2>1 DEF CallArrives
  <2>2. ASSUME NEW c \in Calls, CallLocks(c) PROVE Drained'
    BY <2>2 DEF CallLocks
  <2>3. ASSUME NEW c \in Calls, CallReturns(c) PROVE Drained'
    BY <2>3 DEF CallReturns
  <2>4. CASE Stop
    BY <2>4 DEF Stop
  <2>5. CASE StopLocks
    BY <2>5 DEF StopLocks
  <2>6. CASE StopReturns
    BY <2>6 DEF StopReturns
  <2>7. CASE CheckerReads \/ CheckerLocks \/ CheckerUnlocks
    BY <2>7 DEF CheckerReads, CheckerLocks, CheckerUnlocks
  <2>8. CASE UNCHANGED svars
    BY <2>8 DEF svars
  <2> QED BY <2>1, <2>2, <2>3, <2>4, <2>5, <2>6, <2>7, <2>8 DEF SNext
<1>3. Drained => StoppedMeansDrained
  BY DEF Drained
<1> QED BY <1>1, <1>2, <1>3, PTL DEF SSpec

\* Who holds Server.mutex: the call, Stop or the checker that took it, and nobody else.
MutexHeld ==
    /\ call \in [Calls -> {"none", "entered", "locked"}]
    /\ \A c \in Calls : call[c] = "locked" => lock = c
    /\ stop = "draining" => lock = "stop"
    /\ checker = "check" => lock = "checker"

\* Every step of the server respects the mutex, and none frees a Stop that waits for a
\* Register or Heartbeat which in turn waits for Stop's mutex.
LEMMA MutexStep ==
    ASSUME MutexHeld, [SNext]_svars
    PROVE  MutexHeld' /\ (Caught => Caught')
<1> USE CallsAssumption, HolderAssumption DEF MutexHeld, Caught
<1>1. ASSUME NEW c \in Calls, CallArrives(c)
      PROVE  MutexHeld' /\ (Caught => Caught')
  BY <1>1 DEF CallArrives
<1>2. ASSUME NEW c \in Calls, CallLocks(c)
      PROVE  MutexHeld' /\ (Caught => Caught')
  BY <1>2 DEF CallLocks
<1>3. ASSUME NEW c \in Calls, CallReturns(c)
      PROVE  MutexHeld' /\ (Caught => Caught')
  BY <1>3 DEF CallReturns
<1>4. CASE Stop
  BY <1>4 DEF Stop
<1>5. CASE StopLocks
  BY <1>5 DEF StopLocks
<1>6. CASE StopReturns
  BY <1>6 DEF StopReturns
<1>7. CASE CheckerReads \/ CheckerLocks \/ CheckerUnlocks
  BY <1>7 DEF CheckerReads, CheckerLocks, CheckerUnlocks
<1>8. CASE UNCHANGED svars
  BY <1>8 DEF svars
<1> QED BY <1>1, <1>2, <1>3, <1>4, <1>5, <1>6, <1>7, <1>8 DEF SNext

\* Once Stop holds the mutex while a Register or Heartbeat has entered without it, that
\* stays so for ever: GracefulStop under Server.mutex never returns.
THEOREM CaughtStopHangs == SSpec => [](Caught => []Caught)
<1>1. SInit => MutexHeld
  BY DEF SInit, MutexHeld
<1>2. MutexHeld /\ [SNext]_svars => MutexHeld' /\ (Caught => Caught')
  BY MutexStep
<1> QED BY <1>1, <1>2, PTL DEF SSpec
=============================================================================
