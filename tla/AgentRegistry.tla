--------------------------- MODULE AgentRegistry ---------------------------
(***************************************************************************)
(* How the controller knows which agents are alive: Register, Heartbeat    *)
(* and the timeout checker of the gRPC server (controller/grpc/server.go)  *)
(* composed with the life of each agent's client (agent/grpc/client.go,    *)
(* started once by engine.Start in agent/engine/engine.go), controller     *)
(* crashes and failing calls.  An agent ID is drawn anew for each agent    *)
(* process (cmd/agent/main.go), so a restarted agent is another agent.     *)
(*                                                                         *)
(* Time is counted in heartbeat intervals (10 s): every beating client     *)
(* makes one attempt per interval, the checker runs every CheckPeriod      *)
(* intervals, and calls (5 s deadline) end within the interval.            *)
(***************************************************************************)
EXTENDS Naturals

CONSTANTS
    Agents,       \* agent IDs
    Timeout,      \* 60 s
    CheckPeriod,  \* 30 s
    MaxCrashes,   \* bound on controller crashes
    MaxFailures   \* bound on failing calls while the controller is up

ASSUME TimesAssumption == Timeout \in Nat \ {0} /\ CheckPeriod \in Nat \ {0}
ASSUME BoundsAssumption == MaxCrashes \in Nat /\ MaxFailures \in Nat

\* Ages are counted up to one more than any online agent may reach.
MaxAge == Timeout + CheckPeriod + 1

VARIABLES
    up,        \* the controller process runs
    status,    \* Server.agents: "absent", or AgentState.Online
    age,       \* time since AgentState.LastSeen, saturating at MaxAge
    phase,     \* time since the checker's last tick
    client,    \* the agent's client: see ClientStates
    due,       \* agents whose heartbeat of this interval is outstanding
    crashes, failures

vars == <<up, status, age, phase, client, due, crashes, failures>>

\* off: agent not started; beating: registered, heartbeatLoop runs;
\* idle: started, but Connect or Register failed; dead: agent process gone.
ClientStates == {"off", "beating", "idle", "dead"}

-----------------------------------------------------------------------------
\* Mutant: the entry is created by the first heartbeat, not by Register.
RegisterNothing(a) == UNCHANGED <<status, age>>

\* Register of the server: a fresh AgentState.
Register(a) ==
    /\ status' = [status EXCEPT ![a] = "online"]
    /\ age' = [age EXCEPT ![a] = 0]

\* Mutant: a heartbeat of an agent marked offline is ignored.
HeartbeatOnlineOnly(a) ==
    IF status[a] = "online"
    THEN age' = [age EXCEPT ![a] = 0] /\ UNCHANGED status
    ELSE UNCHANGED <<status, age>>

\* Heartbeat of the server: an unknown agent is ignored, with success returned.
Heartbeat(a) ==
    IF status[a] # "absent"
    THEN /\ status' = [status EXCEPT ![a] = "online"]
         /\ age' = [age EXCEPT ![a] = 0]
    ELSE UNCHANGED <<status, age>>

\* Mutant: silence is measured against twice the timeout.
LateTimeout(a) == status[a] = "online" /\ age[a] > 2 * Timeout

\* Mutant: the checker forgets to look at LastSeen.
TimedOutAlways(a) == status[a] = "online"

TimedOut(a) == status[a] = "online" /\ age[a] > Timeout

\* Mutant: the checker finds nobody.
CheckNothing ==
    /\ up /\ phase = CheckPeriod
    /\ phase' = 0
    /\ UNCHANGED <<up, status, age, client, due, crashes, failures>>

\* checkAgentTimeout, run by agentTimeoutChecker at each tick.
checkAgentTimeout ==
    /\ up /\ phase = CheckPeriod
    /\ status' = [a \in Agents |-> IF TimedOut(a) THEN "offline" ELSE status[a]]
    /\ phase' = 0
    /\ UNCHANGED <<up, age, client, due, crashes, failures>>

-----------------------------------------------------------------------------
\* engine.Start: Connect, then Register, then heartbeatLoop.
AgentStart(a) ==
    /\ client[a] = "off" /\ up
    /\ client' = [client EXCEPT ![a] = "beating"]
    /\ Register(a)
    /\ UNCHANGED <<up, phase, due, crashes, failures>>

\* Connect or Register fails; the engine logs it and goes on without a retry.
\* A Register whose answer is lost has still been executed by the server.
AgentStartFails(a) ==
    /\ client[a] = "off"
    /\ client' = [client EXCEPT ![a] = "idle"]
    /\ \/ ~up /\ UNCHANGED <<status, age, failures>>
       \/ /\ up /\ failures < MaxFailures
          /\ failures' = failures + 1
          /\ Register(a) \/ UNCHANGED <<status, age>>
    /\ UNCHANGED <<up, phase, due, crashes>>

\* sendHeartbeat, answered by the server.
sendHeartbeat(a) ==
    /\ a \in due /\ client[a] = "beating" /\ up
    /\ due' = due \ {a}
    /\ Heartbeat(a)
    /\ UNCHANGED <<up, phase, client, crashes, failures>>

\* sendHeartbeat fails: a warning is logged, the loop goes on.
sendHeartbeatFails(a) ==
    /\ a \in due /\ client[a] = "beating"
    /\ due' = due \ {a}
    /\ \/ ~up /\ UNCHANGED failures
       \/ up /\ failures < MaxFailures /\ failures' = failures + 1
    /\ UNCHANGED <<up, status, age, phase, client, crashes>>

\* The agent process ends; the server is not told.
AgentDies(a) ==
    /\ client[a] \in {"beating", "idle"}
    /\ client' = [client EXCEPT ![a] = "dead"]
    /\ due' = due \ {a}
    /\ UNCHANGED <<up, status, age, phase, crashes, failures>>

\* The controller keeps its registry in memory only.
ControllerCrash ==
    /\ up /\ crashes < MaxCrashes
    /\ crashes' = crashes + 1
    /\ up' = FALSE
    /\ status' = [a \in Agents |-> "absent"]
    /\ age' = [a \in Agents |-> 0]
    /\ phase' = 0
    /\ UNCHANGED <<client, due, failures>>

ControllerStart ==
    /\ ~up
    /\ up' = TRUE
    /\ UNCHANGED <<status, age, phase, client, due, crashes, failures>>

\* One heartbeat interval passes; tickers that are due have fired before.
Tick ==
    /\ due = {}
    /\ up => phase < CheckPeriod
    /\ age' = [a \in Agents |->
                 IF status[a] = "absent" \/ age[a] = MaxAge THEN age[a] ELSE age[a] + 1]
    /\ phase' = IF up THEN phase + 1 ELSE phase
    /\ due' = {a \in Agents : client[a] = "beating"}
    /\ UNCHANGED <<up, status, client, crashes, failures>>

-----------------------------------------------------------------------------
Init ==
    /\ up \in BOOLEAN  \* agents may start before the controller
    /\ status = [a \in Agents |-> "absent"]
    /\ age = [a \in Agents |-> 0]
    /\ phase = 0
    /\ client = [a \in Agents |-> "off"]
    /\ due = {}
    /\ crashes = 0 /\ failures = 0

Next ==
    \/ \E a \in Agents :
         \/ AgentStart(a) \/ AgentStartFails(a) \/ AgentDies(a)
         \/ sendHeartbeat(a) \/ sendHeartbeatFails(a)
    \/ checkAgentTimeout \/ Tick \/ ControllerCrash \/ ControllerStart

\* The tickers of the running processes fire and their bodies complete.
Fairness ==
    /\ WF_vars(Tick)
    /\ WF_vars(checkAgentTimeout)
    /\ \A a \in Agents : WF_vars(sendHeartbeat(a) \/ sendHeartbeatFails(a))

Spec == Init /\ [][Next]_vars
FairSpec == Spec /\ Fairness

-----------------------------------------------------------------------------
(* Properties *)

\* Type invariant.
TypeOK ==
    /\ up \in BOOLEAN
    /\ status \in [Agents -> {"absent", "online", "offline"}]
    /\ age \in [Agents -> 0..MaxAge]
    /\ phase \in 0..CheckPeriod
    /\ client \in [Agents -> ClientStates]
    /\ due \subseteq Agents
    /\ crashes \in 0..MaxCrashes
    /\ failures \in 0..MaxFailures

\* An agent shown online was heard from at most Timeout + CheckPeriod ago: the
\* 30 s checker and the 60 s timeout together bound how stale "online" can be.
OnlineIsRecent ==
    \A a \in Agents : status[a] = "online" => age[a] <= Timeout + CheckPeriod

\* An agent shown offline has been silent for longer than the timeout; a beat
\* that arrives just before the checker runs is never overridden by it.
OfflineIsSilent ==
    \A a \in Agents : status[a] = "offline" => age[a] > Timeout

\* Only agents that started have an entry, and a client that beats to a
\* controller that never crashed has one.
EntryMatchesClient ==
    \A a \in Agents :
        /\ status[a] # "absent" => client[a] # "off"
        /\ (client[a] = "beating" /\ crashes = 0) => status[a] # "absent"

\* An agent that sends no heartbeats, because it died or because the answer to its
\* only Register was lost, does not stay online as long as the controller runs.
SilentAgentDetected ==
    \A a \in Agents : client[a] \in {"dead", "idle"} ~> status[a] # "online"

\* An agent whose heartbeat loop runs is shown online again, however many of its
\* beats were lost before, as long as the controller has not lost its registry.
OnlineAgainUnlessCrashed ==
    \A a \in Agents :
        (client[a] = "beating" /\ crashes = 0)
            ~> (status[a] = "online" \/ crashes > 0 \/ client[a] = "dead")
=============================================================================
