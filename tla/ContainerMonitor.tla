-------------------------- MODULE ContainerMonitor --------------------------
(***************************************************************************)
(* The agent's Docker monitor (agent/network/container_monitor.go): it     *)
(* lists the running containers once, then subscribes to Docker's event    *)
(* stream and turns start, stop and die events into captures, after asking *)
(* Docker about the container again.  The daemon runs concurrently; events *)
(* emitted while the monitor is not subscribed are not replayed, and a     *)
(* listing, an inspection or a capture that fails is not tried again.      *)
(*                                                                         *)
(* Module TCCapture has the details of a capture; here it is the process   *)
(* ID a captured container had, run numbers standing for process IDs.      *)
(***************************************************************************)
EXTENDS Naturals, Sequences

CONSTANTS
    Monitored,  \* container IDs that shouldSkipContainer does not skip
    MaxRuns,     \* bound on the runs of a container
    MaxGaps      \* bound on event stream errors

ASSUME BoundsAssumption == MaxRuns \in Nat \ {0} /\ MaxGaps \in Nat

VARIABLES
    docker,    \* Docker's view: container -> "stopped", "running" or "removed"
    run,       \* container -> number of its last run
    phase,     \* monitor: "list", "scan", "subscribe", "listen", "handle", "retry"
    scan,      \* listed containers still to be looked at
    events,    \* emitted and not yet received: sequence of [type, c]
    cur,       \* the event being handled, with the inspected process ID (0: none)
    captured,  \* TCTrafficCapture.containers: container -> process ID, 0 if absent
    missed,    \* history: containers one of whose starts or ends the monitor could not use
    gaps

dockerVars == <<docker, run>>
mvars == <<dockerVars, phase, scan, events, cur, captured, missed, gaps>>

NoEvent == [type |-> "none", c |-> "none", pid |-> 0]

\* inspect.State.Pid
Pid(c) == IF docker[c] = "running" THEN run[c] ELSE 0

-----------------------------------------------------------------------------
(* The Docker daemon *)

\* What becomes of the events es of container c; a change before the listing is
\* seen by the listing.
Emit(c, es) ==
    /\ events' = IF phase \in {"listen", "handle"}
                 THEN events \o [k \in DOMAIN es |-> [type |-> es[k], c |-> c]]
                 ELSE events
    /\ missed' = IF phase \in {"scan", "subscribe", "retry"} THEN missed \cup {c} ELSE missed

DockerStart(c) ==
    /\ docker[c] = "stopped" /\ run[c] < MaxRuns
    /\ docker' = [docker EXCEPT ![c] = "running"]
    /\ run' = [run EXCEPT ![c] = @ + 1]
    /\ Emit(c, <<"start">>)
    /\ UNCHANGED <<phase, scan, cur, captured, gaps>>

\* The process ends by itself or by docker stop.
DockerStop(c) ==
    /\ docker[c] = "running"
    /\ docker' = [docker EXCEPT ![c] = "stopped"]
    /\ Emit(c, <<"die">>) \/ Emit(c, <<"die", "stop">>)
    /\ UNCHANGED <<run, phase, scan, cur, captured, gaps>>

\* docker rm, or a container run with --rm; the destroy event is filtered out.
DockerRemove(c) ==
    /\ docker[c] = "stopped"
    /\ docker' = [docker EXCEPT ![c] = "removed"]
    /\ UNCHANGED <<run, phase, scan, events, cur, captured, missed, gaps>>

-----------------------------------------------------------------------------
(* The monitor *)

\* Mutant: the containers that run already are not listed.
ListNothing ==
    /\ phase = "list"
    /\ scan' = {}
    /\ phase' = "scan"
    /\ UNCHANGED <<dockerVars, events, cur, captured, missed, gaps>>

Running == {c \in Monitored : docker[c] = "running"}

\* monitorExistingContainers: ContainerList; when it fails, Start goes on without a scan.
monitorExistingContainers ==
    /\ phase = "list"
    /\ \/ scan' = Running /\ phase' = "scan" /\ UNCHANGED missed
       \/ missed' = missed \cup Running /\ phase' = "subscribe" /\ UNCHANGED scan
    /\ UNCHANGED <<dockerVars, events, cur, captured, gaps>>

\* StartContainerCapture returns early for a container it has; without a process
\* ID it is not called.
StartCapture(c, pid) ==
    captured' = [captured EXCEPT ![c] = IF pid = 0 \/ @ # 0 THEN @ ELSE pid]

\* For each listed container ContainerInspect and the capture; if one of them fails, the
\* container is passed over.
ScanContainer(c) ==
    /\ phase = "scan" /\ c \in scan
    /\ \/ StartCapture(c, Pid(c)) /\ UNCHANGED missed
       \/ missed' = missed \cup {c} /\ UNCHANGED captured
    /\ scan' = scan \ {c}
    /\ UNCHANGED <<dockerVars, phase, events, cur, gaps>>

ScanDone ==
    /\ phase = "scan" /\ scan = {}
    /\ phase' = "subscribe"
    /\ UNCHANGED <<dockerVars, scan, events, cur, captured, missed, gaps>>

\* client.Events: only events from now on, after Start and after an error.
Subscribe ==
    /\ phase \in {"subscribe", "retry"}
    /\ phase' = "listen"
    /\ UNCHANGED <<dockerVars, scan, events, cur, captured, missed, gaps>>

\* The stream breaks; what it still held is lost.
StreamError ==
    /\ phase = "listen" /\ gaps < MaxGaps
    /\ gaps' = gaps + 1
    /\ missed' = missed \cup {events[k].c : k \in DOMAIN events}
    /\ events' = << >>
    /\ phase' = "retry"
    /\ UNCHANGED <<dockerVars, scan, cur, captured>>

\* processDockerEvent looks at the container as it is now.  The inspection fails for a
\* container that Docker no longer knows, and may fail for any; the event is dropped.
processDockerEvent ==
    /\ phase = "listen" /\ events # << >>
    /\ LET e == Head(events)
       IN \/ /\ missed' = missed \cup {e.c}
             /\ UNCHANGED <<cur, phase>>
          \/ /\ docker[e.c] # "removed"
             /\ cur' = [type |-> e.type, c |-> e.c, pid |-> Pid(e.c)]
             /\ phase' = "handle"
             /\ UNCHANGED missed
    /\ events' = Tail(events)
    /\ UNCHANGED <<dockerVars, scan, captured, gaps>>

\* Mutant: die is not handled, only stop.
handleStopOnly ==
    /\ phase = "handle"
    /\ \/ cur.type = "start" /\ StartCapture(cur.c, cur.pid) /\ UNCHANGED missed
       \/ cur.type = "stop" /\ captured' = [captured EXCEPT ![cur.c] = 0] /\ UNCHANGED missed
       \/ cur.type = "die" /\ UNCHANGED <<captured, missed>>
    /\ cur' = NoEvent
    /\ phase' = "listen"
    /\ UNCHANGED <<dockerVars, scan, events, gaps>>

\* StartContainerCapture returns an error: a run that still goes on stays uncaptured.
CaptureFails(c, pid) ==
    /\ pid # 0
    /\ missed' = IF pid = Pid(c) /\ captured[c] = 0 THEN missed \cup {c} ELSE missed
    /\ UNCHANGED captured

\* handleContainerEvent; an error is logged.  A container that was stopped has nothing
\* left to miss.
handleContainerEvent ==
    /\ phase = "handle"
    /\ \/ cur.type = "start" /\ StartCapture(cur.c, cur.pid) /\ UNCHANGED missed
       \/ cur.type = "start" /\ CaptureFails(cur.c, cur.pid)
       \/ /\ cur.type \in {"stop", "die"}
          /\ captured' = [captured EXCEPT ![cur.c] = 0]
          /\ missed' = missed \ {cur.c}
    /\ cur' = NoEvent
    /\ phase' = "listen"
    /\ UNCHANGED <<dockerVars, scan, events, gaps>>

-----------------------------------------------------------------------------
MInit ==
    /\ docker \in [Monitored -> {"stopped", "running"}]
    /\ run = [c \in Monitored |-> IF docker[c] = "running" THEN 1 ELSE 0]
    /\ phase = "list" /\ scan = {} /\ events = << >> /\ cur = NoEvent
    /\ captured = [c \in Monitored |-> 0]
    /\ missed = {} /\ gaps = 0

Monitor ==
    \/ monitorExistingContainers \/ (\E c \in Monitored : ScanContainer(c)) \/ ScanDone
    \/ Subscribe \/ processDockerEvent \/ handleContainerEvent

MNext ==
    \/ \E c \in Monitored : DockerStart(c) \/ DockerStop(c) \/ DockerRemove(c)
    \/ Monitor \/ StreamError

\* The monitor's goroutine runs and Docker answers.
MSpec == MInit /\ [][MNext]_mvars /\ WF_mvars(Monitor)

-----------------------------------------------------------------------------
(* Properties *)

\* The monitor and Docker agree about every container, process ID included, unless
\* an event of it is on its way, was missed, or met a failing inspection or capture:
\* stale start events, quick restarts and doubled stop events leave no wrong capture
\* behind, and the failures of one container never spoil another.
AgreesUnlessPending ==
    phase = "listen" =>
        \A c \in Monitored \ missed :
            captured[c] = Pid(c) \/ \E k \in DOMAIN events : events[k].c = c

\* A container none of whose starts and ends is missed for good ends up captured as it
\* runs; a failure is made good by the next end of the container that is handled.
CaptureConverges ==
    \A c \in Monitored :
        <>[](c \notin missed) => <>[](captured[c] = Pid(c))
=============================================================================
