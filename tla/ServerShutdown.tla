-------------------------- MODULE ServerShutdown --------------------------
(***************************************************************************)
(* Stopping the controller's gRPC server (controller/grpc/server.go, called*)
(* by cmd/controller/main.go on SIGTERM) while calls are in flight and the *)
(* timeout checker runs.  Register and Heartbeat need Server.mutex; the    *)
(* report handlers and GetPolicies do not.  Stop holds Server.mutex while  *)
(* grpc-go's GracefulStop refuses new calls and waits for the running ones.*)
(***************************************************************************)
EXTENDS Naturals, FiniteSets

CONSTANTS
    Calls,      \* call slots: at most this many RPCs are in flight at once
    LockCalls,  \* the slots used by Register and Heartbeat
    MaxCalls    \* bound on the calls a slot carries

ASSUME CallsAssumption == LockCalls \subseteq Calls
ASSUME MaxCallsAssumption == MaxCalls \in Nat
ASSUME HolderAssumption == Calls \cap {"stop", "checker", "free"} = {}

VARIABLES
    running,  \* Server.running
    serving,  \* the grpc.Server accepts calls
    lock,     \* holder of Server.mutex: a call, "stop", "checker" or "free"
    call,     \* slot -> "none", "entered" (handler started), "locked"
    count,    \* slot -> calls carried so far
    stop,     \* main's Stop: "no", "asked", "draining", "returned"
    checker,  \* agentTimeoutChecker: "loop", "tick", "check", "exited"
    synced    \* the checker has locked Server.mutex since the last write of running

svars == <<running, serving, lock, call, count, stop, checker, synced>>

-----------------------------------------------------------------------------
\* grpc-go starts a handler goroutine for an arriving call.
CallArrives(c) ==
    /\ serving /\ call[c] = "none" /\ count[c] < MaxCalls
    /\ call' = [call EXCEPT ![c] = "entered"]
    /\ count' = [count EXCEPT ![c] = @ + 1]
    /\ UNCHANGED <<running, serving, lock, stop, checker, synced>>

\* Register and Heartbeat: s.mutex.Lock() ...
CallLocks(c) ==
    /\ c \in LockCalls /\ call[c] = "entered" /\ lock = "free"
    /\ lock' = c
    /\ call' = [call EXCEPT ![c] = "locked"]
    /\ UNCHANGED <<running, serving, count, stop, checker, synced>>

\* ... and the deferred Unlock on return; the other handlers just return.
CallReturns(c) ==
    /\ \/ call[c] = "locked" /\ lock' = "free"
       \/ c \notin LockCalls /\ call[c] = "entered" /\ UNCHANGED lock
    /\ call' = [call EXCEPT ![c] = "none"]
    /\ UNCHANGED <<running, serving, count, stop, checker, synced>>

\* SIGTERM: main calls Stop.
Stop ==
    /\ stop = "no"
    /\ stop' = "asked"
    /\ UNCHANGED <<running, serving, lock, call, count, checker, synced>>

\* Stop takes the mutex and GracefulStop closes the server to new calls.
StopLocks ==
    /\ stop = "asked" /\ lock = "free" /\ running
    /\ lock' = "stop"
    /\ serving' = FALSE
    /\ stop' = "draining"
    /\ UNCHANGED <<running, call, count, checker, synced>>

\* Mutant: grpc's immediate Stop instead of GracefulStop, handlers still running.
StopNoDrain ==
    /\ stop = "draining"
    /\ running' = FALSE
    /\ lock' = "free"
    /\ stop' = "returned"
    /\ synced' = FALSE
    /\ UNCHANGED <<serving, call, count, checker>>

\* Mutant: running is left set.
StopKeepsRunning ==
    /\ stop = "draining" /\ \A c \in Calls : call[c] = "none"
    /\ lock' = "free"
    /\ stop' = "returned"
    /\ UNCHANGED <<running, serving, call, count, checker, synced>>

\* GracefulStop returns once no handler runs; Stop clears running and unlocks.
StopReturns ==
    /\ stop = "draining" /\ \A c \in Calls : call[c] = "none"
    /\ running' = FALSE
    /\ lock' = "free"
    /\ stop' = "returned"
    /\ synced' = FALSE
    /\ UNCHANGED <<serving, call, count, checker>>

-----------------------------------------------------------------------------
\* for s.running: an unsynchronised read.  Until the checker locks the mutex again
\* it may see the value from before Stop's write.
CheckerReads ==
    /\ checker = "loop"
    /\ \/ (running \/ ~synced) /\ checker' = "tick"
       \/ ~running /\ checker' = "exited"
    /\ UNCHANGED <<running, serving, lock, call, count, stop, synced>>

CheckerLocks ==
    /\ checker = "tick" /\ lock = "free"
    /\ lock' = "checker"
    /\ checker' = "check"
    /\ synced' = TRUE
    /\ UNCHANGED <<running, serving, call, count, stop>>

\* Mutant: checkAgentTimeout without the deferred Unlock.
CheckerKeepsLock ==
    /\ checker = "check"
    /\ checker' = "loop"
    /\ UNCHANGED <<running, serving, lock, call, count, stop, synced>>

CheckerUnlocks ==
    /\ checker = "check"
    /\ lock' = "free"
    /\ checker' = "loop"
    /\ UNCHANGED <<running, serving, call, count, stop, synced>>

-----------------------------------------------------------------------------
\* After Start.
SInit ==
    /\ running = TRUE /\ serving = TRUE /\ lock = "free"
    /\ call = [c \in Calls |-> "none"]
    /\ count = [c \in Calls |-> 0]
    /\ stop = "no" /\ checker = "loop" /\ synced = TRUE

SNext ==
    \/ \E c \in Calls : CallArrives(c) \/ CallLocks(c) \/ CallReturns(c)
    \/ Stop \/ StopLocks \/ StopReturns
    \/ CheckerReads \/ CheckerLocks \/ CheckerUnlocks

\* Goroutines run, sync.RWMutex does not starve a waiter, the ticker ticks.
SFairness ==
    /\ \A c \in Calls : SF_svars(CallLocks(c)) /\ WF_svars(CallReturns(c))
    /\ SF_svars(StopLocks) /\ WF_svars(StopReturns)
    /\ WF_svars(CheckerReads) /\ SF_svars(CheckerLocks) /\ WF_svars(CheckerUnlocks)

SSpec == SInit /\ [][SNext]_svars /\ SFairness

-----------------------------------------------------------------------------
(* Properties *)

\* Once Stop has returned no handler is running and none will: main goes on to
\* close the HTTP server and exit without cutting off a call.
StoppedMeansDrained ==
    stop = "returned" => \A c \in Calls : call[c] = "none"

\* After a Stop that returns the checker goroutine ends instead of touching a
\* stopped server for ever.
CheckerExits == stop = "returned" ~> checker = "exited"

\* Stop holds the mutex, and waits for a Register or Heartbeat that still needs it.
Caught == stop = "draining" /\ \E c \in LockCalls : call[c] = "entered"

\* server.go:106, Stop "gracefully closes the gRPC server and the listener".  It
\* returns, whatever calls are in flight, unless it has locked one of them out: that
\* is the only way in which the shutdown hangs.
StopCompletesUnlessCaught == [](~Caught) => (stop = "asked" ~> stop = "returned")
=============================================================================
