---------------------------- MODULE PolicyLock ----------------------------
(***************************************************************************)
(* The locking of the policy engine (controller/policy/policy.go).         *)
(* MatchPolicy holds Engine.mutex for reading and, when no rule matches,   *)
(* calls GetGroupMode, which read-locks the same mutex again.  Every       *)
(* operation that changes rules or modes takes it for writing.             *)
(*                                                                         *)
(* sync.RWMutex: a writer first announces itself, which holds back new     *)
(* readers, then waits for the present ones; when it unlocks, the readers  *)
(* held back all get the lock before another writer does.                  *)
(***************************************************************************)
EXTENDS FiniteSets

CONSTANTS
    Matchers,  \* goroutines that call MatchPolicy
    Writers    \* goroutines that call AddRule, UpdateRule, DeleteRule or SetGroupMode

None == "none"

ASSUME WritersAssumption == None \notin Writers

VARIABLES
    matcher,     \* matcher -> "idle", "want" (RLock called), "match" (in the rule loop),
           \*            "want2" (inner RLock called), "mode" (in GetGroupMode)
    writer,     \* writer -> "idle", "want", "write"
    announced  \* the announced writer

lvars == <<matcher, writer, announced>>

Readers == {r \in Matchers : matcher[r] \in {"match", "want2", "mode"}}

Open == announced = None

-----------------------------------------------------------------------------
\* MatchPolicy's RLock: granted unless a writer is announced.
MatchPolicyRLock(r) ==
    /\ matcher[r] = "idle"
    /\ matcher' = [matcher EXCEPT ![r] = IF Open THEN "match" ELSE "want"]
    /\ UNCHANGED <<writer, announced>>

\* A rule matches: return, the deferred RUnlock runs.
RuleFound(r) ==
    /\ matcher[r] = "match"
    /\ matcher' = [matcher EXCEPT ![r] = "idle"]
    /\ UNCHANGED <<writer, announced>>

\* No rule matches: getDefaultAction calls GetGroupMode, which calls RLock.
GetGroupModeRLock(r) ==
    /\ matcher[r] = "match"
    /\ matcher' = [matcher EXCEPT ![r] = IF Open THEN "mode" ELSE "want2"]
    /\ UNCHANGED <<writer, announced>>

\* Mutant: GetGroupMode answers without the lock when it is not granted at once.
ModeFoundTry(r) ==
    /\ matcher[r] \in {"mode", "want2"}
    /\ matcher' = [matcher EXCEPT ![r] = "idle"]
    /\ UNCHANGED <<writer, announced>>

\* GetGroupMode and MatchPolicy return and unlock.
ModeFound(r) ==
    /\ matcher[r] = "mode"
    /\ matcher' = [matcher EXCEPT ![r] = "idle"]
    /\ UNCHANGED <<writer, announced>>

\* Lock of a writer is called ...
WriterLock(x) ==
    /\ writer[x] = "idle"
    /\ writer' = [writer EXCEPT ![x] = "want"]
    /\ UNCHANGED <<matcher, announced>>

\* ... announced, one writer at a time ...
WriterAnnounce(x) ==
    /\ writer[x] = "want" /\ Open
    /\ announced' = x
    /\ UNCHANGED <<matcher, writer>>

\* Mutant: the writer does not wait for the readers.
WriterBarges(x) ==
    /\ writer[x] = "want" /\ announced = x
    /\ writer' = [writer EXCEPT ![x] = "write"]
    /\ UNCHANGED <<matcher, announced>>

\* ... and granted when the last reader has left.
WriterEnter(x) ==
    /\ writer[x] = "want" /\ announced = x /\ Readers = {}
    /\ writer' = [writer EXCEPT ![x] = "write"]
    /\ UNCHANGED <<matcher, announced>>

\* Mutant: a return path of SetGroupMode without the Unlock.
WriterKeepsLock(x) ==
    /\ writer[x] = "write"
    /\ writer' = [writer EXCEPT ![x] = "idle"]
    /\ UNCHANGED <<matcher, announced>>

\* Unlock lets in all readers that were held back.
WriterUnlock(x) ==
    /\ writer[x] = "write"
    /\ writer' = [writer EXCEPT ![x] = "idle"]
    /\ announced' = None
    /\ matcher' = [r \in Matchers |-> IF matcher[r] = "want" THEN "match"
                                ELSE IF matcher[r] = "want2" THEN "mode" ELSE matcher[r]]

-----------------------------------------------------------------------------
LInit ==
    /\ matcher = [r \in Matchers |-> "idle"]
    /\ writer = [x \in Writers |-> "idle"]
    /\ announced = None

Leave(r) == RuleFound(r) \/ GetGroupModeRLock(r) \/ ModeFound(r)

LNext ==
    \/ \E r \in Matchers : MatchPolicyRLock(r) \/ Leave(r)
    \/ \E x \in Writers :
         WriterLock(x) \/ WriterAnnounce(x) \/ WriterEnter(x) \/ WriterUnlock(x)

\* Goroutines inside an operation go on; the mutex serves waiting writers in turn.
LSpec ==
    /\ LInit /\ [][LNext]_lvars
    /\ \A r \in Matchers : WF_lvars(Leave(r))
    /\ \A x \in Writers :
         SF_lvars(WriterAnnounce(x)) /\ WF_lvars(WriterEnter(x)) /\ WF_lvars(WriterUnlock(x))

-----------------------------------------------------------------------------
(* Properties *)

\* No verdict is computed while the table or the modes change.
NoTornVerdict ==
    \A x \in Writers, r \in Matchers :
        writer[x] = "write" => matcher[r] \notin {"match", "mode"}

\* A matcher whose inner RLock meets an announced writer.
Caught(r) == matcher[r] = "want2"

\* As long as no inner RLock meets an announced writer, every MatchPolicy and every
\* change of the rules returns: the read lock taken twice is the only way in which
\* the engine can hang.
ReturnsUnlessCaught ==
    [](\A r \in Matchers : ~Caught(r)) =>
        /\ \A r \in Matchers : matcher[r] # "idle" ~> matcher[r] = "idle"
        /\ \A x \in Writers : writer[x] # "idle" ~> writer[x] = "idle"

\* A matcher that is caught stays caught, and no rule is ever changed again: the
\* writer it waits for waits for it.
CaughtStep ==
    \A r \in Matchers :
        Caught(r) => Caught(r)' /\ \A x \in Writers : writer'[x] = "write" => writer[x] = "write"

CaughtIsFinal == [][CaughtStep]_lvars
=============================================================================
