SPECIFICATION SSpec
CONSTANTS
    Calls = {c1, c2, c3}
    LockCalls = {c1, c2}
    MaxCalls = 2
INVARIANTS
    StoppedMeansDrained
PROPERTIES
    CheckerExits
    StopCompletesUnlessCaught
\* the server really stops: after Stop nothing is left to do
CHECK_DEADLOCK FALSE
