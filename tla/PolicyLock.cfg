SPECIFICATION LSpec
CONSTANTS
    Matchers = {r1, r2, r3}
    Writers = {x1, x2}
INVARIANT NoTornVerdict
PROPERTIES
    ReturnsUnlessCaught
    CaughtIsFinal
\* the goroutines may all block, which is what ReturnsUnlessCaught is about
CHECK_DEADLOCK FALSE
