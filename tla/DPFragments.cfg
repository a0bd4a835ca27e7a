SPECIFICATION Spec
CONSTANTS
    Keys = {k1}
    Offsets = {0, 2, 4, 6}
    Lengths = {0, 1, 2, 3, 4}
    Room = 8
    MaxFrags = 5
INVARIANTS
    InspectedExactly
    SentOnceUnlessAlone
    CompleteNeverHeld
CHECK_DEADLOCK FALSE
