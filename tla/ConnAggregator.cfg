SPECIFICATION Spec
CONSTANTS
    SampleIds = {1, 2, 3, 4}
    Sample <- MCSample
    ThreatIds = {t1}
    MapMax = 1
    ListMax = 1
INVARIANTS
    EachSampleOnce
    EntriesSummarise
    OrdinaryEntriesBounded
PROPERTIES
    ReportsSettle
\* after Stop the timer goroutine has ended
CHECK_DEADLOCK FALSE
