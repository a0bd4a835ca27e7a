SPECIFICATION MSpec
CONSTANTS
    Monitored = {c1, c2}
    MaxRuns = 2
    MaxGaps = 1
INVARIANT AgreesUnlessPending
PROPERTY CaptureConverges
\* containers that are removed or out of runs
CHECK_DEADLOCK FALSE
