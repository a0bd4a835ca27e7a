SPECIFICATION Spec
CONSTANTS
    Containers = {"c1", "c2"}
    Names = {"eth0", "eth1"}
    IfacesOf <- MCShared
    PrefMax = 6
    MaxFailures = 2
INVARIANTS
    IndexesUnique
    PortPrefsApart
    OrphansOnlyByFailure
