SPECIFICATION Spec
CONSTANTS
    Macs = {m1, m2}
    Busy = {m1}
    Threads = {t1}
    VerMod = 3
    MaxTables = 4
    MaxMacs = 2
INVARIANTS
    NothingFreedInUse
    TablesAccounted
    StagedIsPrivate
    PassedByTableInForce
