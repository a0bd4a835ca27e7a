SPECIFICATION Spec
CONSTANTS
    Nodes <- MCWorkloads
    Links = {"graph"}
    Attrs = {a1, a2}
INVARIANTS
    GraphMatchesConnections
PROPERTIES
    LinksLostOnlyWithWorkload
