SPECIFICATION GSpec
CONSTANTS
    Nodes = {n1, n2, n3}
    Links = {graph}
    Attrs = {a1, a2}
INVARIANTS
    EndsPresent
    CopiesAgree
PROPERTIES
    ImplementsByOuts
