SPECIFICATION Spec
CONSTANTS
    RuleIds = {1, 2, 3}
    Groups = {"web", "db"}
    Any = "any"
    Apps = {7, 8}
    RuleBodies <- MCRuleBodies
INVARIANTS
    OrderIsEnumeration
    VerdictByPriorityUnlessMoved
    TypeOK
CHECK_DEADLOCK TRUE
