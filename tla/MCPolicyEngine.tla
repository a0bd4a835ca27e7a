-------------------------- MODULE MCPolicyEngine --------------------------
(* Small instance of PolicyEngine: the rule bodies requests may carry.      *)
EXTENDS PolicyEngine

Body(from, to, apps, act, disable, prio) ==
    [from |-> from, to |-> to, apps |-> apps, action |-> act,
     disable |-> disable, priority |-> prio]

\* Rules that tie, that shadow each other, that are disabled, that name an
\* application, and one that matches other flows only.
MCRuleBodies ==
    { Body("web", "db", {}, "allow", FALSE, 1),
      Body(Any, "db", {}, "deny", FALSE, 1),
      Body("web", Any, {7}, "deny", FALSE, 2),
      Body(Any, Any, {0}, "violate", FALSE, 3),
      Body("web", "db", {}, "deny", TRUE, 0),
      Body("db", "web", {}, "deny", FALSE, 2) }
=============================================================================
