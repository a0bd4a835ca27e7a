SPECIFICATION RSpec
CONSTANTS
    Peers = {1, 2}
    Own <- MCOwn
    IpType <- MCIpType
    Codes = {5, 6}
    Ports = {1, 2}
    Apps = {1}
    Policies <- MCPolicies
    Views <- MCViews
    Rules <- MCRules
    MaxRules = 3
INVARIANTS
    DecidedByAMatch
    RangeRuleNeverLost
    FirstMatchDecides
CHECK_DEADLOCK FALSE
