SPECIFICATION Spec
CONSTANTS
    Names <- MCNames
    IPs <- MCIPs
    PrivateIPs <- MCPrivateIPs
    Policies <- MCPolicies
    MaxDots = 3
    NoHost = NoHost
INVARIANTS ConnectionsAllowed CopiesAgree
PROPERTY DispatchEnds
\* A dispatch ends.
CHECK_DEADLOCK FALSE
