\* What /revoke leaves on the servers.
CONSTANTS
    s1 = s1
    r1 = r1
    g1 = g1
    g2 = g2
    u1 = u1
    o1 = o1
    o2 = o2
    Tickets <- OneServer
    Relays = {}
    Goroutines <- OneGoroutine
    Users <- OneUser
    Members = {}
    Ops <- OneOp
    MaxFailureCount = 2
    MaxRounds = 1
    Outcomes <- Reliable
    None = None
SPECIFICATION FleetSpec
SYMMETRY Symmetry
INVARIANTS
    RevokedAreDisabled
