\* A server that may fail to be synced at any time, and a user whose ticket
\* goes through its whole life.
CONSTANTS
    s1 = s1
    r1 = r1
    g1 = g1
    g2 = g2
    u1 = u1
    o1 = o1
    o2 = o2
    Tickets <- OneServer
    Relays = {}
    Goroutines <- OneGoroutine
    Users <- OneUser
    Members = {}
    Ops <- TwoOps
    MaxFailureCount = 2
    MaxRounds = 2
    Outcomes <- Unreliable
    None = None
SPECIFICATION FleetSpec
SYMMETRY Symmetry
INVARIANTS
    FleetTypeOK
    ExpiredAreDisabled
    EntitledAreServed
    FailureIsRetried
