\* A server and a relay that come and go, for a user at rest.
CONSTANTS
    s1 = s1
    r1 = r1
    g1 = g1
    g2 = g2
    u1 = u1
    o1 = o1
    o2 = o2
    Tickets <- ServerAndRelay
    Relays <- OneRelay
    Goroutines <- TwoGoroutines
    Users <- OneUser
    Members <- OneUser
    Ops <- OneOp
    MaxFailureCount = 1
    MaxRounds = 2
    Outcomes <- Reliable
    None = None
SPECIFICATION FleetSpec
SYMMETRY Symmetry
INVARIANTS
    EntitledAreServed
