\* A round of two calls, each with any of three protocols.
CONSTANTS
    k1 = k1
    k2 = k2
    Calls <- TwoCalls
    Ways <- EachProtocol
SPECIFICATION DialerSpec
INVARIANTS
    NoConnectionLeaks
    
PROPERTIES
    RoundIsCommitted
    KeepsDeadline
