\* A server, a relay, two users of one chat and one of another; servers and
\* relays change protocol and password.
CONSTANTS
    u1 = u1
    u2 = u2
    u3 = u3
    s1 = s1
    r1 = r1
    h4 = h4
    m1 = m1
    p1 = p1
    p2 = p2
    Users <- ThreeUsers
    Servers <- OneServer
    Relays <- OneRelay
    ChatOf <- TwoChats
    Hosts <- OneHost
    NetType <- NetTypes
    Protocols = {"vmess", "juicity"}
    Methods <- OneMethod
    Passwords <- TwoPasswords
    None = None
SPECIFICATION Spec
INVARIANTS
    SubscriptionLasts
    AccessIsEntitled
    CredentialsDiffer
