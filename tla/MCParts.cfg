\* Two codes for two chats; two servers and a relay; two rounds of pings and
\* of the feed's cleaner;
\* a server and a relay before it, under three lists of hosts;
\* two registrations in flight at most, with and without TLS; one user ticket;
\* three editions of a list of three lines.
CONSTANTS
    c1 = c1
    c2 = c2
    chat1 = chat1
    chat2 = chat2
    f1 = f1
    t1 = t1
    t2 = t2
    q1 = q1
    q2 = q2
    plain = plain
    tls = tls
    u1 = u1
    Codes <- TwoCodes
    Channels <- TwoChannels
    Forms <- OneForm
    Servers = {1, 2}
    Relays = {3}
    HostsOf <- Hosting
    Server = "server"
    RelayBefore = "relay"
    HostLists <- LinkHosts
    Ports = {1, 2}
    Passwords = {"old", "new"}
    Certificates <- Padding
    Rounds <- TwoRounds
    MaxEntries = 3
    Requests <- TwoSlots
    PingRounds <- TwoRounds
    MaxFailureCount = 3
    Addresses <- OneAddress
    OtherHosts <- TheOthers
    Arguments <- TwoArguments
    TLS <- OneTLS
    NameserverName = "cloudflare"
    SystemKnows = {"name"}
    Applications <- TwoSlots
    Users <- OneUser
    Nobody = "nobody"
    Editions = {0, 1, 2}
    Length = 3
    AddressesOf <- Resolving
SPECIFICATION PartsSpec
INVARIANTS
    TicketIsVouched
    PassedIsValid
    CodesAreShortLived
    LinesAreComplete
    LinkLasts
    FeedIsRecent
    FeedIsTrue
    RegisteredIsResolvable
    NoCircularWait
    SettledIsCurrent
    ProxyIsForChina
PROPERTIES
    OldIsCleaned
    DownIsNoticed
    OnlyChangesStrip
    AssignedIsOver
    WritersEnd
