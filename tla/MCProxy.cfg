SPECIFICATION MCSpec
CONSTANTS
    Subjects = {"server", "killed", "associate", "listener", "socks4", "http", "relay", "smux",
                "v2ray", "kcptun", "pool", "handshake", "messages", "call",
                "gunreads", "gunwrites", "gunpool"}
    IdleTimeout = 3
    PollInterval = 2
    MaxChunks = 2
    HasInitial = TRUE
    Sessions = {s1, s2}
    MaxIds = 3
    MaxStarts = 2
    MaxKills = 2
    UserIds <- Strings4
    Domains <- SomeDomains
    Terminator = "0"
    MaxString = 4
    Clients = {c1, c2}
    Dests = {d1, d2}
    MaxPackets = 4
    PerAssociation = TRUE
    RoutesThrow = TRUE
    MaxPaths = 1
    MaxHandles = 3
    Kinds = {"get", "post", "expect", "connect", "upgrade", "options", "denied", "denied+b", "bad"}
    MaxRequests = 3
SYMMETRY Symmetry
INVARIANTS
    IdleIsBounded RelayIsHonest ServerIsSound PathsAreSound UserIdExact RequestsStayApart
    CarriersAreSound MessagesAreSound
PROPERTIES QuietEndIsComplete OldPathsHarmless
CHECK_DEADLOCK FALSE
