\* Two clients at one address, with fairness.
SPECIFICATION Spec
CONSTANTS
    None = None
    NullAddr = NullAddr
    NoFeatures = NoFeatures
    Conns = {c1, c2}
    Addrs = {a1}
    Features = {f1}
    HANDSHAKE_WINDOW = 1
    KICK_BANTIME = 1
    MaxConnectTimers = 2
PROPERTIES
    IdleLeaves
    ClosingEnds
    BanExpires
    ImplementsSession
