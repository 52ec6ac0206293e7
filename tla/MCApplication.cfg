\* Two clients at two addresses, longer times, overlapping one-second timers, two
\* kinds of features, under the user interface.
SPECIFICATION AppSpec
SYMMETRY Symmetry
CONSTANTS
    None = None
    NullAddr = NullAddr
    NoFeatures = NoFeatures
    Conns = {c1, c2}
    Addrs = {a1, a2}
    Features = {f1, f2}
    HANDSHAKE_WINDOW = 1
    KICK_BANTIME = 2
    MaxConnectTimers = 2
INVARIANTS
    TypeOK
    SessionExclusive
    ConnectedHasSession
    AnnouncementPending
    BanPredates
    TabsShowSession
PROPERTIES
    ImplementsMainWidget
