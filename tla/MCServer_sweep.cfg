\* Four clients at one address: every way the list can change under the sweep.
SPECIFICATION SafeSpec
SYMMETRY Symmetry
CONSTANTS
    None = None
    NullAddr = NullAddr
    NoFeatures = NoFeatures
    Conns = {c1, c2, c3, c4}
    Addrs = {a1}
    Features = {f1}
    HANDSHAKE_WINDOW = 1
    KICK_BANTIME = 1
    MaxConnectTimers = 1
INVARIANTS
    ListIsLive
    StrayNeedsSurvivor
PROPERTIES
    SweepSparesSession
