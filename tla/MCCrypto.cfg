\* Two valid ports and an invalid one, five key pairs, words of five bits.
SPECIFICATION Spec
SYMMETRY Symmetry
CONSTANTS
    KeyPairs = {k1, k2, k3, k4, k5}
    NoKey = NoKey
    Ports = {p1, p2, bad}
    ValidPorts = {p1, p2}
    NoPort = NoPort
    Word = 32
    TIMESTAMP_LEEWAY = 5
INVARIANTS
    TypeOK
    PairWhole
    LabelIsServers
    IdentifierTxtKept
    LeewayIsSymmetric
