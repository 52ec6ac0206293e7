\* Two valid ports and an invalid one, three key pairs.
SPECIFICATION Spec
CONSTANTS
    KeyPairs = {k1, k2, k3}
    NoKey = NoKey
    Ports = {p1, p2, bad}
    ValidPorts = {p1, p2}
    NoPort = NoPort
    Word = 32
    TIMESTAMP_LEEWAY = 5
INVARIANTS
    IdentifierMatches
