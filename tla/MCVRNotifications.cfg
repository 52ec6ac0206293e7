\* Two identifiers, four notifications in the lifetime of the runtime.
SPECIFICATION SafeSpec
SYMMETRY Symmetry
CONSTANTS
    Identifiers = {i1, i2}
    MaxCreated = 4
    MaxEvents = 3
INVARIANTS
    LiveIsEntered
    GoneIsTold
