\* Two notifications, up to three messages on their way, with fairness.
SPECIFICATION Spec
CONSTANTS
    Keys = {k1, k2}
    MaxQueue = 3
    MaxLoads = 2
INVARIANTS
    TypeOK
    InSync
    ShownOnce
    LayoutIsCurrent
    LoadUnderway
PROPERTIES
    LoadsInTheEnd
