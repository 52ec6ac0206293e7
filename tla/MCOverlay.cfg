\* Two input fields, up to four events that are not polled, with fairness.
SPECIFICATION Spec
CONSTANTS
    Fields = {sms, port}
    NoField = NoField
    MaxEvents = 4
INVARIANTS
    TypeOK
    StaleIsRequested
    KeyboardKnown
    PolledInStep
PROPERTIES
    DrawnInTheEnd
