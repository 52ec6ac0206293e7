\* Four tabs, any order of clicks, overlay events and animation steps.
SPECIFICATION SafeSpec
INVARIANTS
    CurrentAlone
    NeverEmpty
