\* Two threads of three pages, two requests out, answers in any order, with fairness.
SPECIFICATION Spec
CONSTANTS
    Numbers = {n1, n2}
    NoNumber = NoNumber
    SMS_MAX_PAGE = 2
    MaxAsked = 2
    MaxLoads = 2
INVARIANTS
    TypeOK
    PagesContiguous
    ThreadUnmixed
    LayoutIsCurrent
    LoadUnderway
PROPERTIES
    LoadsInTheEnd
