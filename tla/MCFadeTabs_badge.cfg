\* The overlay is opened from its badge.
SPECIFICATION SafeSpec
INVARIANTS
    BadgeShowsTab
