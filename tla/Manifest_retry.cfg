\* Installs, uninstalls and reinstalls one after another, each call may fail.
SPECIFICATION SafeSpec
INVARIANTS
    InstalledMeansAutoLaunch
