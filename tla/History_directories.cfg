SPECIFICATION Spec
CONSTANTS
    p1 = p1
    p2 = p2
    Recorders = {p1, p2}
    Repos = {"app"}
    Keys <- CargoOnly
    Real <- CargoOnly
    Hashes = {0, 1}
    MaxTime = 3
    MaxRuns = 3
    Settings <- Directories
INVARIANTS NewIsReported OldIsNotNew FixedMeansGone
PROPERTIES ImplementsLedger
CHECK_DEADLOCK FALSE
