SPECIFICATION Spec
CONSTANTS
    Branches <- MCBranches
    Fleet = {"app", "lib"}
    Plans <- FirstThenNewer
    ArgSet <- MCArgs
    NoLimit = NoLimit
    MaxRuns = 2
    MaxMoves = 2
INVARIANTS OnlyVerifiedMoves OthersKept SettledStaysSettled WithinMaxPrs CanaryFailureStops ClosesOnlyUnwanted
CHECK_DEADLOCK FALSE
