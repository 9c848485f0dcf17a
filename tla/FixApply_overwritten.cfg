SPECIFICATION Spec
CONSTANTS
    Branches <- OneBranch
    Fleet = {"app"}
    Plans <- OnePlan
    ArgSet <- OpenOnly
    NoLimit = NoLimit
    MaxRuns = 2
    MaxMoves = 2
INVARIANTS OthersNeverLost
CHECK_DEADLOCK FALSE
