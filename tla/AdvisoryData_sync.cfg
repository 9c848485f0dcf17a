SPECIFICATION Spec
CONSTANTS
    None = None
    Ids = {a, b}
    Size <- MCSize
    MaxChanged = 1
    Lags <- MCLags
    MaxStory = 3
    MaxKills = 1
SYMMETRY MCSymmetry
INVARIANTS AgeIsHonest SyncedMeansCurrent ReusedIsFresh
CHECK_DEADLOCK FALSE
