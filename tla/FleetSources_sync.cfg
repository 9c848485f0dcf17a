SPECIFICATION FairSpec
CONSTANTS
    Keys = {1, 2}
    Names = {"a", "b"}
    Branches = {"main", "trunk"}
    Starts <- TwoRepos
    MaxPushes = 2
    MaxChanges = 1
    MaxFaults = 1
    MaxCut = 1
INVARIANTS SyncedIsWhole ChangesAreExact
PROPERTIES ScansCatchUp
