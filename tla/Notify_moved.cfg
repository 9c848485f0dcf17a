SPECIFICATION FairSpec
CONSTANTS
    Notifiers = {n1}
    Findings = {"f1"}
    RepoOf <- OwnRepo
    OwnerOrder <- TwoTeams
    NoOwner = "none"
    Mark <- OwnMark
    Listed = 9
    MaxScans = 2
    MaxFaults = 0
    MaxPeople = 1
PROPERTIES EveryOwnerSettles
CHECK_DEADLOCK FALSE
