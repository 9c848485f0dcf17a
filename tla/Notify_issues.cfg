SPECIFICATION FairSpec
CONSTANTS
    Notifiers = {n1}
    Findings = {"f1", "f2"}
    RepoOf <- OwnRepo
    OwnerOrder <- TeamAndNoOwner
    NoOwner = "none"
    Mark <- OwnMark
    Listed = 2
    MaxScans = 2
    MaxFaults = 1
    MaxPeople = 2
INVARIANTS DuplicatesAreFarApart ZeroMeansInLine
PROPERTIES PeoplesIssuesKept KnownOwnersSettle
CHECK_DEADLOCK FALSE
