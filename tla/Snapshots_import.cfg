SPECIFICATION FairSpec
CONSTANTS
    Sources = {"osv", "kev"}
    MaxVersions = 2
    MaxFaults = 1
INVARIANTS DamagedReplacesNothing ImportedWhole CompanionsNotNewer
PROPERTIES ImportSettles
CHECK_DEADLOCK FALSE
