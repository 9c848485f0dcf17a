SPECIFICATION Spec
CONSTANTS
    MaxFacts = 3
    MaxVersion = 3
    MaxRanges = 2
    MaxCopies = 2
    MaxRecords = 3
    MaxEntries = 4
    TextOrder <- Texts
    LineSize = 2
    Sample <- Tried
INVARIANTS CoveredVerdictIsSound UpgradeClearsItsAdvisories TargetAddsNothing NoUnaskedMajor EveryFindingPlanned ReportedIsOnRecord CountedOnce LayersAreOverlay OrdersAreTotal
CHECK_DEADLOCK FALSE
