SPECIFICATION Spec
CONSTANTS
    MaxFacts = 0
    MaxVersion = 0
    MaxRanges = 0
    MaxCopies = 0
    MaxRecords = 0
    MaxEntries = 4
    TextOrder <- Texts
    LineSize = 2
    Sample <- NoVersions
INVARIANTS WhiteoutsTakeTheTree
CHECK_DEADLOCK FALSE
