SPECIFICATION Spec
CONSTANTS
    Repos <- MCRepos
    Units <- MCUnits
    Advisories = {"A1"}
    Malware = {}
    Warnings = {}
    Critical = 1
    Shapes <- Plain
    MaxHits = 1
    Decisions <- OneDecision
    AnyRepo = AnyRepo
    ArgSet <- CoverageArgs
INVARIANTS PassMeansRead RecordIsWhole
CHECK_DEADLOCK FALSE
