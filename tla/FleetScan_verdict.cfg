SPECIFICATION Spec
CONSTANTS
    Repos <- OneRepo
    Units <- OneUnit
    Advisories = {"A1", "M1"}
    Malware = {"M1"}
    Warnings = {"W1"}
    Critical = 2
    Shapes <- ThreeShapes
    MaxHits = 1
    Decisions <- EitherScope
    AnyRepo = AnyRepo
    ArgSet <- VerdictArgs
INVARIANTS CleanMeansExcused WarningsExcused ExpiredDecisionFails SsvcGateKnows KevGateHolds
CHECK_DEADLOCK FALSE
