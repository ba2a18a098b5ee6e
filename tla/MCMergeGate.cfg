SPECIFICATION Spec
CONSTANTS
    p1 = p1
    p2 = p2
    a = a
    b = b
    Rows = {p1, p2}
    SourceKeys = {a, b}
    NoKey = NoKey
    MaxDeviations = 3
CHECK_DEADLOCK FALSE
INVARIANTS
    MergeIsWitnessed
    RunningChecksOnlyWait
    RefusalIsNotDelayed
PROPERTIES
    AbsentEvidenceNeverMerges
