SPECIFICATION Spec
CONSTANTS
    Keys = {k1, k2}
    NoKey = NoKey
    MaxEcon = 1
    MaxStamp = 5
    MaxIds = 4
    MaxCommits = 2
    MaxGlitches = 0
    Unrecordable = {}
    Layout = "jsonl"
    StampsRows = TRUE
    RunsCI = TRUE
    ChecksKeys = FALSE
    CIMayFail = FALSE
    Holds = {FALSE}
    RequireUpToDate = FALSE
    DryRuns = {FALSE}
    Others = {}
    Faults = {"double"}
SYMMETRY Symmetry
INVARIANTS
    OneRowPerKey
