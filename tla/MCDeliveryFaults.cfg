SPECIFICATION Spec
CONSTANTS
    Keys = {k1, k2}
    NoKey = NoKey
    MaxEcon = 1
    MaxStamp = 5
    MaxIds = 4
    MaxCommits = 1
    MaxGlitches = 1
    Unrecordable = {}
    Layout = "jsonl"
    StampsRows = TRUE
    RunsCI = TRUE
    ChecksKeys = TRUE
    CIMayFail = TRUE
    Holds = {FALSE}
    RequireUpToDate = TRUE
    DryRuns = {FALSE}
    Others = {"noise", "grade", "recovery", "merge", "close", "draft", "amend", "delete"}
    Faults = {"rewrite", "side", "stray", "double"}
SYMMETRY Symmetry
INVARIANTS
    OneRowPerKey
PROPERTIES
    RefinesCanonicalLedger
    MergesOnlyWhatItVerified
