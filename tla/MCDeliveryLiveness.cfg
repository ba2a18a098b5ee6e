SPECIFICATION FairSpec
CONSTANTS
    Keys = {k1, k2}
    NoKey = NoKey
    MaxEcon = 2
    MaxStamp = 5
    MaxIds = 4
    MaxCommits = 2
    MaxGlitches = 1
    Unrecordable = {}
    Layout = "jsonl"
    StampsRows = TRUE
    RunsCI = TRUE
    ChecksKeys = TRUE
    CIMayFail = FALSE
    Holds = {TRUE, FALSE}
    RequireUpToDate = FALSE
    DryRuns = {FALSE}
    Others = {"noise", "grade", "recovery"}
    Faults = {}
PROPERTIES
    EligibleReachesLedger
    ProposalSettles
