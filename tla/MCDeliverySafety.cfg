SPECIFICATION Spec
CONSTANTS
    Keys = {k1, k2, k3}
    NoKey = NoKey
    MaxEcon = 2
    MaxStamp = 5
    MaxIds = 4
    MaxCommits = 1
    MaxGlitches = 1
    Unrecordable = {k3}
    Layout = "json_per_file"
    StampsRows = TRUE
    RunsCI = TRUE
    ChecksKeys = FALSE
    CIMayFail = FALSE
    Holds = {TRUE, FALSE}
    RequireUpToDate = FALSE
    DryRuns = {TRUE, FALSE}
    Others = {"noise", "grade", "recovery", "merge"}
    Faults = {"mute"}
SYMMETRY Symmetry
INVARIANTS
    TypeOK
    ProposedMeansProposed
PROPERTIES
    UnchangedProposalIsNeverRepushed
    GreenMeansAccounted
