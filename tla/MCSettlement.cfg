SPECIFICATION FairSpec
CONSTANTS
    k1 = k1
    k2 = k2
    m1 = m1
    Keys = {k1, k2}
    NoKey = NoKey
    Markets = {m1}
    MarketOf <- OneMarket
    Side <- YesAndNo
    Principal <- Costs
    EntryFee <- Fees
    SeasonOf <- OneSeason
    Statements <- SomeStatements
    Profiles <- TwoProfiles
    MaxIds = 3
    MaxGlitches = 1
    Others = {"merge", "withdraw", "amend"}
INVARIANTS
    NoOrphan
    ProfitIsCash
PROPERTIES
    LedgerOnlyGrows
    WithheldWaitsForItsWager
    GreenMeansSettled
    SettledIsFiledOrReported
