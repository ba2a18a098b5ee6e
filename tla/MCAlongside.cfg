SPECIFICATION Spec
CONSTANTS
    Orders = {"o1", "o2"}
    TickerOf <- TickerOfMC
    FillsOf <- FillsOfMC
    Watched = {"t"}
    LegacyOrders = {"o2"}
    ThinAt = {}
    Cadence <- CadenceMC
    ListLimit <- ListLimitMC
    Boards <- BoardsMC
    RunOf <- RunOfMC
    Profile <- ProfileMC
    Sports = {"MLB", "NFL", "CFB"}
    Traded <- TradedMC
    Servable <- ServedMC
    RestSport = "MLB"
    RestServed <- RestServedMC
    OrderLimit = 1
    FreshSeconds = 1
    Horizon = 1
    MaxClock = 3
    MaxKills = 1
    StaleAfter = 1
    Length = 2
    Lead = 1
    MaxCrashes = 1
    Refs = {"r1", "r2"}
    RecommendedWithin = 1
    KickOff = 2
    MaxGap = 0
    Lookback = 1
    WideLookback = 2
    HourTicks = 2
    MaxTime = 3
    MaxFills = 2
    PageLimit = 2
    Budget = 2
    MaxPages = 2
    MaxRetries = 1
    MaxRows = 4
    JobTicks = 2
    Window = 6
    Skew = 1
    Attempts = 2
    MaxTick = 8
    MaxRuns = 2
    MaxHand = 1
INVARIANTS
    EntryQuotesAreHonest
    PublishedTreeIsWhole
    OneRecommendationPerWager
    ClaimedReadsAreWhole
    GreenMeansUsable
    BackfillWritesOnlyTheMissing
PROPERTIES
    PublishedTotalsNeverDrop
    ScheduleNeverStops
    FailureIsNeverHidden
CHECK_DEADLOCK FALSE
