SPECIFICATION Spec
CONSTANTS
    a = a
    b = b
    Subaccounts = {a, b}
    FillIds = {1, 2, 3, 4}
    CountOf <- CountsMC
    PriceOf <- PricesMC
    FeeOf <- FeesMC
    SidesOf <- SidesMC
    One = 600
    SettlementFees = {64}
    MaxTime = 1
    MaxFills = 3
    TiesFollowIds = TRUE
    MayReject = FALSE
SYMMETRY SubaccountsAreAlike
INVARIANTS
    EpisodesAreFlatToFlat
    KeysNameOneEpisode
    CashConserved
    FeesCountedOnce
    ImportableIsReal
    ClaimHeldAtSomeMoment
    LiveInventoryIsLive
