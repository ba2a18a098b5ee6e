SPECIFICATION Spec
CONSTANTS
    a = a
    b = b
    Subaccounts = {a, b}
    FillIds = {1, 2, 3}
    CountOf <- CountsMC
    PriceOf <- PricesMC
    FeeOf <- FeesMC
    SidesOf <- SidesMC
    One = 600
    SettlementFees = {64}
    MaxTime = 1
    MaxFills = 3
    TiesFollowIds = TRUE
    MayReject = TRUE
SYMMETRY SubaccountsAreAlike
INVARIANTS
    EveryFillWasObserved
