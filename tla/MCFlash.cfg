CONSTANTS
    u1 = u1
    u2 = u2
    a1 = a1
    a2 = a2
    a3 = a3
    Users = {u1, u2}
    Treasury = u2
    Assets = {a1}
    RAY = 1000
    WAD = 100
    SECONDS_PER_YEAR = 1
    MaxUint = 100000
    MaxUint128 = 1500
    MAX_STABLE_RATE_BORROW_SIZE_PERCENT = 5000
    FLASHLOAN_PREMIUM_TOTAL = 5000
    Amounts = {2}
    Donations <- NoValues
    Delegations <- NoValues
    PriceValues <- FixedPrices
    MarketRateValues <- NoValues
    InitialConfig <- FlashConfig
    InitialWallet <- FlashWallet
    InitialPrices <- OnePrice
    InitialMarketRates <- NoRate
    MaxTime = 1
    MaxFlashDepth = 2
    MaxLoans = 2
    Dust = 1
SPECIFICATION Spec
CHECK_DEADLOCK FALSE
CONSTRAINT NestedRoles
PROPERTIES DustPerStep DepositsNeverShrink
