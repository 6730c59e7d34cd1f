CONSTANTS
    u1 = u1
    u2 = u2
    a1 = a1
    a2 = a2
    a3 = a3
    Users = {u1, u2}
    Treasury = u2
    Assets = {a1, a2, a3}
    RAY = 10000
    WAD = 10000
    SECONDS_PER_YEAR = 1
    MaxUint = 1000000000
    MaxUint128 = 20000
    MAX_STABLE_RATE_BORROW_SIZE_PERCENT = 5000
    FLASHLOAN_PREMIUM_TOTAL = 2500
    Amounts = {2}
    Donations <- NoValues
    Delegations <- NoValues
    PriceValues <- FixedPrices
    MarketRateValues <- NoValues
    InitialConfig <- HealthConfig
    InitialWallet <- HealthWallet
    InitialPrices <- HealthPrices
    InitialMarketRates <- NoRate
    MaxTime = 1
    MaxFlashDepth = 0
    MaxLoans = 0
    Dust = 1
SPECIFICATION Spec
CHECK_DEADLOCK FALSE
CONSTRAINT OneBorrower
PROPERTIES HealthPreserved
