CONSTANTS
    u1 = u1
    u2 = u2
    t = t
    a1 = a1
    a2 = a2
    a3 = a3
    Users = {u1, u2, t}
    Treasury = t
    Assets = {a1, a2}
    RAY = 10000
    WAD = 1000
    SECONDS_PER_YEAR = 1
    MaxUint = 1000000
    MaxUint128 = 100000
    MAX_STABLE_RATE_BORROW_SIZE_PERCENT = 5000
    FLASHLOAN_PREMIUM_TOTAL = 2500
    Amounts = {400}
    Donations <- NoValues
    Delegations <- NoValues
    PriceValues <- FixedPrices
    MarketRateValues <- NoValues
    InitialConfig <- ScenarioConfig
    InitialWallet <- ScenarioWallet
    InitialPrices <- OnePrice
    InitialMarketRates <- LowRate
    MaxTime = 3
    MaxFlashDepth = 0
    MaxLoans = 0
    Actions <- AllActions
    Tolerance = 3
    Latency = 1
    MaxActions = 6
SPECIFICATION ScenarioSpec
CHECK_DEADLOCK FALSE
INVARIANTS AsExpected
