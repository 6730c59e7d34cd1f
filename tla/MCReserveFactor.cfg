CONSTANTS
    u1 = u1
    u2 = u2
    a1 = a1
    a2 = a2
    a3 = a3
    Users = {u1, u2}
    Treasury = u2
    Assets = {a1}
    RAY = 1000
    WAD = 100
    SECONDS_PER_YEAR = 1
    MaxUint = 100000
    MaxUint128 = 50000
    MAX_STABLE_RATE_BORROW_SIZE_PERCENT = 5000
    FLASHLOAN_PREMIUM_TOTAL = 2500
    Amounts = {4}
    Donations <- NoValues
    Delegations <- NoValues
    PriceValues <- FixedPrices
    MarketRateValues <- NoValues
    InitialConfig <- OneReserve
    InitialWallet <- LargeWallet
    InitialPrices <- OnePrice
    InitialMarketRates <- LowRate
    CollateralParameters <- NoValues
    ReserveFactors = {10000}
    Strategies <- KinkedOnly
    MaxTime = 2
    MaxFlashDepth = 0
    MaxLoans = 1
    Dust = 1
SPECIFICATION ConfiguredSpec
INVARIANT WholeDebtRepayable
CHECK_DEADLOCK FALSE
