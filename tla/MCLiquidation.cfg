CONSTANTS
    u1 = u1
    u2 = u2
    a1 = a1
    a2 = a2
    a3 = a3
    Users = {u1, u2}
    Treasury = u2
    Assets = {a1, a2}
    RAY = 1000
    WAD = 100
    SECONDS_PER_YEAR = 1
    MaxUint = 100000
    MaxUint128 = 20000
    MAX_STABLE_RATE_BORROW_SIZE_PERCENT = 5000
    FLASHLOAN_PREMIUM_TOTAL = 2500
    Amounts = {4}
    Donations <- NoValues
    Delegations <- NoValues
    PriceValues <- DebtPriceMoves
    MarketRateValues <- NoValues
    InitialConfig <- LiquidationConfig
    InitialWallet <- LiquidationWallet
    InitialPrices <- OnePrice
    InitialMarketRates <- NoRate
    MaxTime = 1
    MaxFlashDepth = 0
    MaxLoans = 0
    Dust = 2
SPECIFICATION Spec
CHECK_DEADLOCK FALSE
CONSTRAINT LiquidationRoles
INVARIANTS Solvent UnhealthyLiquidatable
