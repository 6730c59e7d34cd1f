CONSTANTS
    u1 = u1
    u2 = u2
    a1 = a1
    a2 = a2
    a3 = a3
    g = g
    pool = pool
    other = other
    WETH = a1
    Gateway = g
    Pool = pool
    OtherPools = {other}
    Gifts = {1}
    Approvals = {8}
    MaxCalls = 4
    Values = {4, 8}
    InitialEth <- Eth
    Users = {u1, u2, g}
    Treasury = u2
    Assets = {a1}
    RAY = 1000
    WAD = 100
    SECONDS_PER_YEAR = 1
    MaxUint = 100000
    MaxUint128 = 20000
    MAX_STABLE_RATE_BORROW_SIZE_PERCENT = 5000
    FLASHLOAN_PREMIUM_TOTAL = 2500
    Amounts = {4}
    Donations <- NoValues
    Delegations = {4}
    PriceValues <- FixedPrices
    MarketRateValues <- NoValues
    InitialConfig <- GatewayConfig
    InitialWallet <- GatewayWallet
    InitialPrices <- OnePrice
    InitialMarketRates <- GatewayRates
    MaxTime = 2
    MaxFlashDepth = 0
    MaxLoans = 0
    Dust = 2
SPECIFICATION GatewaySpec
CHECK_DEADLOCK FALSE
CONSTRAINT GatewayRoles
INVARIANT CallsGoThrough
PROPERTIES GatewayKeepsNothing DebtConsented CallerPays
