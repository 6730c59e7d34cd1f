------------------------- MODULE LendingPoolStorage -------------------------
(***************************************************************************)
(* The state of the lending pool (LendingPoolStorage.sol, DataTypes.sol)   *)
(* and of the contracts around it that its operations read or change: the  *)
(* tokens of every reserve, the balances of the underlying assets, the     *)
(* credit delegations, the price and rate oracles and the block's time.    *)
(*                                                                         *)
(* A reserve is named by its asset. The bitmaps of UserConfiguration.sol   *)
(* and ReserveConfiguration.sol are the sets and records they encode.      *)
(***************************************************************************)
EXTENDS ReserveLogic, FiniteSetsExt, Sequences

CONSTANTS
    Assets,                  \* underlying assets with an initialised reserve
    MAX_STABLE_RATE_BORROW_SIZE_PERCENT,
                             \* share of the liquidity lent in one stable loan,
                             \* in basis points (initialize() stores 2500)
    FLASHLOAN_PREMIUM_TOTAL  \* fee of a flash loan in basis points
                             \* (initialize() stores 9)

ASSUME PoolParametersAssumption ==
    /\ MAX_STABLE_RATE_BORROW_SIZE_PERCENT \in Nat
    /\ FLASHLOAN_PREMIUM_TOTAL \in Nat

\* A user's bitmap has two bits for each of at most 128 reserves.
ASSUME AssetsAssumption == IsFiniteSet(Assets)

VARIABLES
    reserves,          \* _reserves: indexes, rates and tokens of each asset
    config,            \* the configuration and rate strategy of each reserve
    usersConfig,       \* _usersConfig: collateral and borrowing flags
    paused,            \* _paused
    borrowAllowances,  \* _borrowAllowances of each debt token
    wallet,            \* balances of the underlying assets
    prices,            \* answers of the price oracle, 0 where it reverts
    marketRates,       \* answers of the lending rate oracle
    flash,             \* flash loans in flight, the innermost one last
    now                \* block.timestamp

vars == <<reserves, config, usersConfig, paused, borrowAllowances, wallet,
          prices, marketRates, flash, now>>

InterestRateMode == {"none", "stable", "variable"}

DebtModes == InterestRateMode \ {"none"}

ReserveConfiguration ==
    [ ltv                        : Nat,
      liquidationThreshold       : Nat,
      liquidationBonus           : Nat,
      tokenUnit                  : Nat \ {0},  \* 10 ** decimals
      active                     : BOOLEAN,
      frozen                     : BOOLEAN,
      borrowingEnabled           : BOOLEAN,
      stableRateBorrowingEnabled : BOOLEAN,
      reserveFactor              : Nat,
      strategy                   : Strategy ]

UserConfiguration == [collateral : SUBSET Assets, borrowing : SUBSET Assets]

Loan == [asset : Assets, amount : Nat, premium : Nat, mode : InterestRateMode]

\* flashLoan() lends its loans one by one, calls the receiver back, then
\* settles them one by one; next is the loan to lend or to settle.
Phase == {"lending", "callback", "settling"}

Frame ==
    [ initiator : Users, receiver : Users, onBehalfOf : Users,
      loans : Seq(Loan), phase : Phase, next : Nat ]

\* Every variable has its type.
TypeOK ==
    /\ reserves \in [Assets -> Market]
    /\ config \in [Assets -> ReserveConfiguration]
    /\ usersConfig \in [Users -> UserConfiguration]
    /\ paused \in BOOLEAN
    /\ borrowAllowances \in [Assets -> [DebtModes -> [Users -> [Users -> Nat]]]]
    /\ wallet \in [Assets -> [Users -> Nat]]
    /\ prices \in [Assets -> Nat]
    /\ marketRates \in [Assets -> Nat]
    /\ flash \in Seq(Frame)
    /\ now \in Nat

setUsingAsCollateral(uc, user, asset, flag) ==
    [uc EXCEPT ![user].collateral = IF flag THEN @ \cup {asset} ELSE @ \ {asset}]

setBorrowing(uc, user, asset, flag) ==
    [uc EXCEPT ![user].borrowing = IF flag THEN @ \cup {asset} ELSE @ \ {asset}]
=============================================================================
