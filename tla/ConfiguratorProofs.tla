-------------------------- MODULE ConfiguratorProofs --------------------------
(***************************************************************************)
(* Theorems about the pool together with its administration.  Whatever the *)
(* admins set at whatever moment, the invariant of the pool alone holds:   *)
(* it needs nothing of the settings but their types.  What the pause stops *)
(* rests on one more invariant, that a paused pool has no flash loan in    *)
(* flight: lending and settling, unlike every other step, do not look at   *)
(* the pause. The freeze is a matter of each action: those that do not     *)
(* look at it mint no more than they burn, and the treasury's share once.  *)
(***************************************************************************)
EXTENDS LendingPoolConfigurator, LendingPoolProofs

PausedIdle == paused => flash = <<>>

ConfiguredInv == Inv /\ PausedIdle

-----------------------------------------------------------------------------
(* The admins                                                              *)

\* Everything but the settings.
others == <<reserves, usersConfig, borrowAllowances, wallet, prices, marketRates,
            flash, now>>

\* The admins change a setting to one of its type, between transactions.
LEMMA AdminTyped ==
    ASSUME Inv, AdminStep
    PROVE  /\ flash = <<>> /\ UNCHANGED others
           /\ config' \in [Assets -> ReserveConfiguration] /\ paused' \in BOOLEAN
<1> USE DEF others
<1>1. config \in [Assets -> ReserveConfiguration] /\ paused \in BOOLEAN
  BY DEF Inv, TypeOK
<1>2. ASSUME NEW a \in Assets, NEW c \in ReserveConfiguration, setConfiguration(a, c)
      PROVE  /\ flash = <<>> /\ UNCHANGED others
             /\ config' \in [Assets -> ReserveConfiguration] /\ paused' \in BOOLEAN
  BY <1>1, <1>2 DEF setConfiguration
<1>3. ASSUME NEW val \in BOOLEAN, setPoolPause(val)
      PROVE  /\ flash = <<>> /\ UNCHANGED others
             /\ config' \in [Assets -> ReserveConfiguration] /\ paused' \in BOOLEAN
  BY <1>1, <1>3 DEF setPoolPause
<1>4. CASE \E val \in BOOLEAN : setPoolPause(val)
  BY <1>3, <1>4
<1>5. ASSUME NEW a \in Assets, NEW flag \in BOOLEAN
      PROVE  /\ [config[a] EXCEPT !.borrowingEnabled = flag] \in ReserveConfiguration
             /\ [config[a] EXCEPT !.borrowingEnabled = TRUE,
                                  !.stableRateBorrowingEnabled = flag] \in ReserveConfiguration
             /\ [config[a] EXCEPT !.stableRateBorrowingEnabled = flag] \in ReserveConfiguration
             /\ [config[a] EXCEPT !.active = flag] \in ReserveConfiguration
             /\ [config[a] EXCEPT !.frozen = flag] \in ReserveConfiguration
  BY <1>1 DEF ReserveConfiguration
<1>6. ASSUME NEW a \in Assets, NEW x \in Nat, NEW y \in Nat, NEW z \in Nat
      PROVE  /\ [config[a] EXCEPT !.ltv = x, !.liquidationThreshold = y,
                                  !.liquidationBonus = z] \in ReserveConfiguration
             /\ [config[a] EXCEPT !.reserveFactor = x] \in ReserveConfiguration
  BY <1>1 DEF ReserveConfiguration
<1>7. ASSUME NEW a \in Assets, NEW st \in Strategy
      PROVE  [config[a] EXCEPT !.strategy = st] \in ReserveConfiguration
  BY <1>1 DEF ReserveConfiguration
<1>8. ASSUME NEW a \in Assets,
             \/ \E flag \in BOOLEAN :
                  enableBorrowingOnReserve(a, flag) \/ setReserveStableRate(a, flag)
             \/ disableBorrowingOnReserve(a)
             \/ activateReserve(a) \/ deactivateReserve(a)
             \/ freezeReserve(a) \/ unfreezeReserve(a)
      PROVE  \E c \in ReserveConfiguration : setConfiguration(a, c)
  BY <1>5, <1>8 DEF enableBorrowingOnReserve, setReserveStableRate, disableBorrowingOnReserve,
     activateReserve, deactivateReserve, freezeReserve, unfreezeReserve
<1>9. ASSUME NEW a \in Assets, NEW p \in CollateralParameters,
             configureReserveAsCollateral(a, p[1], p[2], p[3])
      PROVE  \E c \in ReserveConfiguration : setConfiguration(a, c)
  <2>1. p[1] \in Nat /\ p[2] \in Nat /\ p[3] \in Nat
    BY AdminAssumption
  <2> QED
    BY <1>6, <1>9, <2>1 DEF configureReserveAsCollateral
<1>10. ASSUME NEW a \in Assets, NEW factor \in ReserveFactors, setReserveFactor(a, factor)
       PROVE  \E c \in ReserveConfiguration : setConfiguration(a, c)
  <2>1. factor \in Nat
    BY AdminAssumption
  <2> QED
    BY <1>6, <1>10, <2>1 DEF setReserveFactor
<1>11. ASSUME NEW a \in Assets, NEW st \in Strategies,
              setReserveInterestRateStrategyAddress(a, st)
       PROVE  \E c \in ReserveConfiguration : setConfiguration(a, c)
  <2>1. st \in Strategy
    BY AdminAssumption
  <2> QED
    BY <1>7, <1>11, <2>1 DEF setReserveInterestRateStrategyAddress
<1>12. CASE \E a \in Assets : \E c \in ReserveConfiguration : setConfiguration(a, c)
  BY <1>2, <1>12
<1> QED
  BY <1>4, <1>8, <1>9, <1>10, <1>11, <1>12 DEF AdminStep

\* No setting is part of what the invariant says beyond types.
LEMMA AdminInv ==
    ASSUME Inv, AdminStep
    PROVE  Inv' /\ ReservesGrow /\ DebtsConsented
<1>1. /\ UNCHANGED others /\ config' \in [Assets -> ReserveConfiguration]
      /\ paused' \in BOOLEAN
  BY AdminTyped
<1>2. Inv'
  BY <1>1 DEF others, Inv, TypeOK, ReservesGood, FramesOK, BorrowingFlagged
<1>3. ReservesGrow
  BY <1>1, SameReserves DEF others
<1>4. DebtsConsented
  BY <1>1, SameConsented DEF others
<1> QED
  BY <1>2, <1>3, <1>4

-----------------------------------------------------------------------------
(* The pause                                                               *)

\* Every call that moves tokens looks at the pause and leaves the settings alone.
LEMMA UserCalls ==
    ASSUME UserStep
    PROVE  whenNotPaused /\ UNCHANGED environment
<1>1. ASSUME NEW u, NEW a, NEW amount, NEW w, deposit(u, a, amount, w)
      PROVE  whenNotPaused /\ UNCHANGED environment
  BY <1>1 DEF deposit
<1>2. ASSUME NEW u, NEW a, NEW amount, NEW w, transfer(u, a, w, amount)
      PROVE  whenNotPaused /\ UNCHANGED environment
  BY <1>2 DEF transfer
<1>3. ASSUME NEW u, NEW a, NEW amount, NEW w, NEW mode, borrow(u, a, amount, mode, w)
      PROVE  whenNotPaused /\ UNCHANGED environment
  BY <1>3 DEF borrow
<1>4. ASSUME NEW u, NEW a, NEW amount, NEW w, withdraw(u, a, amount, w)
      PROVE  whenNotPaused /\ UNCHANGED environment
  BY <1>4 DEF withdraw, withdrawOK
<1>5. ASSUME NEW u, NEW a, NEW amount, NEW w, NEW mode, repay(u, a, amount, mode, w)
      PROVE  whenNotPaused /\ UNCHANGED environment
  BY <1>5 DEF repay, repayOK
<1>6. ASSUME NEW u, NEW c, NEW a, NEW w, NEW amount, NEW receive,
             liquidationCall(u, c, a, w, amount, receive)
      PROVE  whenNotPaused /\ UNCHANGED environment
  BY <1>6 DEF liquidationCall, liquidationCallOK
<1> QED
  BY <1>1, <1>2, <1>3, <1>4, <1>5, <1>6 DEF UserStep, UserStepOf

\* Nothing of the pool's own code changes the pause.
LEMMA PauseKept ==
    ASSUME Next
    PROVE  paused' = paused
<1>1. CASE UserStep
  BY <1>1, UserCalls DEF environment
<1>2. CASE PositionStep
  BY <1>2 DEF PositionStep, PositionStepOf, rebalanceStableBorrowRate,
     setUserUseReserveAsCollateral, swapBorrowRateMode, approveDelegation, donate,
     environment
<1>3. CASE FlashStep
  BY <1>3 DEF FlashStep, FlashStepOf, flashLoan, lendFlashLoan, executeOperationReturns,
     collectFlashLoan, borrowFlashLoan, environment
<1>4. CASE EnvironmentStep
  BY <1>4 DEF EnvironmentStep, Tick, setAssetPrice, setMarketBorrowRate
<1> QED
  BY <1>1, <1>2, <1>3, <1>4 DEF Next

\* What a transfer of the underlying to the lToken contract changes of a reserve.
LEMMA AvailTokens ==
    ASSUME NEW m \in Market, NEW x, NEW n, n = [m EXCEPT !.avail = x]
    PROVE  n.l = m.l /\ n.v = m.v /\ n.s = m.s
  BY DEF Market

\* Between transactions a paused pool refuses every step that would move a
\* token or a flag: what is left is time, oracles, allowances and donations.
LEMMA PausedStep ==
    ASSUME Inv, paused, flash = <<>>, Next
    PROVE  /\ flash' = flash /\ usersConfig' = usersConfig
           /\ \A a \in Assets : /\ reserves'[a].l = reserves[a].l
                                /\ reserves'[a].v = reserves[a].v
                                /\ reserves'[a].s = reserves[a].s
<1>1. ~whenNotPaused /\ ~inPhase("lending") /\ ~inPhase("callback") /\ ~inPhase("settling")
  BY DEF whenNotPaused, inPhase
<1>2. ~UserStep
  BY <1>1, UserCalls
<1>3. ~FlashStep
  BY <1>1 DEF FlashStep, FlashStepOf, flashLoan, lendFlashLoan, executeOperationReturns,
     collectFlashLoan, borrowFlashLoan
<1>4. CASE EnvironmentStep
  BY <1>4 DEF EnvironmentStep, Tick, setAssetPrice, setMarketBorrowRate
<1>5. CASE PositionStep
  <2>1. PICK u \in Users, a \in Assets :
          \/ \E mode \in DebtModes, w \in Users \ {u}, amount \in Delegations :
               approveDelegation(u, a, mode, w, amount)
          \/ \E amount \in Donations : donate(u, a, amount)
    BY <1>1, <1>5 DEF PositionStep, PositionStepOf, rebalanceStableBorrowRate,
       swapBorrowRateMode, setUserUseReserveAsCollateral
  <2>2. CASE \E mode \in DebtModes, w \in Users \ {u}, amount \in Delegations :
               approveDelegation(u, a, mode, w, amount)
    BY <2>2 DEF approveDelegation
  <2>3. ASSUME NEW amount \in Donations, donate(u, a, amount)
        PROVE  /\ flash' = flash /\ usersConfig' = usersConfig
               /\ \A b \in Assets : /\ reserves'[b].l = reserves[b].l
                                    /\ reserves'[b].v = reserves[b].v
                                    /\ reserves'[b].s = reserves[b].s
    <3> DEFINE n == [reserves[a] EXCEPT !.avail = @ + amount]
    <3>1. reserves \in [Assets -> Market]
      BY DEF Inv, TypeOK
    <3>2. n.l = reserves[a].l /\ n.v = reserves[a].v /\ n.s = reserves[a].s
      BY <3>1, AvailTokens
    <3>3. reserves' = [reserves EXCEPT ![a] = n] /\ flash' = flash
          /\ usersConfig' = usersConfig
      BY <2>3 DEF donate
    <3> HIDE DEF n
    <3> QED
      BY <3>1, <3>2, <3>3
  <2> QED
    BY <2>1, <2>2, <2>3
<1> QED
  BY <1>2, <1>3, <1>4, <1>5 DEF Next

-----------------------------------------------------------------------------
(* The freeze                                                              *)

\* n is a reserve of a that has accrued, and shrunk since.
shrunk(a, n) == Good(n, now) /\ shrinks(accrue(reserves[a], a), n, now)

\* Frozen reserves only shrink: a step of FrozenOnlyShrinks.
FrozenShrinks ==
    \A a \in Assets : config[a].frozen =>
      /\ reserves'[a].lSupply <= accrue(reserves[a], a).lSupply
      /\ \A u \in Users :
           /\ reserves'[a].v[u] <= reserves[a].v[u]
           /\ now' = now => sBalanceOf(reserves'[a], u, now) <= sBalanceOf(reserves[a], u, now)

\* What accruing does to the tokens: the treasury's lTokens come on top, once in
\* a block.
LEMMA AccrueTokens ==
    ASSUME Inv, NEW a \in Assets, NEW m, Good(m, now), NEW n, n = accrue(m, a)
    PROVE  /\ Accrued(n, now) /\ Good(n, now) /\ n.v = m.v /\ sameStable(m, n)
           /\ m.lSupply <= n.lSupply
           /\ Accrued(m, now) => n.lSupply = m.lSupply
<1>1. now \in Nat /\ config[a].reserveFactor \in Nat
  BY ReserveFacts
<1>2. /\ Accrued(n, now) /\ sameDebts(m, n) /\ sameStable(m, n)
      /\ m.lSupply <= n.lSupply
  BY <1>1, UpdateState DEF accrue
<1>3. Accrued(m, now) => n.lSupply = m.lSupply
  BY <1>1, AccrualOnce DEF accrue
<1> QED
  BY <1>2, <1>3 DEF Accrued, sameDebts

\* A reserve nothing has happened to.
LEMMA ShrunkStart ==
    ASSUME Inv, NEW a \in Assets
    PROVE  shrunk(a, reserves[a])
<1> DEFINE m == reserves[a]
           n == accrue(m, a)
<1>1. Good(m, now) /\ now \in Nat
  BY ReserveFacts
<1>2. n.v = m.v /\ sameStable(m, n) /\ m.lSupply <= n.lSupply
  BY <1>1, AccrueTokens
<1> HIDE DEF n
<1>3. shrinks(m, m, now)
  BY <1>1, KeptShrinks DEF keepsTokens, sameStable
<1>4. \A w \in Users : sBalanceOf(n, w, now) = sBalanceOf(m, w, now)
  BY <1>2, StableUnmoved
<1>5. shrinks(n, m, now)
  BY <1>2, <1>3, <1>4 DEF shrinks
<1> QED
  BY <1>1, <1>5 DEF shrunk, n

\* A reserve that has accrued and nothing else.
LEMMA ShrunkAccrued ==
    ASSUME Inv, NEW a \in Assets
    PROVE  shrunk(a, accrue(reserves[a], a)) /\ Accrued(accrue(reserves[a], a), now)
<1>1. Good(reserves[a], now) /\ now \in Nat
  BY ReserveFacts
<1>2. Accrued(accrue(reserves[a], a), now) /\ Good(accrue(reserves[a], a), now)
  BY <1>1, AccrueTokens
<1> QED
  BY <1>1, <1>2, KeptShrinks DEF shrunk, keepsTokens, sameStable

\* What has shrunk may go on shrinking.
LEMMA ShrunkOn ==
    ASSUME Inv, NEW a \in Assets, NEW n, shrunk(a, n), NEW k, Good(k, now),
           shrinks(n, k, now)
    PROVE  shrunk(a, k)
<1>1. Good(accrue(reserves[a], a), now) /\ now \in Nat
  BY ShrunkAccrued, ReserveFacts DEF shrunk
<1> QED
  BY <1>1, ShrinksTransitive DEF shrunk

\* New rates and liquidity that moves.
LEMMA ShrunkQuietly ==
    ASSUME Inv, NEW a \in Assets, NEW n, shrunk(a, n), NEW added \in Nat,
           NEW taken \in Nat, NEW x \in Nat, NEW k,
           \/ ratesOK(n, a, added, taken) /\ k = withRates(n, a, added, taken)
           \/ k = [n EXCEPT !.avail = x]
    PROVE  shrunk(a, k)
<1>1. now \in Nat /\ Good(n, now) /\ n \in Market
  BY PoolTyped DEF shrunk, Good
<1>2. Good(k, now)
  BY <1>1, RatesGood, AvailGood
<1>3. keepsTokens(n, k)
  BY <1>1, TokensKept DEF withRates
<1> QED
  BY <1>1, <1>2, <1>3, KeptShrinks, ShrunkOn

\* A reserve that accrues, again in this block or for the first time, and pays
\* depositors out: withdraw(), and a liquidation that burns the collateral.
LEMMA ShrunkPayingOut ==
    ASSUME Inv, NEW a \in Assets, NEW m, shrunk(a, m),
           m = reserves[a] \/ Accrued(m, now), NEW u \in Users, NEW x \in Nat,
           NEW m1, m1 = accrue(m, a), NEW k, k = withRates(m1, a, 0, x),
           accrueOK(m, a), ratesOK(m1, a, 0, x),
           lBurnOK(k, u, x, k.liquidityIndex),
           NEW n, n = lBurn(k, u, x, k.liquidityIndex)
    PROVE  shrunk(a, n)
<1>1. now \in Nat /\ Good(m, now)
  BY PoolTyped DEF shrunk
<1>2. Accrued(m1, now) /\ Good(m1, now) /\ m1.v = m.v /\ sameStable(m, m1)
      /\ (Accrued(m, now) => m1.lSupply = m.lSupply)
  BY <1>1, AccrueTokens
<1>3. shrunk(a, m1)
  <2>1. CASE m = reserves[a]
    BY <2>1, ShrunkAccrued
  <2>2. CASE Accrued(m, now)
    BY <1>1, <1>2, <2>2, KeptShrinks, ShrunkOn DEF keepsTokens
  <2> QED
    BY <2>1, <2>2
<1>4. shrunk(a, k)
  <2>1. 0 \in Nat
    OBVIOUS
  <2> QED
    BY <1>3, <2>1, ShrunkQuietly
<1>5. Good(k, now) /\ k.liquidityIndex \in Nat /\ k.liquidityIndex > 0
  BY <1>4, RayAssumption DEF shrunk, Good, aboveRay, Market
<1>6. n \in Market /\ addsUp(n) /\ sameClock(k, n)
  BY <1>1, <1>5, LBurn
<1>7. Good(n, now) /\ shrinks(k, n, now)
  BY <1>1, <1>5, <1>6, SameClockGood, LBurnShrinks
<1> QED
  BY <1>4, <1>7, ShrunkOn

\* Repaying a debt of either kind.
LEMMA ShrunkRepaying ==
    ASSUME Inv, NEW a \in Assets, NEW m, shrunk(a, m), Accrued(m, now), NEW u \in Users,
           NEW amount \in Nat, NEW mode \in DebtModes, burnDebtOK(m, u, amount, mode),
           NEW n, n = burnDebt(m, u, amount, mode)
    PROVE  shrunk(a, n) /\ Accrued(n, now)
<1>1. now \in Nat /\ Good(m, now)
  BY PoolTyped DEF shrunk
<1>2. m.variableBorrowIndex \in Nat /\ m.variableBorrowIndex > 0
  BY <1>1, IndexPositive
<1>3. Accrued(n, now) /\ Good(n, now)
  BY BurnDebt DEF Accrued
<1>4. shrinks(m, n, now)
  <2>1. CASE mode = "stable"
    BY <1>1, <2>1, SBurnShrinks DEF burnDebtOK, burnDebt
  <2>2. CASE mode # "stable"
    BY <1>1, <1>2, <2>2, VBurnShrinks DEF burnDebtOK, burnDebt
  <2> QED
    BY <2>1, <2>2
<1> QED
  BY <1>3, <1>4, ShrunkOn

\* A liquidation burns variable debt, then stable debt.
LEMMA ShrunkLiquidating ==
    ASSUME Inv, NEW a \in Assets, NEW m, shrunk(a, m), Accrued(m, now), NEW u \in Users,
           NEW amount \in Nat, NEW variableDebt \in Nat,
           burnLiquidatedDebtOK(m, u, amount, variableDebt),
           NEW n, n = burnLiquidatedDebt(m, u, amount, variableDebt)
    PROVE  shrunk(a, n) /\ Accrued(n, now)
<1> DEFINE index == m.variableBorrowIndex
           k == vBurn(m, u, variableDebt, index)
           x == amount - variableDebt
<1>1. now \in Nat /\ Good(m, now) /\ m \in Market
  BY PoolTyped DEF shrunk, Good
<1>2. "stable" \in DebtModes /\ "variable" \in DebtModes
  BY DEF DebtModes, InterestRateMode
<1>3. ASSUME NEW y \in Nat, vBurnOK(m, u, y, index)
      PROVE  shrunk(a, vBurn(m, u, y, index)) /\ Accrued(vBurn(m, u, y, index), now)
  BY <1>2, <1>3, ShrunkRepaying DEF burnDebtOK, burnDebt
<1>4. ASSUME NEW j, shrunk(a, j), Accrued(j, now), NEW y \in Nat, sBurnOK(j, u, y, now)
      PROVE  shrunk(a, sBurn(j, u, y, now)) /\ Accrued(sBurn(j, u, y, now), now)
  BY <1>2, <1>4, ShrunkRepaying DEF burnDebtOK, burnDebt
<1>5. CASE variableDebt >= amount
  BY <1>3, <1>5 DEF burnLiquidatedDebtOK, burnLiquidatedDebt
<1>6. CASE ~(variableDebt >= amount) /\ variableDebt > 0
  <2>1. x \in Nat
    BY <1>6
  <2>2. /\ vBurnOK(m, u, variableDebt, index) /\ sBurnOK(m, u, x, now)
        /\ n = sBurn(k, u, x, now)
    BY <1>6 DEF burnLiquidatedDebtOK, burnLiquidatedDebt
  <2>3. sameStable(m, k)
    BY <1>1 DEF vBurn, sameStable, Market
  <2>4. shrunk(a, k) /\ Accrued(k, now)
    BY <1>3, <2>2
  <2> HIDE DEF k, x
  <2>5. sBurnOK(k, u, x, now)
    BY <2>2, <2>3, StableUnmoved DEF sBurnOK
  <2> QED
    BY <1>4, <2>1, <2>2, <2>4, <2>5
<1>7. CASE ~(variableDebt >= amount) /\ ~(variableDebt > 0)
  <2>1. x \in Nat /\ sBurnOK(m, u, x, now) /\ n = sBurn(m, u, x, now)
    BY <1>7 DEF burnLiquidatedDebtOK, burnLiquidatedDebt
  <2> HIDE DEF x
  <2> QED
    BY <1>4, <2>1
<1> QED
  BY <1>5, <1>6, <1>7

\* A step that leaves the reserves alone, in whatever block.
LEMMA NoneShrinks ==
    ASSUME Inv, reserves' = reserves
    PROVE  FrozenShrinks
<1>1. ASSUME NEW a \in Assets
      PROVE  /\ reserves[a].lSupply <= accrue(reserves[a], a).lSupply
             /\ \A u \in Users :
                  /\ reserves[a].v[u] \in Nat
                  /\ sBalanceOf(reserves[a], u, now) \in Nat
  <2>1. Good(reserves[a], now) /\ now \in Nat
    BY ReserveFacts
  <2>2. shrinks(accrue(reserves[a], a), reserves[a], now)
    BY ShrunkStart DEF shrunk
  <2>3. \A u \in Users : sBalanceOf(reserves[a], u, now) \in Nat
    BY <2>1, Balances
  <2> QED
    BY <2>1, <2>2, <2>3 DEF shrinks, Good, Market
<1> QED
  BY <1>1 DEF FrozenShrinks

\* Reserves that have all shrunk if they are frozen.
LEMMA AllShrink ==
    ASSUME Inv, now' = now, \A a \in Assets : config[a].frozen => shrunk(a, reserves'[a])
    PROVE  FrozenShrinks
<1>1. ASSUME NEW a \in Assets, config[a].frozen
      PROVE  /\ reserves'[a].lSupply <= accrue(reserves[a], a).lSupply
             /\ \A u \in Users :
                  /\ reserves'[a].v[u] <= reserves[a].v[u]
                  /\ sBalanceOf(reserves'[a], u, now) <= sBalanceOf(reserves[a], u, now)
  <2> DEFINE m == accrue(reserves[a], a)
  <2>1. Good(reserves[a], now) /\ now \in Nat
    BY ReserveFacts
  <2>2. m.v = reserves[a].v /\ sameStable(reserves[a], m)
    BY <2>1, AccrueTokens
  <2>3. shrinks(m, reserves'[a], now)
    BY <1>1 DEF shrunk
  <2> HIDE DEF m
  <2>4. \A u \in Users : sBalanceOf(m, u, now) = sBalanceOf(reserves[a], u, now)
    BY <2>2, StableUnmoved
  <2>5. reserves'[a].lSupply <= m.lSupply
    BY <2>3 DEF shrinks
  <2> QED
    BY <2>2, <2>3, <2>4, <2>5 DEF shrinks, m
<1> QED
  BY <1>1 DEF FrozenShrinks

\* A step that replaces one reserve.
LEMMA OneShrinks ==
    ASSUME Inv, NEW asset \in Assets, NEW n, config[asset].frozen => shrunk(asset, n),
           reserves' = [reserves EXCEPT ![asset] = n], now' = now
    PROVE  FrozenShrinks
<1>1. ASSUME NEW a \in Assets, config[a].frozen
      PROVE  shrunk(a, reserves'[a])
  <2>1. reserves \in [Assets -> Market]
    BY DEF Inv, TypeOK
  <2>2. CASE a = asset
    BY <1>1, <2>1, <2>2
  <2>3. CASE a # asset
    BY <2>1, <2>3, ShrunkStart
  <2> QED
    BY <2>2, <2>3
<1> QED
  BY <1>1, AllShrink

\* withdraw() burns lTokens.
LEMMA WithdrawShrinks ==
    ASSUME Inv, NEW sender \in Users, NEW asset \in Assets, NEW amount \in Nat,
           NEW to \in Users, withdraw(sender, asset, amount, to)
    PROVE  FrozenShrinks
<1> DEFINE m     == reserves[asset]
           taken == amountToWithdraw(sender, asset, amount)
           m1    == accrue(m, asset)
           k     == withRates(m1, asset, 0, taken)
           n     == lBurn(k, sender, taken, k.liquidityIndex)
<1>1. /\ accrueOK(m, asset) /\ ratesOK(m1, asset, 0, taken)
      /\ lBurnOK(k, sender, taken, k.liquidityIndex)
      /\ reserves' = [reserves EXCEPT ![asset] = n] /\ now' = now
  BY DEF withdraw, withdrawOK, reserveToWithdraw, environment
<1>2. Good(m, now) /\ now \in Nat
  BY ReserveFacts
<1>3. taken \in Nat
  BY <1>2, Balances DEF amountToWithdraw
<1>4. shrunk(asset, m) /\ m = reserves[asset]
  BY ShrunkStart
<1> HIDE DEF m, taken, m1, k, n
<1>5. shrunk(asset, n)
  BY <1>1, <1>3, <1>4, ShrunkPayingOut DEF m1, k, n
<1> QED
  BY <1>1, <1>5, OneShrinks

\* A transfer moves lTokens.
LEMMA TransferShrinks ==
    ASSUME Inv, NEW from \in Users, NEW asset \in Assets, NEW to \in Users,
           NEW amount \in Nat, transfer(from, asset, to, amount), Inv'
    PROVE  FrozenShrinks
<1> DEFINE m     == reserves[asset]
           index == getNormalizedIncome(m, now)
           n     == lTransfer(m, from, to, amount, index)
<1>1. reserves' = [reserves EXCEPT ![asset] = n] /\ now' = now
  BY DEF transfer, environment
<1>2. shrunk(asset, m) /\ now \in Nat /\ Good(m, now) /\ m \in Market
  BY ShrunkStart, PoolTyped DEF shrunk, Good
<1>3. keepsTokens(m, n)
  BY <1>2, TransferKeeps
<1>4. Good(n, now)
  <2>1. reserves \in [Assets -> Market] /\ reserves' \in [Assets -> Market]
    BY DEF Inv, TypeOK
  <2>2. Good(reserves'[asset], now)
    BY <1>1, <2>1 DEF Inv, ReservesGood, Good
  <2> QED
    BY <1>1, <2>1, <2>2
<1> HIDE DEF n, m
<1>5. shrunk(asset, n)
  BY <1>2, <1>3, <1>4, KeptShrinks, ShrunkOn
<1> QED
  BY <1>1, <1>5, OneShrinks

\* repay() burns debt.
LEMMA RepayShrinks ==
    ASSUME Inv, NEW sender \in Users, NEW asset \in Assets, NEW amount \in Nat,
           NEW mode \in DebtModes, NEW onBehalfOf \in Users,
           repay(sender, asset, amount, mode, onBehalfOf)
    PROVE  FrozenShrinks
<1> DEFINE paid == min(amount, debtOf(asset, onBehalfOf, mode))
           m1 == accrue(reserves[asset], asset)
           m2 == burnDebt(m1, onBehalfOf, paid, mode)
           r  == withRates(m2, asset, paid, 0)
           x  == r.avail + paid
           n  == [r EXCEPT !.avail = x]
<1>1. /\ burnDebtOK(m1, onBehalfOf, paid, mode) /\ ratesOK(m2, asset, paid, 0)
      /\ reserves' = [reserves EXCEPT ![asset] = n] /\ now' = now
  BY DEF repay, repayOK, reserveRepaid, environment
<1>2. paid \in Nat /\ 0 \in Nat
  BY DebtsNat DEF min
<1>3. shrunk(asset, m1) /\ Accrued(m1, now)
  BY ShrunkAccrued
<1> HIDE DEF paid, m1
<1>4. shrunk(asset, m2)
  BY <1>1, <1>2, <1>3, ShrunkRepaying
<1> HIDE DEF m2
<1>5. shrunk(asset, r)
  BY <1>1, <1>2, <1>4, ShrunkQuietly
<1>6. x \in Nat
  BY <1>2, <1>5 DEF shrunk, Good, Market
<1> HIDE DEF r, x
<1>7. shrunk(asset, n)
  BY <1>2, <1>5, <1>6, ShrunkQuietly
<1> QED
  BY <1>1, <1>7, OneShrinks

\* rebalanceStableBorrowRate(), which a freeze does not stop, burns a debt and
\* mints as much.
LEMMA RebalancedShrinks ==
    ASSUME Inv, NEW asset \in Assets, NEW u \in Users,
           rebalanceStableBorrowRate(asset, u)
    PROVE  FrozenShrinks
<1> DEFINE debt == stableDebtOf(asset, u)
           m1   == accrue(reserves[asset], asset)
           m2   == sBurn(m1, u, debt, now)
           rate == m2.currentStableBorrowRate
           m3   == sMint(m2, u, debt, rate, now)
           n    == withRates(m3, asset, 0, 0)
<1>1. /\ sBurnOK(m1, u, debt, now) /\ sMintOK(m2, u, debt, rate, now)
      /\ ratesOK(m3, asset, 0, 0)
      /\ reserves' = [reserves EXCEPT ![asset] = n] /\ now' = now
  BY DEF rebalanceStableBorrowRate, mintDebtOK, mintDebt, environment
<1>2. Good(reserves[asset], now) /\ now \in Nat /\ 0 \in Nat
  BY ReserveFacts
<1>3. sameStable(reserves[asset], m1) /\ Good(m1, now) /\ Accrued(m1, now)
  BY <1>2, AccrueTokens
<1>4. debt = sBalanceOf(m1, u, now) /\ shrunk(asset, m1)
  BY <1>3, StableUnmoved, ShrunkAccrued DEF stableDebtOf
<1>5. debt \in Nat
  BY <1>2, <1>3, <1>4, Balances
<1> HIDE DEF debt, m1
<1>6. Accrued(m2, now)
  BY <1>1, <1>2, <1>3, <1>5, SBurn
<1>7. rate \in Nat
  BY <1>6, IndexPositive DEF Accrued
<1>8. shrinks(m1, m3, now)
  BY <1>1, <1>2, <1>3, <1>4, <1>7, RebalanceShrinks
<1> HIDE DEF m2, rate
<1>9. Good(m3, now)
  BY <1>1, <1>2, <1>5, <1>6, <1>7, SMint DEF Accrued
<1> HIDE DEF m3
<1>10. shrunk(asset, m3)
  BY <1>4, <1>8, <1>9, ShrunkOn
<1>11. shrunk(asset, n)
  BY <1>1, <1>2, <1>10, ShrunkQuietly
<1> QED
  BY <1>1, <1>11, OneShrinks

\* What a liquidation takes of the collateral: lTokens or what they stand for.
LEMMA ShrunkSeizing ==
    ASSUME Inv, NEW c \in Assets, NEW m, shrunk(c, m),
           m = reserves[c] \/ Accrued(m, now),
           NEW sender \in Users, NEW u \in Users, NEW x \in Nat,
           NEW receiveLToken \in BOOLEAN, seizeOK(m, c, u, x, receiveLToken),
           NEW n, n = seize(m, c, sender, u, x, receiveLToken)
    PROVE  shrunk(c, n)
<1>1. now \in Nat /\ Good(m, now) /\ m \in Market
  BY PoolTyped DEF shrunk, Good
<1>2. CASE receiveLToken
  <2>1. n = lTransfer(m, u, sender, x, getNormalizedIncome(m, now))
    BY <1>2 DEF seize
  <2>2. keepsTokens(m, n)
    BY <1>1, <2>1, TransferKeeps
  <2>3. Good(n, now)
    BY <1>1, Seized
  <2> QED
    BY <1>1, <2>2, <2>3, KeptShrinks, ShrunkOn
<1>3. CASE ~receiveLToken
  <2> DEFINE m1 == accrue(m, c)
             k  == withRates(m1, c, 0, x)
  <2>1. /\ accrueOK(m, c) /\ ratesOK(m1, c, 0, x) /\ lBurnOK(k, u, x, k.liquidityIndex)
        /\ n = lBurn(k, u, x, k.liquidityIndex)
    BY <1>3 DEF seizeOK, seize
  <2> HIDE DEF m1, k
  <2> QED
    BY <2>1, ShrunkPayingOut DEF m1, k
<1> QED
  BY <1>2, <1>3

\* liquidationCall() burns debt in one reserve and takes collateral in another, or
\* both in the same.
LEMMA LiquidationShrinks ==
    ASSUME Inv, NEW sender \in Users, NEW c \in Assets, NEW d \in Assets, NEW u \in Users,
           NEW cover \in Nat, NEW receiveLToken \in BOOLEAN,
           liquidationCall(sender, c, d, u, cover, receiveLToken)
    PROVE  FrozenShrinks
<1> DEFINE seized == liquidated(c, d, u, cover).collateral
           debt   == liquidated(c, d, u, cover).debt
           variable == variableDebtOf(d, u)
           m1 == accrue(reserves[d], d)
           m2 == burnLiquidatedDebt(m1, u, debt, variable)
           r  == withRates(m2, d, debt, 0)
           rs == [reserves EXCEPT ![d] = r]
           k  == seize(rs[c], c, sender, u, seized, receiveLToken)
           rs1 == [rs EXCEPT ![c] = k]
           x  == rs1[d].avail + debt
           n  == [rs1[d] EXCEPT !.avail = x]
<1>1. /\ burnLiquidatedDebtOK(m1, u, debt, variable) /\ ratesOK(m2, d, debt, 0)
      /\ seizeOK(rs[c], c, u, seized, receiveLToken)
      /\ priced(c) /\ priced(d)
      /\ reserves' = [rs1 EXCEPT ![d] = n] /\ now' = now
  BY DEF liquidationCall, liquidationCallOK, validateLiquidationCall, debtReserveBurnt,
         reservesBurnt, environment
<1>2. seized \in Nat /\ debt \in Nat /\ 0 \in Nat
  BY <1>1, LiquidatedNat
<1>3. "stable" \in DebtModes
  BY DEF DebtModes, InterestRateMode
<1>4. variable \in Nat
  BY <1>3, DebtsNat
<1>5. shrunk(d, m1) /\ Accrued(m1, now)
  BY ShrunkAccrued
<1> HIDE DEF seized, debt, variable, m1
<1>6. shrunk(d, m2) /\ Accrued(m2, now)
  BY <1>1, <1>2, <1>4, <1>5, ShrunkLiquidating
<1> HIDE DEF m2
<1>7. shrunk(d, r) /\ Accrued(r, now)
  <2>1. shrunk(d, r)
    BY <1>1, <1>2, <1>6, ShrunkQuietly
  <2>2. sameClock(m2, r)
    BY <1>1, <1>2, <1>6, RatesGood DEF shrunk
  <2> QED
    BY <1>6, <2>1, <2>2 DEF shrunk, Accrued, sameClock
<1> HIDE DEF r
<1>8. rs \in [Assets -> Market] /\ \A a \in Assets : shrunk(a, rs[a])
  <2>1. reserves \in [Assets -> Market] /\ r \in Market
    BY <1>7 DEF Inv, TypeOK, shrunk, Good
  <2> QED
    BY <1>7, <2>1, ShrunkStart
<1>9. rs[c] = reserves[c] \/ Accrued(rs[c], now)
  <2>1. reserves \in [Assets -> Market]
    BY DEF Inv, TypeOK
  <2> QED
    BY <1>7, <2>1
<1> HIDE DEF rs
<1>10. shrunk(c, k)
  BY <1>1, <1>2, <1>8, <1>9, ShrunkSeizing
<1> HIDE DEF k
<1>11. rs1 \in [Assets -> Market] /\ \A a \in Assets : shrunk(a, rs1[a])
  <2>1. k \in Market
    BY <1>10 DEF shrunk, Good
  <2> QED
    BY <1>8, <1>10, <2>1
<1> HIDE DEF rs1
<1>12. x \in Nat
  <2>1. rs1[d].avail \in Nat
    BY <1>11 DEF Market
  <2> QED
    BY <1>2, <2>1
<1> HIDE DEF x
<1>13. shrunk(d, n)
  BY <1>2, <1>11, <1>12, ShrunkQuietly
<1> HIDE DEF n
<1>14. \A a \in Assets : shrunk(a, reserves'[a])
  BY <1>1, <1>11, <1>13
<1> QED
  BY <1>1, <1>14, AllShrink

\* Collecting a flash loan raises the index that lTokens are shown with, not
\* their number.
LEMMA CollectShrinks ==
    ASSUME Inv, collectFlashLoan
    PROVE  FrozenShrinks
<1> DEFINE ln == innermost.loans[innermost.next]
           a  == ln.asset
           premium == ln.premium
           back == ln.amount + premium
           m1 == accrue(reserves[a], a)
           m2 == cumulateToLiquidityIndex(m1, premium, now)
           r  == withRates(m2, a, back, 0)
           x  == r.avail + back
           n  == [r EXCEPT !.avail = x]
<1>1. /\ flash # <<>> /\ cumulateToLiquidityIndexOK(m1, premium, now)
      /\ ratesOK(m2, a, back, 0)
      /\ reserves' = [reserves EXCEPT ![a] = n] /\ now' = now
  BY DEF collectFlashLoan, inPhase, environment
<1>2. a \in Assets /\ ln.amount \in Nat /\ premium \in Nat
  BY <1>1, LoanTyped
<1>3. back \in Nat /\ 0 \in Nat
  BY <1>2
<1> HIDE DEF ln, a, premium, back
<1>4. shrunk(a, m1) /\ Accrued(m1, now) /\ now \in Nat
  BY <1>2, ShrunkAccrued, PoolTyped
<1> HIDE DEF m1
<1>5. shrunk(a, m2)
  <2>1. Good(m1, now) /\ m1 \in Market
    BY <1>4 DEF Accrued, Good
  <2>2. Good(m2, now)
    BY <1>1, <1>2, <1>4, Cumulate DEF Accrued
  <2>3. keepsTokens(m1, m2)
    BY <2>1, TokensKept
  <2> HIDE DEF m2
  <2> QED
    BY <1>2, <1>4, <2>1, <2>2, <2>3, KeptShrinks, ShrunkOn
<1> HIDE DEF m2
<1>6. shrunk(a, r)
  BY <1>1, <1>2, <1>3, <1>5, ShrunkQuietly
<1>7. x \in Nat
  BY <1>3, <1>6 DEF shrunk, Good, Market
<1> HIDE DEF r, x
<1>8. shrunk(a, n)
  BY <1>2, <1>3, <1>6, <1>7, ShrunkQuietly
<1> QED
  BY <1>1, <1>2, <1>8, OneShrinks

\* Underlying that comes or goes by itself.
LEMMA AvailShrinks ==
    ASSUME Inv, NEW a \in Assets, NEW x \in Nat, now' = now,
           reserves' = [reserves EXCEPT ![a] = [reserves[a] EXCEPT !.avail = x]]
    PROVE  FrozenShrinks
<1> DEFINE n == [reserves[a] EXCEPT !.avail = x]
<1>1. 0 \in Nat
  OBVIOUS
<1>2. shrunk(a, n)
  BY <1>1, ShrunkStart, ShrunkQuietly
<1>3. reserves' = [reserves EXCEPT ![a] = n]
  OBVIOUS
<1> HIDE DEF n
<1> QED
  BY <1>2, <1>3, OneShrinks

\* Depositing, borrowing and swapping are what a freeze stops.
LEMMA FreezeStops ==
    ASSUME Inv, NEW u, NEW w, NEW asset \in Assets, NEW amount, NEW mode,
           \/ deposit(u, asset, amount, w)
           \/ \E release \in BOOLEAN :
                _executeBorrow(u, w, asset, amount, mode, release) /\ now' = now
           \/ swapBorrowRateMode(u, asset, mode)
    PROVE  FrozenShrinks
<1>1. ~config[asset].frozen
  BY DEF deposit, validateDeposit, _executeBorrow, validateBorrow, swapBorrowRateMode,
         validateSwapRateMode
<1>2. now' = now /\ \E n : reserves' = [reserves EXCEPT ![asset] = n]
  <2>1. CASE deposit(u, asset, amount, w)
    BY <2>1 DEF deposit, environment
  <2>2. CASE \E release \in BOOLEAN :
               _executeBorrow(u, w, asset, amount, mode, release) /\ now' = now
    BY <2>2 DEF _executeBorrow
  <2>3. CASE swapBorrowRateMode(u, asset, mode)
    BY <2>3 DEF swapBorrowRateMode, environment
  <2> QED
    BY <2>1, <2>2, <2>3
<1> QED
  BY <1>1, <1>2, OneShrinks

\* What users do to a frozen reserve.
LEMMA UserShrinks ==
    ASSUME Inv, Inv', UserStep
    PROVE  FrozenShrinks
<1>1. PICK u \in Users, w \in Users, a \in Assets :
       \/ \E amount \in Amounts :
            \/ deposit(u, a, amount, w)
            \/ transfer(u, a, w, amount)
            \/ \E mode \in DebtModes : borrow(u, a, amount, mode, w)
       \/ \E amount \in AmountArgs :
            \/ withdraw(u, a, amount, w)
            \/ \E mode \in DebtModes : repay(u, a, amount, mode, w)
            \/ \E c \in Assets, receiveLToken \in BOOLEAN :
                 liquidationCall(u, c, a, w, amount, receiveLToken)
  BY DEF UserStep, UserStepOf
<1>2. Amounts \subseteq Nat /\ AmountArgs \subseteq Nat
  BY BoundsAssumption, UintAssumption DEF AmountArgs
<1>3. ASSUME NEW amount \in Amounts, deposit(u, a, amount, w)
      PROVE  FrozenShrinks
  BY <1>3, FreezeStops
<1>4. ASSUME NEW amount \in Amounts, transfer(u, a, w, amount)
      PROVE  FrozenShrinks
  BY <1>2, <1>4, TransferShrinks
<1>5. ASSUME NEW amount \in Amounts, NEW mode \in DebtModes, borrow(u, a, amount, mode, w)
      PROVE  FrozenShrinks
  <2>1. _executeBorrow(u, w, a, amount, mode, TRUE) /\ now' = now
    BY <1>5 DEF borrow, environment
  <2> QED
    BY <2>1, FreezeStops
<1>6. ASSUME NEW amount \in AmountArgs, withdraw(u, a, amount, w)
      PROVE  FrozenShrinks
  BY <1>2, <1>6, WithdrawShrinks
<1>7. ASSUME NEW amount \in AmountArgs, NEW mode \in DebtModes,
             repay(u, a, amount, mode, w)
      PROVE  FrozenShrinks
  BY <1>2, <1>7, RepayShrinks
<1>8. ASSUME NEW amount \in AmountArgs, NEW c \in Assets, NEW receiveLToken \in BOOLEAN,
             liquidationCall(u, c, a, w, amount, receiveLToken)
      PROVE  FrozenShrinks
  BY <1>2, <1>8, LiquidationShrinks
<1> QED
  BY <1>1, <1>3, <1>4, <1>5, <1>6, <1>7, <1>8

\* What else happens to a frozen reserve.
LEMMA OtherShrinks ==
    ASSUME Inv, PositionStep \/ FlashStep \/ EnvironmentStep
    PROVE  FrozenShrinks
<1>1. CASE PositionStep
  <2>1. PICK u \in Users, a \in Assets :
         \/ rebalanceStableBorrowRate(a, u)
         \/ \E flag \in BOOLEAN : setUserUseReserveAsCollateral(u, a, flag)
         \/ \E mode \in DebtModes : swapBorrowRateMode(u, a, mode)
         \/ \E mode \in DebtModes, w \in Users \ {u}, amount \in Delegations :
              approveDelegation(u, a, mode, w, amount)
         \/ \E amount \in Donations : donate(u, a, amount)
    BY <1>1 DEF PositionStep, PositionStepOf
  <2>2. CASE rebalanceStableBorrowRate(a, u)
    BY <2>2, RebalancedShrinks
  <2>3. CASE \/ \E flag \in BOOLEAN : setUserUseReserveAsCollateral(u, a, flag)
             \/ \E mode \in DebtModes, w \in Users \ {u}, amount \in Delegations :
                  approveDelegation(u, a, mode, w, amount)
    BY <2>3, NoneShrinks DEF setUserUseReserveAsCollateral, approveDelegation
  <2>4. CASE \E mode \in DebtModes : swapBorrowRateMode(u, a, mode)
    BY <2>4, FreezeStops
  <2>5. ASSUME NEW amount \in Donations, donate(u, a, amount)
        PROVE  FrozenShrinks
    <3> DEFINE x == reserves[a].avail + amount
    <3>1. reserves' = [reserves EXCEPT ![a] = [reserves[a] EXCEPT !.avail = x]]
          /\ now' = now
      BY <2>5 DEF donate, environment
    <3>2. x \in Nat
      BY ReserveFacts, BoundsAssumption
    <3> HIDE DEF x
    <3> QED
      BY <3>1, <3>2, AvailShrinks
  <2> QED
    BY <2>1, <2>2, <2>3, <2>4, <2>5
<1>2. CASE FlashStep
  <2>1. CASE lendFlashLoan
    <3> DEFINE ln == innermost.loans[innermost.next]
               a  == ln.asset
               x  == reserves[a].avail - ln.amount
    <3>1. /\ flash # <<>> /\ ln.amount <= reserves[a].avail /\ now' = now
          /\ reserves' = [reserves EXCEPT ![a] = [reserves[a] EXCEPT !.avail = x]]
      BY <2>1 DEF lendFlashLoan, inPhase, environment
    <3>2. a \in Assets /\ ln.amount \in Nat
      BY <3>1, LoanTyped
    <3> HIDE DEF ln, a
    <3>3. reserves[a].avail \in Nat
      BY <3>2, ReserveFacts
    <3>4. x \in Nat
      BY <3>1, <3>2, <3>3
    <3> HIDE DEF x
    <3> QED
      BY <3>1, <3>2, <3>4, AvailShrinks
  <2>2. CASE collectFlashLoan
    BY <2>2, CollectShrinks
  <2>3. CASE borrowFlashLoan
    <3> DEFINE ln == innermost.loans[innermost.next]
    <3>1. /\ flash # <<>> /\ now' = now
          /\ _executeBorrow(innermost.initiator, innermost.onBehalfOf, ln.asset,
                            ln.amount, ln.mode, FALSE)
      BY <2>3 DEF borrowFlashLoan, inPhase, environment
    <3>2. ln.asset \in Assets
      BY <3>1, LoanTyped
    <3> QED
      BY <3>1, <3>2, FreezeStops
  <2> QED
    BY <1>2, <2>1, <2>2, <2>3, NoneShrinks DEF FlashStep, FlashStepOf, flashLoan,
       executeOperationReturns
<1>3. CASE EnvironmentStep
  BY <1>3, NoneShrinks DEF EnvironmentStep, Tick, setAssetPrice, setMarketBorrowRate
<1> QED
  BY <1>1, <1>2, <1>3

-----------------------------------------------------------------------------
(* The theorems                                                            *)

\* A pool starts without flash loans, paused or not.
LEMMA ConfiguredInit == Init => ConfiguredInv
  BY InvInit DEF Init, ConfiguredInv, PausedIdle

\* The pool and its admins together preserve the invariant and the indexes.
LEMMA ConfiguredStep ==
    ASSUME ConfiguredInv, [Next \/ AdminStep]_vars
    PROVE  ConfiguredInv' /\ ReservesGrow /\ DebtsConsented
<1>1. Inv
  BY DEF ConfiguredInv
<1>2. Inv' /\ ReservesGrow /\ DebtsConsented
  BY <1>1, InvStep, AdminInv
<1>3. PausedIdle'
  <2>1. CASE UNCHANGED vars
    BY <2>1 DEF vars, ConfiguredInv, PausedIdle
  <2>2. CASE Next
    <3>1. paused' = paused
      BY <2>2, PauseKept
    <3>2. paused => flash' = <<>>
      BY <1>1, <2>2, PausedStep DEF ConfiguredInv, PausedIdle
    <3> QED
      BY <3>1, <3>2 DEF PausedIdle
  <2>3. CASE AdminStep
    BY <1>1, <2>3, AdminTyped DEF PausedIdle, others
  <2> QED
    BY <2>1, <2>2, <2>3
<1> QED
  BY <1>2, <1>3 DEF ConfiguredInv

\* The invariant is inductive for the pool and its admins.
LEMMA ConfiguredInvariance == ConfiguredSpec => []ConfiguredInv
<1>1. ConfiguredInv /\ [Next \/ AdminStep]_vars => ConfiguredInv'
  BY ConfiguredStep
<1> QED
  BY ConfiguredInit, <1>1, PTL DEF ConfiguredSpec

(* Whatever the admins set, every variable keeps its type: no accrual with *)
(* a reserve factor or a strategy changed under it gives a negative        *)
(* balance, supply, index or rate.                                         *)
THEOREM ConfiguredTypeCorrect == ConfiguredSpec => []TypeOK
<1>1. ConfiguredInv => TypeOK
  BY DEF ConfiguredInv, Inv
<1> QED
  BY ConfiguredInvariance, <1>1, PTL

(* Whatever the admins set, a debt is always flagged.                      *)
THEOREM ConfiguredDebtsFlagged == ConfiguredSpec => []BorrowingFlagged
<1>1. ConfiguredInv => BorrowingFlagged
  BY DEF ConfiguredInv, Inv
<1> QED
  BY ConfiguredInvariance, <1>1, PTL

(* Nor does a setting put a debt on an account or take a depositor's       *)
(* income: a new reserve factor or strategy is used from the next accrual  *)
(* on and changes nothing that was shown before.                           *)
THEOREM ConfiguredDebtsTaken == ConfiguredSpec => DebtConsented
<1>1. ConfiguredInv /\ [Next \/ AdminStep]_vars =>
        \A a \in Assets, u \in Users, mode \in DebtModes :
          debtGrows(a, u, mode) => Consent(a, u, mode)
  BY ConfiguredStep DEF DebtsConsented
<1> QED
  BY ConfiguredInvariance, <1>1, PTL DEF ConfiguredSpec, DebtConsented

(* A deposit is shown no smaller after any step of the pool or its admins. *)
THEOREM ConfiguredDepositsKept == ConfiguredSpec => DepositsNeverShrink
<1>1. ConfiguredInv /\ [Next \/ AdminStep]_vars =>
        \A a \in Assets, u \in Users :
          reserves[a].l[u] > 0 /\ reserves'[a].l[u] = reserves[a].l[u] =>
            lBalanceOf(reserves[a], u, now) <= lBalanceOf(reserves'[a], u, now')
  BY ConfiguredStep, DepositKept DEF ConfiguredInv
<1> QED
  BY ConfiguredInvariance, <1>1, PTL DEF ConfiguredSpec, DepositsNeverShrink

(* While the pool is paused no balance of its tokens and no flag of a user *)
(* changes: every entry point that moves one looks at the pause, and no    *)
(* flash loan is left to be lent or settled.                               *)
THEOREM PauseStopsAll == ConfiguredSpec => PausedStandsStill
<1> DEFINE Still == /\ usersConfig' = usersConfig
                    /\ \A a \in Assets : /\ reserves'[a].l = reserves[a].l
                                         /\ reserves'[a].v = reserves[a].v
                                         /\ reserves'[a].s = reserves[a].s
<1>1. ASSUME ConfiguredInv, [Next \/ AdminStep]_vars, paused
      PROVE  Still
  <2>1. Inv /\ flash = <<>>
    BY <1>1 DEF ConfiguredInv, PausedIdle
  <2>2. CASE UNCHANGED vars
    BY <2>2 DEF vars
  <2>3. CASE Next
    BY <1>1, <2>1, <2>3, PausedStep
  <2>4. CASE AdminStep
    BY <2>1, <2>4, AdminTyped DEF others
  <2> QED
    BY <1>1, <2>2, <2>3, <2>4
<1>2. ConfiguredInv /\ [Next \/ AdminStep]_vars => (paused => Still)
  BY <1>1
<1> QED
  BY ConfiguredInvariance, <1>2, PTL DEF ConfiguredSpec, PausedStandsStill

(* Reconfiguring, deactivating and pausing reserves, or doing so in the    *)
(* middle of other operations, leaves the scaled supplies the sums of the  *)
(* scaled balances.                                                        *)
THEOREM ConfiguredSupplies == ConfiguredSpec => []SuppliesAddUp
<1>1. ConfiguredInv => SuppliesAddUp
  BY GoodAddsUp DEF ConfiguredInv, Inv
<1> QED
  BY ConfiguredInvariance, <1>1, PTL

(* While a reserve is frozen its lTokens and its debts only shrink, but    *)
(* for the treasury's share and interest: what the settlement of a flash   *)
(* loan borrows is refused as any loan is, a rebalanced stable debt is     *)
(* minted again for what was burnt, and a liquidation in one and the same  *)
(* reserve, which accrues it twice, pays the treasury once.                *)
THEOREM FreezeHolds == ConfiguredSpec => FrozenOnlyShrinks
<1>1. ASSUME ConfiguredInv, [Next \/ AdminStep]_vars
      PROVE  FrozenShrinks
  <2>1. Inv /\ Inv'
    BY <1>1, ConfiguredStep DEF ConfiguredInv
  <2>2. CASE UNCHANGED vars
    BY <2>1, <2>2, NoneShrinks DEF vars
  <2>3. CASE Next
    BY <2>1, <2>3, UserShrinks, OtherShrinks DEF Next
  <2>4. CASE AdminStep
    BY <2>1, <2>4, AdminTyped, NoneShrinks DEF others
  <2> QED
    BY <1>1, <2>2, <2>3, <2>4
<1>2. ConfiguredInv /\ [Next \/ AdminStep]_vars => FrozenShrinks
  BY <1>1
<1> QED
  BY ConfiguredInvariance, <1>2, PTL DEF ConfiguredSpec, FrozenOnlyShrinks, FrozenShrinks
=============================================================================
