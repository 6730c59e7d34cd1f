-------------------------- MODULE LendingPoolProofs --------------------------
(***************************************************************************)
(* Theorems about the lending pool, for every set of users and assets,     *)
(* every configuration and every scale of the arithmetic.                  *)
(*                                                                         *)
(* Typing is not inductive by itself. The code divides by the indexes and  *)
(* subtracts timestamps, so Inv adds that indexes are at least one ray and *)
(* timestamps ordered (ReservesGood), and that a flash loan in flight has  *)
(* a loan left to lend or to settle (FramesOK). That the supplies are the  *)
(* sums of the balances is part of a reserve in good order, and            *)
(* BorrowingFlagged is inductive relative to these.                        *)
(*                                                                         *)
(* Each lemma about an action shows three things of a step from a state    *)
(* with Inv: Inv holds after it, no index and nothing shown by one is      *)
(* lowered (ReservesGrow), and nobody owes more without consent            *)
(* (DebtsConsented).                                                       *)
(***************************************************************************)
EXTENDS LendingPoolProperties, ReserveProofs, SequenceTheorems

ReservesGood ==
    \A a \in Assets :
      aboveRay(reserves[a]) /\ ordered(reserves[a], now) /\ addsUp(reserves[a])

frameOK(f) == 1 <= f.next /\ f.next <= Len(f.loans)

FramesOK == \A i \in 1..Len(flash) : frameOK(flash[i])

Inv == TypeOK /\ ReservesGood /\ FramesOK /\ BorrowingFlagged

\* No index is lowered, no depositor is shown less by the index of a reserve, and
\* no less of a variable debt is booked by it.
ReservesGrow ==
    \A a \in Assets :
      /\ reserves[a].liquidityIndex <= reserves'[a].liquidityIndex
      /\ reserves[a].variableBorrowIndex <= reserves'[a].variableBorrowIndex
      /\ getNormalizedIncome(reserves[a], now) <= getNormalizedIncome(reserves'[a], now')
      /\ newVariableBorrowIndex(reserves[a], now)
           <= newVariableBorrowIndex(reserves'[a], now')

\* Nobody owes more without consent: a step of DebtConsented.
DebtsConsented ==
    \A a \in Assets, u \in Users, mode \in DebtModes :
      debtGrows(a, u, mode) => Consent(a, u, mode)

-----------------------------------------------------------------------------
(* What the invariant says of the parts of the state                       *)

\* What the invariant says of one reserve, its settings and its market rate.
LEMMA ReserveFacts ==
    ASSUME Inv, NEW a \in Assets
    PROVE  /\ now \in Nat
           /\ Good(reserves[a], now)
           /\ config[a].reserveFactor \in Nat /\ config[a].strategy \in Strategy
           /\ marketRates[a] \in Nat
           /\ reserves[a].avail \in Nat
<1>1. now \in Nat /\ reserves[a] \in Market /\ marketRates[a] \in Nat
  BY DEF Inv, TypeOK
<1>2. config[a] \in ReserveConfiguration
  BY DEF Inv, TypeOK
<1>3. config[a].reserveFactor \in Nat /\ config[a].strategy \in Strategy
  BY <1>2 DEF ReserveConfiguration
<1>4. Good(reserves[a], now)
  BY <1>1 DEF Inv, ReservesGood, Good
<1>5. reserves[a].avail \in Nat
  BY <1>1 DEF Market
<1> QED
  BY <1>1, <1>3, <1>4, <1>5

\* accrue() on any market of an asset, not only the stored one: liquidationCall()
\* accrues the collateral reserve after the debt reserve.
LEMMA AccrueGood ==
    ASSUME Inv, NEW a \in Assets, NEW m, Good(m, now), accrueOK(m, a),
           NEW n, n = accrue(m, a)
    PROVE  /\ Accrued(n, now) /\ grows(m, n, now) /\ sameDebts(m, n) /\ sameStable(m, n)
           /\ n.avail = m.avail /\ n.sAvg = m.sAvg
           /\ n.liquidityIndex = getNormalizedIncome(m, now)
           /\ \A w \in Users \ {Treasury} : n.l[w] = m.l[w]
           /\ m.l[Treasury] <= n.l[Treasury]
           /\ n.variableBorrowIndex = newVariableBorrowIndex(m, now)
<1>1. now \in Nat /\ config[a].reserveFactor \in Nat
  BY ReserveFacts
<1> QED
  BY <1>1, UpdateState, NewIndexes DEF accrueOK, accrue

\* updateInterestRates() keeps a reserve in good order, moves no debt, and only
\* succeeds when what is taken is there.
LEMMA RatesGood ==
    ASSUME Inv, NEW a \in Assets, NEW m, Good(m, now), NEW added \in Nat,
           NEW taken \in Nat, ratesOK(m, a, added, taken),
           NEW n, n = withRates(m, a, added, taken)
    PROVE  /\ n \in Market /\ Good(n, now) /\ sameClock(m, n) /\ sameDebts(m, n)
           /\ n.avail = m.avail /\ n.l = m.l /\ taken <= n.avail + added
<1>1. /\ now \in Nat /\ config[a].reserveFactor \in Nat
      /\ config[a].strategy \in Strategy /\ marketRates[a] \in Nat
  BY ReserveFacts
<1>2. /\ n \in Market /\ addsUp(n) /\ sameClock(m, n) /\ sameDebts(m, n)
      /\ n.avail = m.avail /\ n.l = m.l /\ taken <= n.avail + added
  BY <1>1, UpdateInterestRates DEF ratesOK, withRates
<1> QED
  BY <1>1, <1>2, SameClockGood

\* Moving the underlying in or out touches nothing else.
LEMMA AvailGood ==
    ASSUME NEW t \in Nat, NEW m \in Market, Good(m, t), NEW x \in Nat,
           NEW n, n = [m EXCEPT !.avail = x]
    PROVE  /\ n \in Market /\ Good(n, t) /\ sameClock(m, n) /\ sameDebts(m, n)
           /\ n.avail = x /\ n.l = m.l /\ sameRate(m, n)
<1>1. /\ n.l = m.l /\ n \in Market /\ sameClock(m, n) /\ sameDebts(m, n) /\ n.avail = x
      /\ sameRate(m, n) /\ sameBooks(m, n)
  BY DEF Market, sameClock, sameDebts, sameRate, sameBooks
<1>2. addsUp(n)
  BY <1>1, SameBooksAddUp DEF Good
<1> QED
  BY <1>1, <1>2, SameClockGood

\* An update that keeps the clock of an accrued reserve keeps its growth so far.
LEMMA AccruedGrows ==
    ASSUME NEW t \in Nat, NEW m, NEW n, NEW k, Accrued(n, t), sameClock(n, k),
           grows(m, n, t)
    PROVE  grows(m, k, t)
  BY SameClockGrows DEF Accrued, sameClock, keepsRate

\* An update that keeps clock and rate loses nothing, accrued or not.
LEMMA SameRateGrows ==
    ASSUME NEW t \in Nat, NEW m, NEW n, Good(m, t), sameClock(m, n), sameRate(m, n)
    PROVE  grows(m, n, t)
  BY GrowsReflexive, SameClockGrows DEF keepsRate

\* A step that replaces one reserve by one in good order with indexes at least
\* as high.
LEMMA OneReserve ==
    ASSUME Inv, NEW asset \in Assets, NEW n, Good(n, now),
           grows(reserves[asset], n, now),
           reserves' = [reserves EXCEPT ![asset] = n], now' = now
    PROVE  reserves' \in [Assets -> Market] /\ ReservesGood' /\ ReservesGrow
<1>1. reserves \in [Assets -> Market] /\ n \in Market
  BY DEF Inv, TypeOK, Good
<1>2. reserves' \in [Assets -> Market]
  BY <1>1
<1>3. ASSUME NEW a \in Assets
      PROVE  /\ aboveRay(reserves'[a]) /\ ordered(reserves'[a], now') /\ addsUp(reserves'[a])
             /\ grows(reserves[a], reserves'[a], now)
  <2>1. CASE a = asset
    <3>1. reserves'[a] = n
      BY <1>1, <2>1
    <3> QED
      BY <2>1, <3>1 DEF Good
  <2>2. CASE a # asset
    <3>1. reserves'[a] = reserves[a]
      BY <1>1, <2>2
    <3>2. Good(reserves[a], now) /\ now \in Nat
      BY ReserveFacts
    <3> QED
      BY <3>1, <3>2, GrowsReflexive DEF Good
  <2> QED
    BY <2>1, <2>2
<1> QED
  BY <1>2, <1>3 DEF ReservesGood, ReservesGrow, grows

\* A step that leaves the reserves and the time alone.
LEMMA SameReserves ==
    ASSUME Inv, reserves' = reserves, now' = now
    PROVE  reserves' \in [Assets -> Market] /\ ReservesGood' /\ ReservesGrow
<1>1. \A a \in Assets : grows(reserves[a], reserves[a], now)
  BY ReserveFacts, GrowsReflexive
<1>2. ReservesGrow
  BY <1>1 DEF ReservesGrow, grows
<1>3. ReservesGood'
  BY DEF Inv, ReservesGood
<1> QED
  BY <1>2, <1>3 DEF Inv, TypeOK

\* A wallet that pays or receives stays a natural number.
LEMMA WalletTyped ==
    ASSUME NEW w \in [Assets -> [Users -> Nat]], NEW asset \in Assets,
           NEW u \in Users, NEW x \in Nat
    PROVE  /\ w[asset][u] \in Nat
           /\ [w EXCEPT ![asset][u] = x] \in [Assets -> [Users -> Nat]]
  OBVIOUS

\* The setters of UserConfiguration keep the flags typed.
LEMMA FlagsTyped ==
    ASSUME NEW uc \in [Users -> UserConfiguration], NEW u \in Users, NEW a \in Assets,
           NEW flag \in BOOLEAN
    PROVE  /\ setUsingAsCollateral(uc, u, a, flag) \in [Users -> UserConfiguration]
           /\ setBorrowing(uc, u, a, flag) \in [Users -> UserConfiguration]
<1> DEFINE c == IF flag THEN uc[u].collateral \cup {a} ELSE uc[u].collateral \ {a}
           b == IF flag THEN uc[u].borrowing \cup {a} ELSE uc[u].borrowing \ {a}
<1>1. uc[u] \in UserConfiguration
  OBVIOUS
<1>2. c \in SUBSET Assets /\ b \in SUBSET Assets
  BY <1>1 DEF UserConfiguration
<1> HIDE DEF c, b
<1>3. /\ [uc[u] EXCEPT !.collateral = c] \in UserConfiguration
      /\ [uc[u] EXCEPT !.borrowing = b] \in UserConfiguration
  BY <1>1, <1>2 DEF UserConfiguration
<1>4. setUsingAsCollateral(uc, u, a, flag) = [uc EXCEPT ![u] = [uc[u] EXCEPT !.collateral = c]]
  BY DEF setUsingAsCollateral, c
<1>5. setBorrowing(uc, u, a, flag) = [uc EXCEPT ![u] = [uc[u] EXCEPT !.borrowing = b]]
  BY DEF setBorrowing, b
<1> QED
  BY <1>3, <1>4, <1>5

\* Where a flag and where a debt may change: BorrowingFlagged looks no further.
sameFlags(uc, ud) == \A u \in Users : ud[u].borrowing = uc[u].borrowing

\* setUsingAsCollateral() leaves every borrowing flag alone.
LEMMA CollateralKeepsFlags ==
    ASSUME NEW uc \in [Users -> UserConfiguration], NEW u \in Users, NEW a \in Assets,
           NEW flag \in BOOLEAN
    PROVE  sameFlags(uc, setUsingAsCollateral(uc, u, a, flag))
<1> DEFINE c == IF flag THEN uc[u].collateral \cup {a} ELSE uc[u].collateral \ {a}
           r == [uc[u] EXCEPT !.collateral = c]
<1>1. uc[u] \in UserConfiguration
  OBVIOUS
<1>2. setUsingAsCollateral(uc, u, a, flag) = [uc EXCEPT ![u] = r]
  BY DEF setUsingAsCollateral
<1> HIDE DEF c
<1>3. r.borrowing = uc[u].borrowing
  BY <1>1 DEF UserConfiguration
<1> HIDE DEF r
<1> QED
  BY <1>2, <1>3 DEF sameFlags

\* Between uc and ud only the flag of u and a may be cleared.
otherFlags(uc, ud, u, a) ==
    \A w \in Users, d \in Assets :
       d \in uc[w].borrowing => d \in ud[w].borrowing \/ (w = u /\ d = a)

\* setBorrowing() changes one flag of one user.
LEMMA BorrowingFlags ==
    ASSUME NEW uc \in [Users -> UserConfiguration], NEW u \in Users, NEW a \in Assets,
           NEW flag \in BOOLEAN, NEW ud, ud = setBorrowing(uc, u, a, flag)
    PROVE  otherFlags(uc, ud, u, a) /\ (flag = TRUE => a \in ud[u].borrowing)
<1> DEFINE b == IF flag THEN uc[u].borrowing \cup {a} ELSE uc[u].borrowing \ {a}
           r == [uc[u] EXCEPT !.borrowing = b]
<1>1. uc[u] \in UserConfiguration
  OBVIOUS
<1>2. ud = [uc EXCEPT ![u] = r]
  BY DEF setBorrowing
<1>3. r.borrowing = b
  BY <1>1 DEF UserConfiguration
<1>4. ud[u] = r /\ \A w \in Users \ {u} : ud[w] = uc[w]
  BY <1>2
<1> HIDE DEF r
<1> QED
  BY <1>3, <1>4 DEF otherFlags

\* One reserve changes, no debt and no flag does.
LEMMA SameDebtsFlagged ==
    ASSUME Inv, NEW asset \in Assets, NEW n, sameDebts(reserves[asset], n),
           reserves' = [reserves EXCEPT ![asset] = n],
           sameFlags(usersConfig, usersConfig')
    PROVE  BorrowingFlagged'
<1> SUFFICES ASSUME NEW u \in Users, NEW a \in Assets,
                    reserves'[a].s[u] > 0 \/ reserves'[a].v[u] > 0
             PROVE  a \in usersConfig'[u].borrowing
  BY DEF BorrowingFlagged
<1>1. reserves \in [Assets -> Market]
  BY DEF Inv, TypeOK
<1>2. reserves'[a].s = reserves[a].s /\ reserves'[a].v = reserves[a].v
  BY <1>1 DEF sameDebts
<1> QED
  BY <1>2 DEF Inv, BorrowingFlagged, sameFlags

\* One reserve changes, and in it only the debt of u; a flag other than u's
\* flag of this reserve is not cleared.
LEMMA OneDebtFlagged ==
    ASSUME Inv, NEW asset \in Assets, NEW u \in Users, NEW n,
           othersDebts(reserves[asset], n, u),
           reserves' = [reserves EXCEPT ![asset] = n],
           otherFlags(usersConfig, usersConfig', u, asset),
           n.s[u] > 0 \/ n.v[u] > 0 => asset \in usersConfig'[u].borrowing
    PROVE  BorrowingFlagged'
<1> SUFFICES ASSUME NEW w \in Users, NEW a \in Assets,
                    reserves'[a].s[w] > 0 \/ reserves'[a].v[w] > 0
             PROVE  a \in usersConfig'[w].borrowing
  BY DEF BorrowingFlagged
<1>1. reserves \in [Assets -> Market]
  BY DEF Inv, TypeOK
<1>2. CASE a = asset /\ w = u
  BY <1>1, <1>2
<1>3. CASE a # asset
  <2>1. reserves'[a] = reserves[a]
    BY <1>1, <1>3
  <2> QED
    BY <1>3, <2>1 DEF Inv, BorrowingFlagged, otherFlags
<1>4. CASE a = asset /\ w # u
  <2>1. reserves'[a] = n
    BY <1>1, <1>4
  <2>2. reserves'[a].s[w] = reserves[a].s[w] /\ reserves'[a].v[w] = reserves[a].v[w]
    BY <1>4, <2>1 DEF othersDebts
  <2> QED
    BY <1>4, <2>2 DEF Inv, BorrowingFlagged, otherFlags
<1> QED
  BY <1>2, <1>3, <1>4

\* The rest of the invariant, for a step that keeps the environment.
LEMMA StepTyped ==
    ASSUME Inv, reserves' \in [Assets -> Market], ReservesGood',
           wallet' \in [Assets -> [Users -> Nat]],
           usersConfig' \in [Users -> UserConfiguration],
           borrowAllowances' \in [Assets -> [DebtModes -> [Users -> [Users -> Nat]]]],
           flash' \in Seq(Frame), FramesOK',
           UNCHANGED environment, BorrowingFlagged'
    PROVE  Inv'
  BY DEF Inv, TypeOK, environment

\* A step outside the flash loans keeps their stack in order.
LEMMA SameFlash ==
    ASSUME Inv, flash' = flash
    PROVE  flash' \in Seq(Frame) /\ FramesOK'
  BY DEF Inv, TypeOK, FramesOK

\* The types of the variables most steps read.
LEMMA PoolTyped ==
    ASSUME Inv
    PROVE  /\ wallet \in [Assets -> [Users -> Nat]]
           /\ usersConfig \in [Users -> UserConfiguration]
           /\ borrowAllowances \in [Assets -> [DebtModes -> [Users -> [Users -> Nat]]]]
           /\ now \in Nat
  BY DEF Inv, TypeOK

\* What is owed is a natural number, and the balance shown is not below it.
LEMMA NoNewDebt ==
    ASSUME Inv, NEW a \in Assets, NEW u \in Users, NEW mode \in DebtModes,
           reserves'[a].v[u] = reserves[a].v[u], reserves'[a].s[u] = reserves[a].s[u]
    PROVE  ~debtGrows(a, u, mode)
<1>1. Good(reserves[a], now) /\ now \in Nat
  BY ReserveFacts
<1>2. reserves[a].v[u] \in Nat /\ reserves[a].s[u] \in Nat
  BY <1>1 DEF Good, Market
<1>3. stableDebtOf(a, u) \in Nat /\ reserves[a].s[u] <= stableDebtOf(a, u)
  BY <1>1, Balances DEF stableDebtOf
<1> QED
  BY <1>2, <1>3 DEF debtGrows

\* A step that leaves every debt alone takes none.
LEMMA SameConsented ==
    ASSUME Inv, \A a \in Assets, u \in Users :
                  reserves'[a].v[u] = reserves[a].v[u] /\ reserves'[a].s[u] = reserves[a].s[u]
    PROVE  DebtsConsented
  BY NoNewDebt DEF DebtsConsented

\* A debt is stable or variable.
LEMMA TwoModes ==
    ASSUME NEW mode \in DebtModes
    PROVE  mode = "stable" \/ mode = "variable"
  BY DEF DebtModes, InterestRateMode

\* A step that changes one reserve takes a debt at most there, and of one user.
LEMMA OneConsented ==
    ASSUME Inv, NEW asset \in Assets, NEW u \in Users, NEW n,
           othersDebts(reserves[asset], n, u), reserves' = [reserves EXCEPT ![asset] = n],
           n.v[u] > reserves[asset].v[u] => Consent(asset, u, "variable"),
           n.s[u] > stableDebtOf(asset, u) => Consent(asset, u, "stable")
    PROVE  DebtsConsented
<1> SUFFICES ASSUME NEW a \in Assets, NEW w \in Users, NEW mode \in DebtModes,
                    debtGrows(a, w, mode)
             PROVE  Consent(a, w, mode)
  BY DEF DebtsConsented
<1>1. reserves \in [Assets -> Market]
  BY DEF Inv, TypeOK
<1>2. a = asset
  BY <1>1, NoNewDebt
<1>3. reserves'[a] = n
  BY <1>1, <1>2
<1>4. w = u
  BY <1>2, <1>3, NoNewDebt DEF othersDebts
<1> QED
  BY <1>2, <1>3, <1>4, TwoModes DEF debtGrows

\* A step that changes one reserve but no debt and no borrowing flag.
LEMMA QuietStep ==
    ASSUME Inv, NEW asset \in Assets, NEW n, Good(n, now),
           grows(reserves[asset], n, now), sameDebts(reserves[asset], n),
           reserves' = [reserves EXCEPT ![asset] = n],
           wallet' \in [Assets -> [Users -> Nat]],
           usersConfig' \in [Users -> UserConfiguration],
           sameFlags(usersConfig, usersConfig'),
           flash' \in Seq(Frame), FramesOK',
           UNCHANGED <<environment, borrowAllowances>>
    PROVE  Inv' /\ ReservesGrow /\ DebtsConsented
<1>1. now' = now /\ UNCHANGED environment
  BY DEF environment
<1>2. reserves' \in [Assets -> Market] /\ ReservesGood' /\ ReservesGrow
  BY <1>1, OneReserve
<1>3. BorrowingFlagged'
  BY SameDebtsFlagged
<1>4. borrowAllowances' \in [Assets -> [DebtModes -> [Users -> [Users -> Nat]]]]
  BY PoolTyped
<1>5. DebtsConsented
  <2>1. reserves \in [Assets -> Market]
    BY DEF Inv, TypeOK
  <2>2. \A a \in Assets : sameDebts(reserves[a], reserves'[a])
    BY <2>1 DEF sameDebts
  <2> QED
    BY <2>2, SameConsented DEF sameDebts
<1> QED
  BY <1>1, <1>2, <1>3, <1>4, <1>5, StepTyped

\* A step that changes the debt of one user in one reserve.
LEMMA DebtStep ==
    ASSUME Inv, NEW asset \in Assets, NEW u \in Users, NEW n, Good(n, now),
           grows(reserves[asset], n, now), othersDebts(reserves[asset], n, u),
           reserves' = [reserves EXCEPT ![asset] = n],
           wallet' \in [Assets -> [Users -> Nat]],
           usersConfig' \in [Users -> UserConfiguration],
           otherFlags(usersConfig, usersConfig', u, asset),
           n.s[u] > 0 \/ n.v[u] > 0 => asset \in usersConfig'[u].borrowing,
           n.v[u] > reserves[asset].v[u] => Consent(asset, u, "variable"),
           n.s[u] > stableDebtOf(asset, u) => Consent(asset, u, "stable"),
           borrowAllowances' \in [Assets -> [DebtModes -> [Users -> [Users -> Nat]]]],
           flash' \in Seq(Frame), FramesOK', UNCHANGED environment
    PROVE  Inv' /\ ReservesGrow /\ DebtsConsented
<1>1. now' = now
  BY DEF environment
<1>2. reserves' \in [Assets -> Market] /\ ReservesGood' /\ ReservesGrow
  BY <1>1, OneReserve
<1>3. BorrowingFlagged'
  BY OneDebtFlagged
<1>4. DebtsConsented
  BY OneConsented
<1> QED
  BY <1>2, <1>3, <1>4, StepTyped

-----------------------------------------------------------------------------
(* Every action preserves the invariant and lowers no index                *)

\* deposit() preserves the invariant and lowers no index.
LEMMA DepositStep ==
    ASSUME Inv, NEW sender \in Users, NEW asset \in Assets, NEW amount \in Nat,
           NEW onBehalfOf \in Users, deposit(sender, asset, amount, onBehalfOf)
    PROVE  Inv' /\ ReservesGrow /\ DebtsConsented
<1> DEFINE m  == reserves[asset]
           m1 == accrue(m, asset)
           k  == withRates(m1, asset, amount, 0)
           x  == k.avail + amount
           m2 == [k EXCEPT !.avail = x]
           n  == lMint(m2, onBehalfOf, amount, m2.liquidityIndex)
           y  == wallet[asset][sender] - amount
<1>1. /\ accrueOK(m, asset) /\ ratesOK(m1, asset, amount, 0)
      /\ amount <= wallet[asset][sender]
      /\ reserves' = [reserves EXCEPT ![asset] = n]
      /\ wallet' = [wallet EXCEPT ![asset][sender] = y]
      /\ usersConfig' = IF m2.l[onBehalfOf] = 0
                        THEN setUsingAsCollateral(usersConfig, onBehalfOf, asset, TRUE)
                        ELSE usersConfig
      /\ UNCHANGED <<environment, flash>> /\ borrowAllowances' = borrowAllowances
      /\ now' = now
  BY DEF deposit, environment
<1>2. Good(m, now) /\ now \in Nat
  BY ReserveFacts
<1> HIDE DEF m
<1>3. /\ Accrued(m1, now) /\ grows(m, m1, now) /\ Good(m1, now)
      /\ sameDebts(m, m1)
  BY <1>1, <1>2, AccrueGood DEF Accrued
<1> HIDE DEF m1
<1>4. k \in Market /\ Good(k, now) /\ sameClock(m1, k) /\ sameDebts(m1, k)
  BY <1>1, <1>3, RatesGood
<1> HIDE DEF k
<1>5. x \in Nat
  BY <1>4 DEF Market
<1> HIDE DEF x
<1>6. m2 \in Market /\ Good(m2, now) /\ sameClock(k, m2) /\ sameDebts(k, m2)
  BY <1>2, <1>4, <1>5, AvailGood
<1> HIDE DEF m2
<1>7. m2.liquidityIndex \in Nat /\ m2.liquidityIndex > 0
  BY <1>6, RayAssumption DEF Good, aboveRay, Market
<1>8. n \in Market /\ addsUp(n) /\ sameClock(m2, n) /\ sameDebts(m2, n)
  BY <1>2, <1>6, <1>7, LMint
<1> HIDE DEF n
<1>9. Good(n, now)
  BY <1>2, <1>6, <1>8, SameClockGood
<1>10. grows(m, n, now)
  <2>1. sameClock(m1, n)
    BY <1>4, <1>6, <1>8 DEF sameClock
  <2> QED
    BY <1>2, <1>3, <2>1, AccruedGrows
<1>11. sameDebts(m, n)
  BY <1>3, <1>4, <1>6, <1>8 DEF sameDebts
<1>12. wallet' \in [Assets -> [Users -> Nat]]
  <2>1. wallet[asset][sender] \in Nat
    BY PoolTyped
  <2>2. y \in Nat
    BY <1>1, <2>1
  <2> HIDE DEF y
  <2> QED
    BY <1>1, <2>2, PoolTyped, WalletTyped
<1>13. usersConfig' \in [Users -> UserConfiguration]
  BY <1>1, PoolTyped, FlagsTyped
<1>14. sameFlags(usersConfig, usersConfig')
  BY <1>1, PoolTyped, CollateralKeepsFlags DEF sameFlags
<1> QED
  BY <1>1, <1>9, <1>10, <1>11, <1>12, <1>13, <1>14, SameFlash, QuietStep DEF m

\* withdraw() preserves the invariant and lowers no index.
LEMMA WithdrawStep ==
    ASSUME Inv, NEW sender \in Users, NEW asset \in Assets, NEW amount \in Nat,
           NEW to \in Users, withdraw(sender, asset, amount, to)
    PROVE  Inv' /\ ReservesGrow /\ DebtsConsented
<1> DEFINE m     == reserves[asset]
           taken == amountToWithdraw(sender, asset, amount)
           m1    == accrue(m, asset)
           k     == withRates(m1, asset, 0, taken)
           n     == lBurn(k, sender, taken, k.liquidityIndex)
           y     == wallet[asset][to] + taken
<1>1. /\ accrueOK(m, asset) /\ ratesOK(m1, asset, 0, taken)
      /\ lBurnOK(k, sender, taken, k.liquidityIndex)
      /\ reserves' = [reserves EXCEPT ![asset] = n]
      /\ wallet' = [wallet EXCEPT ![asset][to] = y]
      /\ usersConfig' = IF taken = lBalanceOf(reserves[asset], sender, now)
                        THEN setUsingAsCollateral(usersConfig, sender, asset, FALSE)
                        ELSE usersConfig
      /\ UNCHANGED <<environment, borrowAllowances>> /\ flash' = flash
  BY DEF withdraw, withdrawOK, reserveToWithdraw
<1>2. Good(m, now) /\ now \in Nat
  BY ReserveFacts
<1>3. taken \in Nat
  BY <1>2, Balances DEF amountToWithdraw
<1> HIDE DEF m, taken
<1>4. Accrued(m1, now) /\ grows(m, m1, now) /\ Good(m1, now) /\ sameDebts(m, m1)
  BY <1>1, <1>2, AccrueGood DEF Accrued
<1> HIDE DEF m1
<1>5. k \in Market /\ Good(k, now) /\ sameClock(m1, k) /\ sameDebts(m1, k)
  BY <1>1, <1>3, <1>4, RatesGood
<1> HIDE DEF k
<1>6. k.liquidityIndex \in Nat /\ k.liquidityIndex > 0
  BY <1>5, RayAssumption DEF Good, aboveRay, Market
<1>7. n \in Market /\ addsUp(n) /\ sameClock(k, n) /\ sameDebts(k, n)
  BY <1>1, <1>2, <1>3, <1>5, <1>6, LBurn
<1> HIDE DEF n
<1>8. Good(n, now) /\ grows(m, n, now) /\ sameDebts(m, n)
  <2>1. Good(n, now)
    BY <1>2, <1>5, <1>7, SameClockGood
  <2>2. sameClock(m1, n) /\ sameDebts(m, n)
    BY <1>4, <1>5, <1>7 DEF sameClock, sameDebts
  <2> QED
    BY <1>2, <1>4, <2>1, <2>2, AccruedGrows
<1>9. wallet' \in [Assets -> [Users -> Nat]]
  <2>1. wallet[asset][to] \in Nat
    BY PoolTyped
  <2>2. y \in Nat
    BY <1>3, <2>1
  <2> HIDE DEF y
  <2> QED
    BY <1>1, <2>2, PoolTyped, WalletTyped
<1>10. usersConfig' \in [Users -> UserConfiguration]
  BY <1>1, PoolTyped, FlagsTyped
<1>11. sameFlags(usersConfig, usersConfig')
  BY <1>1, PoolTyped, CollateralKeepsFlags DEF sameFlags
<1> QED
  BY <1>1, <1>8, <1>9, <1>10, <1>11, SameFlash, QuietStep DEF m

\* A transfer of lTokens with finalizeTransfer() preserves the invariant: it may
\* change collateral flags but no debt.
LEMMA TransferStep ==
    ASSUME Inv, NEW from \in Users, NEW asset \in Assets, NEW to \in Users,
           NEW amount \in Nat, transfer(from, asset, to, amount)
    PROVE  Inv' /\ ReservesGrow /\ DebtsConsented
<1> DEFINE m     == reserves[asset]
           index == getNormalizedIncome(m, now)
           n     == lTransfer(m, from, to, amount, index)
           uc1   == IF lBalanceOf(m, from, now) = amount
                    THEN setUsingAsCollateral(usersConfig, from, asset, FALSE)
                    ELSE usersConfig
           uc2   == IF lBalanceOf(m, to, now) = 0 /\ amount # 0
                    THEN setUsingAsCollateral(uc1, to, asset, TRUE)
                    ELSE uc1
<1>1. /\ lTransferOK(m, from, amount, index)
      /\ reserves' = [reserves EXCEPT ![asset] = n]
      /\ wallet' = wallet
      /\ usersConfig' = IF from # to THEN uc2 ELSE usersConfig
      /\ UNCHANGED <<environment, borrowAllowances>> /\ flash' = flash
  BY DEF transfer
<1>2. Good(m, now) /\ now \in Nat
  BY ReserveFacts
<1> HIDE DEF m
<1>3. index \in Nat /\ index > 0
  <2>1. index \in Nat /\ m.liquidityIndex <= index
    BY <1>2, NormalizedIncome
  <2>2. m.liquidityIndex \in Nat /\ m.liquidityIndex > 0
    BY <1>2, RayAssumption DEF Good, aboveRay, Market
  <2> HIDE DEF index
  <2> QED
    BY <2>1, <2>2
<1> HIDE DEF index
<1>4. n \in Market /\ addsUp(n) /\ sameClock(m, n) /\ sameDebts(m, n) /\ sameRate(m, n)
  BY <1>1, <1>2, <1>3, LTransfer
<1> HIDE DEF n
<1>5. Good(n, now) /\ grows(m, n, now)
  BY <1>2, <1>4, SameClockGood, SameRateGrows
<1>6. uc1 \in [Users -> UserConfiguration] /\ sameFlags(usersConfig, uc1)
  BY PoolTyped, FlagsTyped, CollateralKeepsFlags DEF sameFlags
<1> HIDE DEF uc1
<1>7. uc2 \in [Users -> UserConfiguration] /\ sameFlags(uc1, uc2)
  BY <1>6, FlagsTyped, CollateralKeepsFlags DEF sameFlags
<1> HIDE DEF uc2
<1>8. /\ usersConfig' \in [Users -> UserConfiguration]
      /\ sameFlags(usersConfig, usersConfig')
  BY <1>1, <1>6, <1>7, PoolTyped DEF sameFlags
<1>9. wallet' \in [Assets -> [Users -> Nat]]
  BY <1>1, PoolTyped
<1> QED
  BY <1>1, <1>4, <1>5, <1>8, <1>9, SameFlash, QuietStep DEF m

\* A step that leaves the reserves alone, and every borrowing flag.
LEMMA FlagsStep ==
    ASSUME Inv, reserves' = reserves, wallet' = wallet,
           usersConfig' \in [Users -> UserConfiguration],
           sameFlags(usersConfig, usersConfig'),
           borrowAllowances' \in [Assets -> [DebtModes -> [Users -> [Users -> Nat]]]],
           flash' \in Seq(Frame), FramesOK', UNCHANGED environment
    PROVE  Inv' /\ ReservesGrow /\ DebtsConsented
<1>1. reserves' \in [Assets -> Market] /\ ReservesGood' /\ ReservesGrow
  BY SameReserves DEF environment
<1>2. BorrowingFlagged'
  BY DEF Inv, BorrowingFlagged, sameFlags
<1>3. wallet' \in [Assets -> [Users -> Nat]]
  BY PoolTyped
<1> QED
  BY <1>1, <1>2, <1>3, SameConsented, StepTyped

\* setUserUseReserveAsCollateral() preserves the invariant.
LEMMA CollateralStep ==
    ASSUME Inv, NEW user \in Users, NEW asset \in Assets, NEW flag \in BOOLEAN,
           setUserUseReserveAsCollateral(user, asset, flag)
    PROVE  Inv' /\ ReservesGrow /\ DebtsConsented
<1>1. /\ usersConfig' = setUsingAsCollateral(usersConfig, user, asset, flag)
      /\ reserves' = reserves /\ wallet' = wallet /\ flash' = flash
      /\ borrowAllowances' = borrowAllowances /\ UNCHANGED environment
  BY DEF setUserUseReserveAsCollateral
<1>2. /\ usersConfig' \in [Users -> UserConfiguration]
      /\ sameFlags(usersConfig, usersConfig')
  BY <1>1, PoolTyped, FlagsTyped, CollateralKeepsFlags
<1> QED
  BY <1>1, <1>2, PoolTyped, SameFlash, FlagsStep

\* A credit allowance that is set or consumed stays a natural number.
LEMMA AllowanceTyped ==
    ASSUME Inv, NEW asset \in Assets, NEW mode \in DebtModes, NEW u \in Users,
           NEW w \in Users, NEW x \in Nat
    PROVE  /\ borrowAllowances[asset][mode][u][w] \in Nat
           /\ [borrowAllowances EXCEPT ![asset][mode][u][w] = x]
                \in [Assets -> [DebtModes -> [Users -> [Users -> Nat]]]]
<1> DEFINE D == [DebtModes -> [Users -> [Users -> Nat]]]
           f == borrowAllowances[asset]
           g == f[mode]
           h == g[u]
           h1 == [h EXCEPT ![w] = x]
           g1 == [g EXCEPT ![u] = h1]
           f1 == [f EXCEPT ![mode] = g1]
<1>1. f \in D /\ borrowAllowances \in [Assets -> D]
  BY PoolTyped
<1>2. g \in [Users -> [Users -> Nat]]
  BY <1>1
<1>3. h \in [Users -> Nat]
  BY <1>2
<1>4. h[w] \in Nat /\ h1 \in [Users -> Nat]
  BY <1>3
<1> HIDE DEF h1
<1>5. g1 \in [Users -> [Users -> Nat]]
  BY <1>2, <1>4
<1>6. f1 \in D
  <2> HIDE DEF g1, g
  <2> QED
    BY <1>1, <1>5
<1>7. [borrowAllowances EXCEPT ![asset][mode][u][w] = x]
        = [borrowAllowances EXCEPT ![asset] = f1]
  BY DEF h1
<1> HIDE DEF f1, D
<1>8. [borrowAllowances EXCEPT ![asset] = f1] \in [Assets -> D]
  BY <1>1, <1>6
<1> QED
  BY <1>4, <1>7, <1>8 DEF D

\* approveDelegation() preserves the invariant.
LEMMA ApproveStep ==
    ASSUME Inv, NEW u \in Users, NEW asset \in Assets, NEW mode \in DebtModes,
           NEW w \in Users, NEW amount \in Nat,
           approveDelegation(u, asset, mode, w, amount)
    PROVE  Inv' /\ ReservesGrow /\ DebtsConsented
<1>1. /\ borrowAllowances' = [borrowAllowances EXCEPT ![asset][mode][u][w] = amount]
      /\ reserves' = reserves /\ wallet' = wallet /\ flash' = flash
      /\ usersConfig' = usersConfig /\ UNCHANGED environment
  BY DEF approveDelegation
<1>2. borrowAllowances' \in [Assets -> [DebtModes -> [Users -> [Users -> Nat]]]]
  BY <1>1, AllowanceTyped
<1>3. /\ usersConfig' \in [Users -> UserConfiguration]
      /\ sameFlags(usersConfig, usersConfig')
  BY <1>1, PoolTyped DEF sameFlags
<1> QED
  BY <1>1, <1>2, <1>3, SameFlash, FlagsStep

\* Underlying that moves between a reserve and a wallet, and nothing else of
\* the reserve.
LEMMA AvailStep ==
    ASSUME Inv, NEW asset \in Assets, NEW x \in Nat, NEW u \in Users, NEW y \in Nat,
           reserves' = [reserves EXCEPT ![asset] = [reserves[asset] EXCEPT !.avail = x]],
           wallet' = [wallet EXCEPT ![asset][u] = y], usersConfig' = usersConfig,
           flash' \in Seq(Frame), FramesOK',
           UNCHANGED <<environment, borrowAllowances>>
    PROVE  Inv' /\ ReservesGrow /\ DebtsConsented
<1> DEFINE m == reserves[asset]
           n == [m EXCEPT !.avail = x]
<1>1. Good(m, now) /\ now \in Nat /\ m \in Market
  BY ReserveFacts DEF Good
<1>2. reserves' = [reserves EXCEPT ![asset] = n]
  BY DEF n
<1> HIDE DEF m
<1>3. /\ n \in Market /\ Good(n, now) /\ sameClock(m, n) /\ sameDebts(m, n)
      /\ sameRate(m, n)
  BY <1>1, AvailGood
<1> HIDE DEF n
<1>4. grows(m, n, now)
  BY <1>1, <1>3, SameRateGrows
<1>5. wallet' \in [Assets -> [Users -> Nat]]
  BY PoolTyped, WalletTyped
<1>6. /\ usersConfig' \in [Users -> UserConfiguration]
      /\ sameFlags(usersConfig, usersConfig')
  BY PoolTyped DEF sameFlags
<1> QED
  BY <1>2, <1>3, <1>4, <1>5, <1>6, QuietStep DEF m

\* Underlying sent straight to the lToken preserves the invariant.
LEMMA DonateStep ==
    ASSUME Inv, NEW u \in Users, NEW asset \in Assets, NEW amount \in Nat,
           donate(u, asset, amount)
    PROVE  Inv' /\ ReservesGrow /\ DebtsConsented
<1> DEFINE x == reserves[asset].avail + amount
           y == wallet[asset][u] - amount
<1>1. /\ amount <= wallet[asset][u]
      /\ reserves' = [reserves EXCEPT ![asset] = [reserves[asset] EXCEPT !.avail = x]]
      /\ wallet' = [wallet EXCEPT ![asset][u] = y] /\ usersConfig' = usersConfig
      /\ UNCHANGED <<environment, borrowAllowances>> /\ flash' = flash
  BY DEF donate
<1>2. reserves[asset].avail \in Nat /\ wallet[asset][u] \in Nat
  BY ReserveFacts, PoolTyped
<1>3. x \in Nat /\ y \in Nat
  BY <1>1, <1>2
<1> HIDE DEF x, y
<1> QED
  BY <1>1, <1>3, SameFlash, AvailStep

-----------------------------------------------------------------------------
(* The environment                                                         *)

\* A step of the environment touches no account.
untouched ==
    UNCHANGED <<reserves, usersConfig, borrowAllowances, wallet, flash, config, paused>>

\* Time, prices and market rates may change: the clock of a reserve never runs
\* ahead of the block.
LEMMA EnvironmentTyped ==
    ASSUME Inv, untouched, now' \in Nat, now <= now',
           prices' \in [Assets -> Nat], marketRates' \in [Assets -> Nat]
    PROVE  Inv' /\ ReservesGrow /\ DebtsConsented
<1>1. TypeOK' /\ FramesOK' /\ BorrowingFlagged'
  BY DEF Inv, TypeOK, FramesOK, BorrowingFlagged, untouched
<1>2. now \in Nat /\ reserves' = reserves
  BY DEF Inv, TypeOK, untouched
<1>3. ASSUME NEW a \in Assets
      PROVE  /\ aboveRay(reserves[a]) /\ ordered(reserves[a], now') /\ addsUp(reserves[a])
             /\ grows(reserves[a], reserves[a], now)
             /\ getNormalizedIncome(reserves[a], now)
                  <= getNormalizedIncome(reserves[a], now')
             /\ newVariableBorrowIndex(reserves[a], now)
                  <= newVariableBorrowIndex(reserves[a], now')
  <2>1. Good(reserves[a], now)
    BY ReserveFacts
  <2>2. reserves[a].lastUpdateTimestamp \in Nat
    BY <2>1 DEF Good, Market
  <2>3. aboveRay(reserves[a]) /\ ordered(reserves[a], now') /\ addsUp(reserves[a])
    BY <1>2, <2>1, <2>2 DEF Good, ordered
  <2> QED
    BY <1>2, <2>1, <2>3, GrowsReflexive, IncomeOverTime, DebtOverTime
<1>4. ReservesGood' /\ ReservesGrow
  BY <1>2, <1>3 DEF ReservesGood, ReservesGrow, grows
<1> QED
  BY <1>1, <1>2, <1>4, SameConsented DEF Inv

\* A block, a new price and a new market rate preserve the invariant.
LEMMA EnvironmentInv ==
    ASSUME Inv, EnvironmentStep
    PROVE  Inv' /\ ReservesGrow /\ DebtsConsented
<1>1. /\ now \in Nat /\ prices \in [Assets -> Nat]
      /\ marketRates \in [Assets -> Nat]
  BY DEF Inv, TypeOK
<1>2. CASE Tick
  BY <1>1, <1>2, EnvironmentTyped DEF Tick, untouched
<1>3. CASE \E a \in Assets : \E price \in PriceValues[a] : setAssetPrice(a, price)
  <2>1. PICK a \in Assets : \E price \in PriceValues[a] : setAssetPrice(a, price)
    BY <1>3
  <2>2. PICK price \in PriceValues[a] : setAssetPrice(a, price)
    BY <2>1
  <2>3. price \in Nat
    BY BoundsAssumption
  <2>4. prices' \in [Assets -> Nat]
    BY <1>1, <2>2, <2>3 DEF setAssetPrice
  <2>5. untouched /\ now' = now /\ marketRates' = marketRates
    BY <2>2 DEF setAssetPrice, untouched
  <2> QED
    BY <1>1, <2>4, <2>5, EnvironmentTyped
<1>4. CASE \E a \in Assets, rate \in MarketRateValues : setMarketBorrowRate(a, rate)
  <2>1. PICK a \in Assets, rate \in MarketRateValues : setMarketBorrowRate(a, rate)
    BY <1>4
  <2>2. rate \in Nat
    BY BoundsAssumption
  <2>3. marketRates' \in [Assets -> Nat]
    BY <1>1, <2>1, <2>2 DEF setMarketBorrowRate
  <2>4. untouched /\ now' = now /\ prices' = prices
    BY <2>1 DEF setMarketBorrowRate, untouched
  <2> QED
    BY <1>1, <2>3, <2>4, EnvironmentTyped
<1> QED
  BY <1>2, <1>3, <1>4 DEF EnvironmentStep

-----------------------------------------------------------------------------
(* Debts                                                                   *)

\* A reserve in good order has a variable index to divide by.
LEMMA IndexPositive ==
    ASSUME NEW m, Good(m, now)
    PROVE  /\ m.variableBorrowIndex \in Nat /\ m.variableBorrowIndex > 0
           /\ m.currentStableBorrowRate \in Nat
  BY RayAssumption DEF Good, aboveRay, Market

\* Vouches for the tokens whose clock does not move: they stay accrued.
LEMMA SameClockAccrued ==
    ASSUME now \in Nat, NEW m, NEW n \in Market, addsUp(n), sameClock(m, n),
           Accrued(m, now)
    PROVE  Accrued(n, now) /\ grows(m, n, now)
<1>1. Good(m, now) /\ grows(m, m, now)
  BY GrowsReflexive DEF Accrued
<1> QED
  BY <1>1, SameClockGood, AccruedGrows DEF Accrued, sameClock

\* Minting debt of either kind on an accrued reserve changes only the debtor.
LEMMA MintDebt ==
    ASSUME Inv, NEW m, Accrued(m, now), NEW u \in Users, NEW amount \in Nat,
           NEW mode \in DebtModes, mintDebtOK(m, u, amount, mode),
           NEW n, n = mintDebt(m, u, amount, mode)
    PROVE  /\ Accrued(n, now) /\ grows(m, n, now) /\ othersDebts(m, n, u)
           /\ n.avail = m.avail /\ n.l = m.l
           /\ mode = "stable" => n.v = m.v /\ n.s[u] = sBalanceOf(m, u, now) + amount
           /\ mode # "stable" => n.s = m.s
<1>1. now \in Nat /\ Good(m, now)
  BY PoolTyped DEF Accrued
<1>2. /\ m.variableBorrowIndex \in Nat /\ m.variableBorrowIndex > 0
      /\ m.currentStableBorrowRate \in Nat
  BY <1>1, IndexPositive
<1>3. CASE mode = "stable"
  <2>1. /\ sMintOK(m, u, amount, m.currentStableBorrowRate, now)
        /\ n = sMint(m, u, amount, m.currentStableBorrowRate, now)
    BY <1>3 DEF mintDebtOK, mintDebt
  <2> QED
    BY <1>1, <1>2, <1>3, <2>1, SMint
<1>4. CASE mode # "stable"
  <2>1. n = vMint(m, u, amount, m.variableBorrowIndex)
    BY <1>4 DEF mintDebt
  <2>2. /\ n \in Market /\ addsUp(n) /\ sameClock(m, n) /\ othersDebts(m, n, u)
        /\ n.avail = m.avail /\ n.s = m.s /\ n.l = m.l
    BY <1>1, <1>2, <2>1, VMint
  <2> QED
    BY <1>1, <1>4, <2>2, SameClockAccrued
<1> QED
  BY <1>3, <1>4

\* Burning leaves the other kind of debt alone, and of the stable debt exactly
\* the rest.
LEMMA BurnDebt ==
    ASSUME Inv, NEW m, Accrued(m, now), NEW u \in Users, NEW amount \in Nat,
           NEW mode \in DebtModes, burnDebtOK(m, u, amount, mode),
           NEW n, n = burnDebt(m, u, amount, mode)
    PROVE  /\ Accrued(n, now) /\ grows(m, n, now) /\ othersDebts(m, n, u)
           /\ n.avail = m.avail /\ n.l = m.l
           /\ mode = "stable" =>
                n.v = m.v /\ n.s[u] = sBalanceOf(m, u, now) - amount
           /\ mode # "stable" =>
                /\ n.s = m.s
                /\ n.v[u] = m.v[u] - rayDiv(amount, m.variableBorrowIndex)
                /\ rayDiv(amount, m.variableBorrowIndex) # 0
                /\ rayDiv(amount, m.variableBorrowIndex) <= m.v[u]
<1>1. now \in Nat /\ Good(m, now)
  BY PoolTyped DEF Accrued
<1>2. m.variableBorrowIndex \in Nat /\ m.variableBorrowIndex > 0
  BY <1>1, IndexPositive
<1>3. CASE mode = "stable"
  <2>1. sBurnOK(m, u, amount, now) /\ n = sBurn(m, u, amount, now)
    BY <1>3 DEF burnDebtOK, burnDebt
  <2> QED
    BY <1>1, <1>3, <2>1, SBurn
<1>4. CASE mode # "stable"
  <2>1. /\ vBurnOK(m, u, amount, m.variableBorrowIndex)
        /\ n = vBurn(m, u, amount, m.variableBorrowIndex)
    BY <1>4 DEF burnDebtOK, burnDebt
  <2>2. /\ n \in Market /\ addsUp(n) /\ sameClock(m, n) /\ othersDebts(m, n, u)
        /\ n.avail = m.avail /\ n.s = m.s /\ n.l = m.l
        /\ n.v[u] = m.v[u] - rayDiv(amount, m.variableBorrowIndex)
    BY <1>1, <1>2, <2>1, VBurn
  <2>3. /\ rayDiv(amount, m.variableBorrowIndex) # 0
        /\ rayDiv(amount, m.variableBorrowIndex) <= m.v[u]
    BY <2>1 DEF vBurnOK
  <2> QED
    BY <1>1, <1>4, <2>2, <2>3, SameClockAccrued
<1> QED
  BY <1>3, <1>4

\* A debt that is shown is a debt that is stored, hence flagged.
LEMMA ShownIsFlagged ==
    ASSUME Inv, NEW asset \in Assets, NEW u \in Users,
           stableDebtOf(asset, u) # 0 \/ variableDebtOf(asset, u) # 0
    PROVE  asset \in usersConfig[u].borrowing
<1> DEFINE m == reserves[asset]
<1>1. Good(m, now) /\ now \in Nat
  BY ReserveFacts
<1>2. m.s[u] \in Nat /\ m.v[u] \in Nat
  BY <1>1 DEF Good, Market
<1>3. getNormalizedDebt(m, now) \in Nat
  BY <1>1, NormalizedDebt
<1>4. m.s[u] = 0 => stableDebtOf(asset, u) = 0
  BY DEF stableDebtOf, sBalanceOf
<1>5. m.v[u] = 0 => variableDebtOf(asset, u) = 0
  BY <1>3, RayMulZero DEF variableDebtOf, vBalanceOf
<1>6. m.s[u] > 0 \/ m.v[u] > 0
  BY <1>2, <1>4, <1>5
<1> QED
  BY <1>6 DEF Inv, BorrowingFlagged

\* The debts shown are natural numbers.
LEMMA DebtsNat ==
    ASSUME Inv, NEW asset \in Assets, NEW u \in Users, NEW mode \in DebtModes
    PROVE  /\ stableDebtOf(asset, u) \in Nat /\ variableDebtOf(asset, u) \in Nat
           /\ debtOf(asset, u, mode) \in Nat
<1>1. Good(reserves[asset], now) /\ now \in Nat
  BY ReserveFacts
<1> QED
  BY <1>1, Balances DEF stableDebtOf, variableDebtOf, debtOf

\* Shorthands compose: what an operation on an accrued reserve did to it since.
LEMMA AccruedThen ==
    ASSUME now \in Nat, NEW m, NEW m1, NEW n, NEW u \in Users, Good(m, now),
           Accrued(m1, now), Accrued(n, now), grows(m, m1, now), grows(m1, n, now),
           sameDebts(m, m1) \/ othersDebts(m, m1, u), othersDebts(m1, n, u)
    PROVE  grows(m, n, now) /\ othersDebts(m, n, u)
<1>1. Good(m1, now) /\ Good(n, now)
  BY DEF Accrued
<1>2. grows(m, n, now)
  BY <1>1, GrowsTransitive
<1> QED
  BY <1>2 DEF sameDebts, othersDebts

\* The end of an operation on debts: new rates, and the underlying moves.
LEMMA RatesThen ==
    ASSUME Inv, NEW a \in Assets, NEW m, NEW n, NEW u \in Users, Accrued(n, now),
           grows(m, n, now), othersDebts(m, n, u),
           NEW added \in Nat, NEW taken \in Nat, ratesOK(n, a, added, taken),
           NEW r, r = withRates(n, a, added, taken),
           NEW x \in Nat, NEW k, k = r \/ k = [r EXCEPT !.avail = x]
    PROVE  /\ Good(k, now) /\ grows(m, k, now) /\ othersDebts(m, k, u)
           /\ sameDebts(n, k)
<1>1. Good(n, now) /\ now \in Nat
  BY PoolTyped DEF Accrued
<1>2. r \in Market /\ Good(r, now) /\ sameClock(n, r) /\ sameDebts(n, r)
  BY <1>1, RatesGood
<1>3. Good(k, now) /\ sameClock(n, k) /\ sameDebts(n, k)
  <2>1. CASE k = r
    BY <1>2, <2>1
  <2>2. CASE k = [r EXCEPT !.avail = x]
    <3>1. Good(k, now) /\ sameClock(r, k) /\ sameDebts(r, k)
      BY <1>1, <1>2, <2>2, AvailGood
    <3> QED
      BY <1>2, <3>1 DEF sameClock, sameDebts
  <2> QED
    BY <2>1, <2>2
<1>4. grows(m, k, now)
  BY <1>1, <1>3, AccruedGrows
<1> QED
  BY <1>3, <1>4 DEF sameDebts, othersDebts

\* _executeBorrow(), from borrow() or for a flash loan that becomes a debt.
LEMMA BorrowStep ==
    ASSUME Inv, NEW user \in Users, NEW onBehalfOf \in Users, NEW asset \in Assets,
           NEW amount \in Nat, NEW mode \in DebtModes, NEW release \in BOOLEAN,
           _executeBorrow(user, onBehalfOf, asset, amount, mode, release),
           \/ release
           \/ /\ settledBy(user, asset, mode)
              /\ innermost.loans[innermost.next].amount = amount,
           flash' \in Seq(Frame), FramesOK', UNCHANGED environment
    PROVE  Inv' /\ ReservesGrow /\ DebtsConsented
<1> DEFINE m  == reserves[asset]
           m1 == accrue(m, asset)
           m2 == mintDebt(m1, onBehalfOf, amount, mode)
           released == IF release THEN amount ELSE 0
           r  == withRates(m2, asset, 0, released)
           x  == r.avail - released
           n  == [r EXCEPT !.avail = x]
           first == IF mode = "stable" THEN sBalanceOf(m1, onBehalfOf, now) = 0
                                       ELSE m1.v[onBehalfOf] = 0
           allowance == borrowAllowances[asset][mode][onBehalfOf][user]
           rest == allowance - amount
           y  == wallet[asset][user] + released
<1>1. /\ accrueOK(m, asset) /\ mintDebtOK(m1, onBehalfOf, amount, mode)
      /\ ratesOK(m2, asset, 0, released)
      /\ user # onBehalfOf => amount <= allowance
      /\ amount # 0
      /\ reserves' = [reserves EXCEPT ![asset] = n]
      /\ usersConfig' = IF first THEN setBorrowing(usersConfig, onBehalfOf, asset, TRUE)
                        ELSE usersConfig
      /\ wallet' = [wallet EXCEPT ![asset][user] = y]
  BY DEF _executeBorrow, borrowAllowance, validateBorrow
<1>2. borrowAllowances' =
        IF user # onBehalfOf
        THEN [borrowAllowances EXCEPT ![asset][mode][onBehalfOf][user] = rest]
        ELSE borrowAllowances
  BY DEF _executeBorrow, borrowAllowance
<1>3. Good(m, now) /\ now \in Nat
  BY ReserveFacts
<1>4. released \in Nat /\ (release => released = amount)
  OBVIOUS
<1> HIDE DEF m, released
<1>5. /\ Accrued(m1, now) /\ grows(m, m1, now) /\ sameDebts(m, m1)
      /\ sameStable(m, m1)
  BY <1>1, <1>3, AccrueGood
<1> HIDE DEF m1
<1>6. /\ Accrued(m2, now) /\ grows(m1, m2, now) /\ othersDebts(m1, m2, onBehalfOf)
      /\ mode = "stable" => m2.v = m1.v
      /\ mode # "stable" => m2.s = m1.s
  BY <1>1, <1>5, MintDebt
<1> HIDE DEF m2
<1>7. grows(m, m2, now) /\ othersDebts(m, m2, onBehalfOf)
  BY <1>3, <1>5, <1>6, AccruedThen
<1>8. x \in Nat
  <2>1. Good(m2, now)
    BY <1>6 DEF Accrued
  <2>2. r \in Market /\ released <= r.avail + 0
    BY <1>1, <1>4, <2>1, RatesGood
  <2>3. r.avail \in Nat
    BY <2>2 DEF Market
  <2> HIDE DEF r
  <2> QED
    BY <1>4, <2>2, <2>3
<1> HIDE DEF x
<1>9. /\ Good(n, now) /\ grows(m, n, now) /\ othersDebts(m, n, onBehalfOf)
      /\ sameDebts(m2, n)
  <2>1. /\ 0 \in Nat /\ n = [r EXCEPT !.avail = x]
        /\ r = withRates(m2, asset, 0, released)
    OBVIOUS
  <2>2. Accrued(m2, now) /\ ratesOK(m2, asset, 0, released) /\ released \in Nat
    BY <1>1, <1>4, <1>6
  <2> HIDE DEF n, r
  <2> QED
    BY <1>7, <1>8, <2>1, <2>2, RatesThen
<1> HIDE DEF n, r
<1>10. wallet' \in [Assets -> [Users -> Nat]]
  <2>1. wallet[asset][user] \in Nat
    BY PoolTyped
  <2>2. y \in Nat
    BY <1>4, <2>1
  <2> HIDE DEF y
  <2> QED
    BY <1>1, <2>2, PoolTyped, WalletTyped
<1>11. borrowAllowances' \in [Assets -> [DebtModes -> [Users -> [Users -> Nat]]]]
  <2>1. CASE user = onBehalfOf
    BY <1>2, <2>1, PoolTyped
  <2>2. CASE user # onBehalfOf
    <3>1. allowance \in Nat /\ amount <= allowance
      BY <1>1, <2>2, AllowanceTyped
    <3> HIDE DEF allowance
    <3>2. rest \in Nat
      BY <3>1
    <3> HIDE DEF rest
    <3> QED
      BY <1>2, <2>2, <3>2, AllowanceTyped
  <2> QED
    BY <2>1, <2>2
<1>12. usersConfig' \in [Users -> UserConfiguration]
  BY <1>1, PoolTyped, FlagsTyped
<1>13. /\ otherFlags(usersConfig, usersConfig', onBehalfOf, asset)
       /\ asset \in usersConfig'[onBehalfOf].borrowing
  <2>1. CASE first
    <3>1. usersConfig' = setBorrowing(usersConfig, onBehalfOf, asset, TRUE)
      BY <1>1, <2>1
    <3> QED
      BY <3>1, PoolTyped, BorrowingFlags
  <2>2. CASE ~first
    <3>1. m.s[onBehalfOf] \in Nat /\ m.v[onBehalfOf] \in Nat
      BY <1>3 DEF Good, Market
    <3>2. m1.s[onBehalfOf] = m.s[onBehalfOf] /\ m1.v[onBehalfOf] = m.v[onBehalfOf]
      BY <1>5 DEF sameDebts
    <3>3. m.s[onBehalfOf] > 0 \/ m.v[onBehalfOf] > 0
      BY <2>2, <3>1, <3>2 DEF sBalanceOf
    <3>4. asset \in usersConfig[onBehalfOf].borrowing
      BY <3>3 DEF Inv, BorrowingFlagged, m
    <3> QED
      BY <1>1, <2>2, <3>4 DEF otherFlags
  <2> QED
    BY <2>1, <2>2
<1> HIDE DEF first
<1>14. Consent(asset, onBehalfOf, mode)
  <2>1. amount > 0
    BY <1>1
  <2>2. wallet \in [Assets -> [Users -> Nat]] /\ wallet[asset][user] \in Nat
    BY PoolTyped
  <2>3. release => wallet'[asset][user] = wallet[asset][user] + amount
    BY <1>1, <1>4, <2>2
  <2>4. release => /\ wallet'[asset][user] > wallet[asset][user]
                   /\ wallet'[asset][user] - wallet[asset][user] = amount
    BY <2>1, <2>2, <2>3
  <2>5. CASE user = onBehalfOf
    BY <2>4, <2>5 DEF Consent
  <2>6. CASE user # onBehalfOf
    <3>1. allowance \in Nat /\ amount <= allowance
      BY <1>1, <2>6, AllowanceTyped
    <3>2. borrowAllowances'[asset][mode][onBehalfOf][user] = rest
      BY <1>2, <2>6, PoolTyped
    <3>3. allowance - rest = amount
      BY <3>1
    <3>4. borrowAllowances[asset][mode][onBehalfOf][user]
            - borrowAllowances'[asset][mode][onBehalfOf][user] = amount
      BY <3>2, <3>3
    <3> HIDE DEF allowance, rest
    <3> QED
      BY <2>1, <2>4, <3>4 DEF Consent
  <2> QED
    BY <2>5, <2>6
<1>15. /\ n.v[onBehalfOf] > m.v[onBehalfOf] => mode = "variable"
       /\ n.s[onBehalfOf] > stableDebtOf(asset, onBehalfOf) => mode = "stable"
  <2>1. /\ m.v[onBehalfOf] \in Nat /\ m.s[onBehalfOf] \in Nat
        /\ stableDebtOf(asset, onBehalfOf) \in Nat
        /\ m.s[onBehalfOf] <= stableDebtOf(asset, onBehalfOf)
    BY <1>3, Balances DEF Good, Market, stableDebtOf, m
  <2>2. CASE mode = "stable"
    BY <1>5, <1>6, <1>9, <2>1, <2>2 DEF sameDebts
  <2>3. CASE mode # "stable"
    BY <1>5, <1>6, <1>9, <2>1, <2>3, TwoModes DEF sameDebts
  <2> QED
    BY <2>2, <2>3
<1> HIDE DEF y, rest, allowance
<1> QED
  BY <1>1, <1>9, <1>10, <1>11, <1>12, <1>13, <1>14, <1>15, DebtStep DEF m

\* Stable debt is read the same before and after the accrual.
LEMMA StableUnmoved ==
    ASSUME NEW m, NEW n, sameStable(m, n), NEW u \in Users
    PROVE  sBalanceOf(n, u, now) = sBalanceOf(m, u, now)
  BY DEF sameStable, sBalanceOf

\* Paying the whole variable debt, as shown before the accrual, burns all of
\* the scaled debt after it.
LEMMA WholeVariableDebt ==
    ASSUME Inv, NEW asset \in Assets, NEW u \in Users, NEW m1,
           Accrued(m1, now), sameDebts(reserves[asset], m1),
           m1.variableBorrowIndex = newVariableBorrowIndex(reserves[asset], now)
    PROVE  m1.v[u] <= rayDiv(variableDebtOf(asset, u), m1.variableBorrowIndex)
<1> DEFINE m == reserves[asset]
           up == getNormalizedDebt(m, now)
           down == m1.variableBorrowIndex
<1>1. Good(m, now) /\ now \in Nat /\ Good(m1, now)
  BY ReserveFacts DEF Accrued
<1>2. up \in Nat /\ down \in Nat /\ down <= up
  BY <1>1, NormalizedDebt, NewIndexes
<1>3. RAY <= down
  BY <1>1 DEF Good, aboveRay
<1>4. m.v[u] \in Nat /\ m1.v[u] = m.v[u]
  BY <1>1 DEF sameDebts, Good, Market
<1>5. variableDebtOf(asset, u) = rayMul(m1.v[u], up)
  BY <1>4 DEF variableDebtOf, vBalanceOf
<1> HIDE DEF m, up, down
<1> QED
  BY <1>2, <1>3, <1>4, <1>5, RayDivOfRayMul DEF down

\* repay() preserves the invariant: it clears the flag only of an account whose
\* debts, read before the accrual, are all burnt after it.
LEMMA RepayStep ==
    ASSUME Inv, NEW sender \in Users, NEW asset \in Assets, NEW amount \in Nat,
           NEW mode \in DebtModes, NEW onBehalfOf \in Users,
           repay(sender, asset, amount, mode, onBehalfOf)
    PROVE  Inv' /\ ReservesGrow /\ DebtsConsented
<1> DEFINE m  == reserves[asset]
           stable == stableDebtOf(asset, onBehalfOf)
           variable == variableDebtOf(asset, onBehalfOf)
           paid == min(amount, debtOf(asset, onBehalfOf, mode))
           m1 == accrue(m, asset)
           m2 == burnDebt(m1, onBehalfOf, paid, mode)
           r  == withRates(m2, asset, paid, 0)
           x  == r.avail + paid
           n  == [r EXCEPT !.avail = x]
           y  == wallet[asset][sender] - paid
<1>1. /\ accrueOK(m, asset) /\ burnDebtOK(m1, onBehalfOf, paid, mode)
      /\ ratesOK(m2, asset, paid, 0)
      /\ stable > 0 \/ variable > 0
      /\ paid <= wallet[asset][sender]
      /\ reserves' = [reserves EXCEPT ![asset] = n]
      /\ usersConfig' = IF stable + variable = paid
                        THEN setBorrowing(usersConfig, onBehalfOf, asset, FALSE)
                        ELSE usersConfig
      /\ wallet' = [wallet EXCEPT ![asset][sender] = y]
      /\ UNCHANGED environment /\ borrowAllowances' = borrowAllowances /\ flash' = flash
  BY DEF repay, repayOK, reserveRepaid, validateRepay, allRepaid
<1>2. Good(m, now) /\ now \in Nat
  BY ReserveFacts
<1>3. /\ stable \in Nat /\ variable \in Nat /\ paid \in Nat
      /\ mode = "stable" => paid <= stable
      /\ mode # "stable" => paid <= variable
  BY DebtsNat DEF min, debtOf
<1>4. stable = sBalanceOf(m, onBehalfOf, now) /\ variable = vBalanceOf(m, onBehalfOf, now)
  BY DEF stableDebtOf, variableDebtOf
<1>5. asset \in usersConfig[onBehalfOf].borrowing
  BY <1>1, <1>3, ShownIsFlagged
<1> HIDE DEF m, paid, stable
<1>6. /\ Accrued(m1, now) /\ grows(m, m1, now) /\ sameDebts(m, m1)
      /\ sameStable(m, m1) /\ m1.variableBorrowIndex = newVariableBorrowIndex(m, now)
  BY <1>1, <1>2, AccrueGood
<1> HIDE DEF m1
<1>7. /\ Accrued(m2, now) /\ grows(m1, m2, now) /\ othersDebts(m1, m2, onBehalfOf)
      /\ mode = "stable" =>
           m2.v = m1.v /\ m2.s[onBehalfOf] = sBalanceOf(m1, onBehalfOf, now) - paid
      /\ mode # "stable" =>
           /\ m2.s = m1.s
           /\ m2.v[onBehalfOf]
                = m1.v[onBehalfOf] - rayDiv(paid, m1.variableBorrowIndex)
           /\ rayDiv(paid, m1.variableBorrowIndex) <= m1.v[onBehalfOf]
  BY <1>1, <1>3, <1>6, BurnDebt
<1> HIDE DEF m2
<1>8. grows(m, m2, now) /\ othersDebts(m, m2, onBehalfOf)
  BY <1>2, <1>6, <1>7, AccruedThen
<1>9. x \in Nat
  <2>1. Good(m2, now)
    BY <1>7 DEF Accrued
  <2>2. r \in Market
    BY <1>1, <1>3, <2>1, RatesGood
  <2>3. r.avail \in Nat
    BY <2>2 DEF Market
  <2> HIDE DEF r
  <2> QED
    BY <1>3, <2>3
<1> HIDE DEF x
<1>10. /\ Good(n, now) /\ grows(m, n, now) /\ othersDebts(m, n, onBehalfOf)
       /\ sameDebts(m2, n)
  BY <1>1, <1>3, <1>7, <1>8, <1>9, RatesThen
<1> HIDE DEF n, r
<1>11. wallet' \in [Assets -> [Users -> Nat]]
  <2>1. wallet[asset][sender] \in Nat
    BY PoolTyped
  <2>2. y \in Nat
    BY <1>1, <1>3, <2>1
  <2> HIDE DEF y
  <2> QED
    BY <1>1, <2>2, PoolTyped, WalletTyped
<1>12. usersConfig' \in [Users -> UserConfiguration]
  BY <1>1, PoolTyped, FlagsTyped
<1>13. otherFlags(usersConfig, usersConfig', onBehalfOf, asset)
  <2>1. CASE stable + variable = paid
    <3>1. usersConfig' = setBorrowing(usersConfig, onBehalfOf, asset, FALSE)
      BY <1>1, <2>1
    <3> QED
      BY <3>1, PoolTyped, BorrowingFlags
  <2>2. CASE stable + variable # paid
    BY <1>1, <2>2 DEF otherFlags
  <2> QED
    BY <2>1, <2>2
<1>14. n.s[onBehalfOf] > 0 \/ n.v[onBehalfOf] > 0
         => asset \in usersConfig'[onBehalfOf].borrowing
  <2>1. CASE stable + variable # paid
    BY <1>1, <1>5, <2>1
  <2>2. CASE stable + variable = paid /\ mode = "stable"
    <3>1. paid = stable /\ variable = 0
      BY <1>3, <2>2
    <3>2. m.v[onBehalfOf] = 0
      <4>1. m.v[onBehalfOf] \in Nat
        BY <1>2 DEF Good, Market
      <4>2. m.v[onBehalfOf] <= variable
        BY <1>2, <1>4, Balances
      <4> QED
        BY <3>1, <4>1, <4>2
    <3>3. n.v[onBehalfOf] = 0
      BY <1>6, <1>7, <1>10, <2>2, <3>2 DEF sameDebts
    <3>4. n.s[onBehalfOf] = stable - paid
      BY <1>4, <1>6, <1>7, <1>10, <2>2, StableUnmoved DEF sameDebts
    <3> QED
      BY <1>3, <3>1, <3>3, <3>4
  <2>3. CASE stable + variable = paid /\ mode # "stable"
    <3>1. paid = variable /\ stable = 0
      BY <1>3, <2>3
    <3>2. m.s[onBehalfOf] = 0
      <4>1. m.s[onBehalfOf] \in Nat
        BY <1>2 DEF Good, Market
      <4>2. m.s[onBehalfOf] <= stable
        BY <1>2, <1>4, Balances
      <4> QED
        BY <3>1, <4>1, <4>2
    <3>3. n.s[onBehalfOf] = 0
      BY <1>6, <1>7, <1>10, <2>3, <3>2 DEF sameDebts
    <3>4. m1.v[onBehalfOf] <= rayDiv(paid, m1.variableBorrowIndex)
      BY <1>6, <3>1, WholeVariableDebt DEF m
    <3>5. m1.v[onBehalfOf] \in Nat /\ m1.variableBorrowIndex \in Nat
          /\ m1.variableBorrowIndex > 0
      BY <1>6, RayAssumption DEF Accrued, Good, aboveRay, Market
    <3>6. rayDiv(paid, m1.variableBorrowIndex) \in Nat
      BY <1>3, <3>5, RayDivNat
    <3>7. n.v[onBehalfOf] = 0
      BY <1>7, <1>10, <2>3, <3>4, <3>5, <3>6 DEF sameDebts
    <3> QED
      BY <3>3, <3>7
  <2> QED
    BY <2>1, <2>2, <2>3
<1>15. borrowAllowances' \in [Assets -> [DebtModes -> [Users -> [Users -> Nat]]]]
  BY <1>1, PoolTyped
<1>16. ~(n.v[onBehalfOf] > m.v[onBehalfOf])
  <2>1. m.v[onBehalfOf] \in Nat /\ m1.v[onBehalfOf] = m.v[onBehalfOf]
    BY <1>2, <1>6 DEF Good, Market, sameDebts
  <2>2. CASE mode = "stable"
    BY <1>7, <1>10, <2>1, <2>2 DEF sameDebts
  <2>3. CASE mode # "stable"
    <3>1. m1.variableBorrowIndex \in Nat /\ m1.variableBorrowIndex > 0
      BY <1>6, IndexPositive DEF Accrued
    <3>2. rayDiv(paid, m1.variableBorrowIndex) \in Nat
      BY <1>3, <3>1, RayDivNat
    <3> QED
      BY <1>7, <1>10, <2>1, <2>3, <3>2 DEF sameDebts
  <2> QED
    BY <2>2, <2>3
<1>17. ~(n.s[onBehalfOf] > stable)
  <2>1. m.s[onBehalfOf] \in Nat /\ m.s[onBehalfOf] <= stable
    BY <1>2, <1>4, Balances DEF Good, Market
  <2>2. CASE mode = "stable"
    <3>1. n.s[onBehalfOf] = stable - paid
      BY <1>4, <1>6, <1>7, <1>10, <2>2, StableUnmoved DEF sameDebts
    <3> QED
      BY <1>3, <3>1
  <2>3. CASE mode # "stable"
    <3>1. n.s[onBehalfOf] = m.s[onBehalfOf]
      BY <1>6, <1>7, <1>10, <2>3 DEF sameDebts
    <3> QED
      BY <1>3, <2>1, <3>1
  <2> QED
    BY <2>2, <2>3
<1> QED
  BY <1>1, <1>10, <1>11, <1>12, <1>13, <1>14, <1>15, <1>16, <1>17, SameFlash, DebtStep
     DEF m, stable

\* A debt burnt and minted again: swapBorrowRateMode() and
\* rebalanceStableBorrowRate().
LEMMA RemintStep ==
    ASSUME Inv, NEW asset \in Assets, NEW u \in Users, NEW debt \in Nat,
           NEW mode \in DebtModes, NEW newMode \in DebtModes,
           NEW m1, m1 = accrue(reserves[asset], asset), accrueOK(reserves[asset], asset),
           NEW m2, m2 = burnDebt(m1, u, debt, mode), burnDebtOK(m1, u, debt, mode),
           NEW m3, m3 = mintDebt(m2, u, debt, newMode), mintDebtOK(m2, u, debt, newMode),
           ratesOK(m3, asset, 0, 0),
           reserves' = [reserves EXCEPT ![asset] = withRates(m3, asset, 0, 0)],
           asset \in usersConfig[u].borrowing,
           newMode # "stable" => mode = "stable" /\ debt # 0,
           mode = "stable" => debt = stableDebtOf(asset, u),
           UNCHANGED <<environment, usersConfig, borrowAllowances, wallet, flash>>
    PROVE  Inv' /\ ReservesGrow /\ DebtsConsented
<1> DEFINE m == reserves[asset]
           n == withRates(m3, asset, 0, 0)
<1>1. Good(m, now) /\ now \in Nat
  BY ReserveFacts
<1>2. /\ Accrued(m1, now) /\ grows(m, m1, now) /\ sameDebts(m, m1)
      /\ sameStable(m, m1)
  BY <1>1, AccrueGood
<1>3. /\ Accrued(m2, now) /\ grows(m1, m2, now) /\ othersDebts(m1, m2, u)
      /\ mode = "stable" => m2.v = m1.v /\ m2.s[u] = sBalanceOf(m1, u, now) - debt
      /\ mode # "stable" =>
           /\ m2.v[u] = m1.v[u] - rayDiv(debt, m1.variableBorrowIndex)
           /\ rayDiv(debt, m1.variableBorrowIndex) # 0
           /\ rayDiv(debt, m1.variableBorrowIndex) <= m1.v[u]
  BY <1>2, BurnDebt
<1>4. /\ Accrued(m3, now) /\ grows(m2, m3, now) /\ othersDebts(m2, m3, u)
      /\ newMode = "stable" => m3.v = m2.v /\ m3.s[u] = sBalanceOf(m2, u, now) + debt
      /\ newMode # "stable" => m3.s = m2.s
  BY <1>3, MintDebt
<1>5. grows(m, m2, now) /\ othersDebts(m, m2, u)
  BY <1>1, <1>2, <1>3, AccruedThen
<1>6. grows(m, m3, now) /\ othersDebts(m, m3, u)
  BY <1>1, <1>3, <1>4, <1>5, AccruedThen
<1>7. /\ Good(n, now) /\ grows(m, n, now) /\ othersDebts(m, n, u)
      /\ sameDebts(m3, n)
  <2>1. 0 \in Nat
    OBVIOUS
  <2> QED
    BY <1>4, <1>6, <2>1, RatesThen
<1>8. otherFlags(usersConfig, usersConfig', u, asset)
  BY DEF otherFlags
<1>9. /\ wallet' \in [Assets -> [Users -> Nat]]
      /\ usersConfig' \in [Users -> UserConfiguration]
      /\ borrowAllowances' \in [Assets -> [DebtModes -> [Users -> [Users -> Nat]]]]
  BY PoolTyped
<1>10. flash' \in Seq(Frame) /\ FramesOK'
  BY SameFlash
<1> HIDE DEF n
<1>11. /\ m.v[u] \in Nat /\ m.s[u] \in Nat /\ m1.v[u] = m.v[u]
       /\ m1.variableBorrowIndex \in Nat /\ m1.variableBorrowIndex > 0
       /\ stableDebtOf(asset, u) \in Nat
  BY <1>1, <1>2, IndexPositive, Balances DEF Accrued, Good, Market, sameDebts, stableDebtOf, m
<1>12. reserves'[asset] = n
  <2>1. reserves \in [Assets -> Market]
    BY DEF Inv, TypeOK
  <2> QED
    BY <2>1 DEF n
<1>13. mode = "stable" => m2.s[u] = 0
  <2>1. mode = "stable" => debt = sBalanceOf(m1, u, now)
    BY <1>2, StableUnmoved DEF stableDebtOf, m
  <2> QED
    BY <1>3, <2>1
<1>14. n.v[u] > m.v[u] => Consent(asset, u, "variable")
  <2>1. CASE newMode = "stable"
    <3>1. rayDiv(debt, m1.variableBorrowIndex) \in Nat
      BY <1>11, RayDivNat
    <3>2. m2.v[u] <= m1.v[u]
      BY <1>3, <1>11, <3>1
    <3>3. n.v[u] = m2.v[u]
      BY <1>4, <1>7, <2>1 DEF sameDebts
    <3>4. n.v[u] \in Nat
      BY <1>7 DEF Good, Market
    <3> QED
      BY <1>11, <3>2, <3>3, <3>4
  <2>2. CASE newMode # "stable"
    <3>1. n.s[u] = 0
      BY <1>4, <1>7, <1>13, <2>2 DEF sameDebts
    <3>2. m.s[u] # 0
      BY <2>2 DEF stableDebtOf, sBalanceOf, m
    <3>3. n.s[u] < m.s[u]
      BY <1>11, <3>1, <3>2
    <3> QED
      BY <1>12, <3>3 DEF Consent, m
  <2> QED
    BY <2>1, <2>2
<1>15. n.s[u] > stableDebtOf(asset, u) => Consent(asset, u, "stable")
  <2>1. CASE mode = "stable"
    <3>1. n.s[u] = 0 \/ n.s[u] = debt
      <4>1. newMode = "stable" => m3.s[u] = 0 + debt
        BY <1>4, <1>13, <2>1 DEF sBalanceOf
      <4>2. newMode # "stable" => m3.s[u] = 0
        BY <1>4, <1>13, <2>1
      <4> QED
        BY <1>7, <4>1, <4>2 DEF sameDebts
    <3> QED
      BY <1>11, <2>1, <3>1
  <2>2. CASE mode # "stable"
    <3>1. rayDiv(debt, m1.variableBorrowIndex) \in Nat
      BY <1>11, RayDivNat
    <3>2. m2.v[u] < m1.v[u]
      BY <1>3, <1>11, <2>2, <3>1
    <3>3. n.v[u] = m2.v[u]
      BY <1>4, <1>7, <2>2 DEF sameDebts
    <3>4. n.v[u] < m.v[u]
      BY <1>11, <3>2, <3>3
    <3> QED
      BY <1>12, <3>4 DEF Consent, m
  <2> QED
    BY <2>1, <2>2
<1> QED
  BY <1>7, <1>8, <1>9, <1>10, <1>14, <1>15, DebtStep DEF n, m

\* swapBorrowRateMode() preserves the invariant: a debt that can be swapped is
\* shown, so it is flagged, and its flag stays.
LEMMA SwapStep ==
    ASSUME Inv, NEW u \in Users, NEW asset \in Assets, NEW mode \in DebtModes,
           swapBorrowRateMode(u, asset, mode)
    PROVE  Inv' /\ ReservesGrow /\ DebtsConsented
<1> DEFINE debt == debtOf(asset, u, mode)
           newMode == IF mode = "stable" THEN "variable" ELSE "stable"
           m1 == accrue(reserves[asset], asset)
           m2 == burnDebt(m1, u, debt, mode)
           m3 == mintDebt(m2, u, debt, newMode)
<1>1. debt \in Nat /\ stableDebtOf(asset, u) \in Nat /\ variableDebtOf(asset, u) \in Nat
  BY DebtsNat
<1>2. newMode \in DebtModes
  BY DEF DebtModes, InterestRateMode
<1>3. /\ accrueOK(reserves[asset], asset) /\ burnDebtOK(m1, u, debt, mode)
      /\ mintDebtOK(m2, u, debt, newMode) /\ ratesOK(m3, asset, 0, 0)
      /\ reserves' = [reserves EXCEPT ![asset] = withRates(m3, asset, 0, 0)]
      /\ UNCHANGED <<environment, usersConfig, borrowAllowances, wallet, flash>>
  BY DEF swapBorrowRateMode
<1>4. stableDebtOf(asset, u) > 0 \/ variableDebtOf(asset, u) > 0
  BY DEF swapBorrowRateMode, validateSwapRateMode
<1>5. asset \in usersConfig[u].borrowing
  BY <1>1, <1>4, ShownIsFlagged
<1>6. /\ newMode # "stable" => mode = "stable" /\ debt # 0
      /\ mode = "stable" => debt = stableDebtOf(asset, u)
  BY <1>1 DEF swapBorrowRateMode, validateSwapRateMode, debtOf
<1> HIDE DEF debt, newMode, m1, m2, m3
<1> QED
  BY <1>1, <1>2, <1>3, <1>5, <1>6, RemintStep DEF m1, m2, m3

\* Rebalancing an account without stable debt reverts: the debt token would
\* divide by the zero balance.
LEMMA RebalanceStep ==
    ASSUME Inv, NEW asset \in Assets, NEW u \in Users,
           rebalanceStableBorrowRate(asset, u)
    PROVE  Inv' /\ ReservesGrow /\ DebtsConsented
<1> DEFINE debt == stableDebtOf(asset, u)
           m1 == accrue(reserves[asset], asset)
           m2 == burnDebt(m1, u, debt, "stable")
           m3 == mintDebt(m2, u, debt, "stable")
<1>1. "stable" \in DebtModes
  BY DEF DebtModes, InterestRateMode
<1>2. debt \in Nat
  BY <1>1, DebtsNat
<1>3. /\ accrueOK(reserves[asset], asset) /\ burnDebtOK(m1, u, debt, "stable")
      /\ mintDebtOK(m2, u, debt, "stable") /\ ratesOK(m3, asset, 0, 0)
      /\ reserves' = [reserves EXCEPT ![asset] = withRates(m3, asset, 0, 0)]
      /\ UNCHANGED <<environment, usersConfig, borrowAllowances, wallet, flash>>
  BY DEF rebalanceStableBorrowRate, burnDebtOK, burnDebt
<1>4. Good(reserves[asset], now) /\ now \in Nat
  BY ReserveFacts
<1>5. Accrued(m1, now) /\ sameStable(reserves[asset], m1)
  BY <1>3, <1>4, AccrueGood
<1>6. debt = sBalanceOf(m1, u, now)
  BY <1>5, StableUnmoved DEF stableDebtOf
<1> HIDE DEF debt, m1
<1>7. m2.s[u] = sBalanceOf(m1, u, now) - debt
  BY <1>1, <1>2, <1>3, <1>5, BurnDebt
<1>8. m2.s[u] = 0
  BY <1>2, <1>6, <1>7
<1> HIDE DEF m2
<1>9. debt # 0
  BY <1>3, <1>8 DEF mintDebtOK, sMintOK, sBalanceOf
<1>10. asset \in usersConfig[u].borrowing
  BY <1>9, ShownIsFlagged DEF debt
<1> HIDE DEF m3
<1> QED
  BY <1>1, <1>2, <1>3, <1>10, RemintStep DEF m1, m2, m3, debt

-----------------------------------------------------------------------------
(* Flash loans                                                             *)

\* The flash loan on top of the stack is typed and at one of its loans.
LEMMA Innermost ==
    ASSUME Inv, flash # <<>>
    PROVE  /\ flash \in Seq(Frame) /\ Len(flash) \in Nat /\ Len(flash) >= 1
           /\ innermost \in Frame /\ frameOK(innermost)
<1>1. flash \in Seq(Frame)
  BY DEF Inv, TypeOK
<1>2. Len(flash) \in Nat /\ Len(flash) >= 1
  BY <1>1
<1>3. innermost \in Frame
  BY <1>1, <1>2 DEF innermost
<1>4. frameOK(innermost)
  BY <1>2 DEF Inv, FramesOK, innermost
<1> QED
  BY <1>1, <1>2, <1>3, <1>4

\* The loan at which the innermost flash loan is.
LEMMA LoanTyped ==
    ASSUME Inv, flash # <<>>, NEW ln, ln = innermost.loans[innermost.next]
    PROVE  /\ ln.asset \in Assets /\ ln.amount \in Nat /\ ln.premium \in Nat
           /\ ln.mode \in InterestRateMode
           /\ innermost.initiator \in Users /\ innermost.receiver \in Users
           /\ innermost.onBehalfOf \in Users
<1>1. innermost \in Frame /\ frameOK(innermost)
  BY Innermost
<1>2. /\ innermost.loans \in Seq(Loan) /\ innermost.next \in Nat
      /\ innermost.initiator \in Users /\ innermost.receiver \in Users
      /\ innermost.onBehalfOf \in Users
  BY <1>1 DEF Frame
<1>3. innermost.next \in 1..Len(innermost.loans)
  BY <1>1, <1>2 DEF frameOK
<1>4. ln \in Loan
  BY <1>2, <1>3
<1> QED
  BY <1>2, <1>4 DEF Loan

\* The three ways in which the stack of flash loans changes.
LEMMA FrameReplaced ==
    ASSUME Inv, flash # <<>>, NEW f \in Frame, frameOK(f),
           flash' = [flash EXCEPT ![Len(flash)] = f]
    PROVE  flash' \in Seq(Frame) /\ FramesOK'
<1>1. flash \in Seq(Frame) /\ Len(flash) \in Nat /\ Len(flash) >= 1
  BY Innermost
<1>2. flash' \in Seq(Frame) /\ Len(flash') = Len(flash)
  BY <1>1
<1>3. \A i \in 1..Len(flash) : flash'[i] = IF i = Len(flash) THEN f ELSE flash[i]
  BY <1>1
<1> QED
  BY <1>2, <1>3 DEF Inv, FramesOK

\* A flash loan starts, inside the callbacks of those on the stack.
LEMMA FramePushed ==
    ASSUME Inv, NEW f \in Frame, frameOK(f), flash' = Append(flash, f)
    PROVE  flash' \in Seq(Frame) /\ FramesOK'
<1>1. flash \in Seq(Frame)
  BY DEF Inv, TypeOK
<1>2. /\ flash' \in Seq(Frame) /\ Len(flash') = Len(flash) + 1 /\ Len(flash) \in Nat
      /\ \A i \in 1..Len(flash) : flash'[i] = flash[i]
      /\ flash'[Len(flash) + 1] = f
  BY <1>1
<1>3. \A i \in 1..(Len(flash) + 1) : frameOK(flash'[i])
  BY <1>2 DEF Inv, FramesOK
<1> QED
  BY <1>2, <1>3 DEF FramesOK

\* The innermost flash loan is over.
LEMMA FramePopped ==
    ASSUME Inv, flash # <<>>, flash' = SubSeq(flash, 1, Len(flash) - 1)
    PROVE  flash' \in Seq(Frame) /\ FramesOK' /\ flash' # flash
<1>1. flash \in Seq(Frame) /\ Len(flash) \in Nat /\ Len(flash) >= 1
  BY Innermost
<1> DEFINE k == Len(flash) - 1
<1>2. k \in Int /\ k >= 0 /\ \A i \in 1..k : flash[i] \in Frame
  BY <1>1
<1> HIDE DEF k
<1>3. /\ flash' \in Seq(Frame) /\ Len(flash') = IF 1 <= k THEN k - 1 + 1 ELSE 0
      /\ \A i \in 1..(k - 1 + 1) : flash'[i] = flash[1 + i - 1]
  BY <1>2, SubSeqProperties DEF k
<1>4. Len(flash') = k /\ \A i \in 1..k : flash'[i] = flash[i]
  BY <1>2, <1>3
<1>5. \A i \in 1..k : i \in 1..Len(flash)
  BY <1>1 DEF k
<1>6. flash' # flash
  <2>1. Len(flash') # Len(flash)
    BY <1>1, <1>4 DEF k
  <2> QED
    BY <2>1
<1> QED
  BY <1>3, <1>4, <1>5, <1>6 DEF Inv, FramesOK

\* On to the next loan of the loop.
LEMMA NextFrame ==
    ASSUME Inv, flash # <<>>, innermost.next < Len(innermost.loans),
           flash' = [flash EXCEPT ![Len(flash)] = [innermost EXCEPT !.next = @ + 1]]
    PROVE  flash' \in Seq(Frame) /\ FramesOK'
<1> DEFINE x == innermost.next + 1
           f == [innermost EXCEPT !.next = x]
<1>1. innermost \in Frame /\ frameOK(innermost)
  BY Innermost
<1>2. innermost.next \in Nat /\ Len(innermost.loans) \in Nat
  BY <1>1 DEF Frame
<1>3. x \in Nat /\ 1 <= x /\ x <= Len(innermost.loans)
  BY <1>2
<1>4. flash' = [flash EXCEPT ![Len(flash)] = f]
  OBVIOUS
<1> HIDE DEF x
<1>5. f \in Frame /\ f.next = x /\ f.loans = innermost.loans
  BY <1>1, <1>3 DEF Frame
<1> HIDE DEF f
<1> QED
  BY <1>3, <1>4, <1>5, FrameReplaced DEF frameOK

\* The first loan of a loop that starts.
LEMMA FirstFrame ==
    ASSUME Inv, flash # <<>>, NEW phase \in Phase,
           flash' = [flash EXCEPT ![Len(flash)] =
                       [innermost EXCEPT !.phase = phase, !.next = 1]]
    PROVE  flash' \in Seq(Frame) /\ FramesOK'
<1> DEFINE f == [innermost EXCEPT !.phase = phase, !.next = 1]
<1>1. innermost \in Frame /\ frameOK(innermost)
  BY Innermost
<1>2. innermost.next \in Nat /\ Len(innermost.loans) \in Nat
  BY <1>1 DEF Frame
<1>3. 1 <= Len(innermost.loans)
  BY <1>1, <1>2 DEF frameOK
<1>4. f \in Frame /\ f.next = 1 /\ f.loans = innermost.loans
  BY <1>1 DEF Frame
<1>5. flash' = [flash EXCEPT ![Len(flash)] = f]
  OBVIOUS
<1> HIDE DEF f
<1>6. frameOK(f)
  BY <1>3, <1>4 DEF frameOK
<1> QED
  BY <1>4, <1>5, <1>6, FrameReplaced

\* A loan is settled: the next one follows or the flash loan is over.
LEMMA SettledFrames ==
    ASSUME Inv, flash # <<>>, flash' = settled
    PROVE  flash' \in Seq(Frame) /\ FramesOK' /\ flash' # flash
<1>1. CASE innermost.next < Len(innermost.loans)
  <2>1. flash' = [flash EXCEPT ![Len(flash)] = [innermost EXCEPT !.next = @ + 1]]
    BY <1>1 DEF settled, nextLoan
  <2>2. flash' # flash
    <3> DEFINE f == [innermost EXCEPT !.next = @ + 1]
    <3>1. flash \in Seq(Frame) /\ innermost \in Frame
      BY Innermost DEF Inv, TypeOK
    <3>2. f # innermost
      BY <3>1 DEF Frame
    <3>3. Len(flash) \in 1..Len(flash) /\ innermost = flash[Len(flash)]
      BY <3>1 DEF innermost
    <3> HIDE DEF f
    <3> QED
      BY <2>1, <3>1, <3>2, <3>3 DEF f
  <2> QED
    BY <1>1, <2>1, <2>2, NextFrame
<1>2. CASE ~(innermost.next < Len(innermost.loans))
  <2>1. flash' = SubSeq(flash, 1, Len(flash) - 1)
    BY <1>2 DEF settled, nextLoan
  <2> QED
    BY <2>1, FramePopped
<1> QED
  BY <1>1, <1>2

\* The start of flashLoan(), premiums included, preserves the invariant.
LEMMA FlashLoanStep ==
    ASSUME Inv, NEW initiator \in Users, NEW receiver \in Users, NEW onBehalfOf \in Users,
           NEW loans \in LoansArgs, flashLoan(initiator, receiver, onBehalfOf, loans)
    PROVE  Inv' /\ ReservesGrow /\ DebtsConsented
<1> DEFINE loanOf(i) == [ asset |-> loans[i].asset, amount |-> loans[i].amount,
                          mode |-> loans[i].mode, premium |-> premiumOf(loans[i].amount) ]
           all == [i \in DOMAIN loans |-> loanOf(i)]
           f == [ initiator |-> initiator, receiver |-> receiver,
                  onBehalfOf |-> onBehalfOf, phase |-> "lending", next |-> 1,
                  loans |-> all ]
<1>1. /\ flash' = Append(flash, f)
      /\ reserves' = reserves /\ wallet' = wallet /\ usersConfig' = usersConfig
      /\ borrowAllowances' = borrowAllowances /\ UNCHANGED environment
  BY DEF flashLoan
<1>2. PICK n \in 1..MaxLoans : loans \in [1..n -> LoanArgs]
  BY DEF LoansArgs
<1>3. n \in Nat /\ n >= 1 /\ DOMAIN loans = 1..n
  BY <1>2, BoundsAssumption
<1>4. ASSUME NEW i \in 1..n
      PROVE  loanOf(i) \in Loan
  <2>1. loans[i] \in LoanArgs
    BY <1>2
  <2>2. /\ loans[i].asset \in Assets /\ loans[i].amount \in Nat
        /\ loans[i].mode \in InterestRateMode
    BY <2>1, BoundsAssumption DEF LoanArgs
  <2>3. premiumOf(loans[i].amount) \in Nat
    <3>1. loans[i].amount * FLASHLOAN_PREMIUM_TOTAL \in Nat
      BY <2>2, PoolParametersAssumption, ProductNat
    <3> QED
      BY <3>1, DivNat DEF premiumOf
  <2> QED
    BY <2>2, <2>3 DEF Loan
<1> HIDE DEF loanOf
<1>5. all \in [1..n -> Loan]
  BY <1>3, <1>4
<1>6. all \in Seq(Loan) /\ Len(all) = n
  BY <1>3, <1>5
<1> HIDE DEF all
<1>7. f \in Frame /\ f.next = 1 /\ f.loans = all
  BY <1>6 DEF Frame, Phase
<1> HIDE DEF f
<1>8. frameOK(f)
  BY <1>3, <1>6, <1>7 DEF frameOK
<1>9. flash' \in Seq(Frame) /\ FramesOK'
  BY <1>1, <1>7, <1>8, FramePushed
<1>10. /\ usersConfig' \in [Users -> UserConfiguration]
       /\ sameFlags(usersConfig, usersConfig')
       /\ borrowAllowances' \in [Assets -> [DebtModes -> [Users -> [Users -> Nat]]]]
  BY <1>1, PoolTyped DEF sameFlags
<1> QED
  BY <1>1, <1>9, <1>10, FlagsStep

\* Lending the next asset to the receiver preserves the invariant.
LEMMA LendStep ==
    ASSUME Inv, lendFlashLoan
    PROVE  Inv' /\ ReservesGrow /\ DebtsConsented
<1> DEFINE ln == innermost.loans[innermost.next]
           a  == ln.asset
           w  == innermost.receiver
           x  == reserves[a].avail - ln.amount
           y  == wallet[a][w] + ln.amount
<1>1. flash # <<>>
  BY DEF lendFlashLoan, inPhase
<1>2. /\ ln.amount <= reserves[a].avail
      /\ reserves' = [reserves EXCEPT ![a] = [reserves[a] EXCEPT !.avail = x]]
      /\ wallet' = [wallet EXCEPT ![a][w] = y] /\ usersConfig' = usersConfig
      /\ UNCHANGED <<environment, borrowAllowances>>
  BY DEF lendFlashLoan
<1>3. flash' \in Seq(Frame) /\ FramesOK'
  <2>1. flash' = nextLoan([flash EXCEPT ![Len(flash)] =
                             [innermost EXCEPT !.phase = "callback", !.next = 1]])
    BY DEF lendFlashLoan
  <2>2. "callback" \in Phase
    BY DEF Phase
  <2>3. CASE innermost.next < Len(innermost.loans)
    BY <1>1, <2>1, <2>3, NextFrame DEF nextLoan
  <2>4. CASE ~(innermost.next < Len(innermost.loans))
    <3>1. flash' = [flash EXCEPT ![Len(flash)] =
                      [innermost EXCEPT !.phase = "callback", !.next = 1]]
      BY <2>1, <2>4 DEF nextLoan
    <3> QED
      BY <1>1, <2>2, <3>1, FirstFrame
  <2> QED
    BY <2>3, <2>4
<1>4. a \in Assets /\ ln.amount \in Nat /\ w \in Users
  BY <1>1, LoanTyped
<1> HIDE DEF ln, w
<1>5. reserves[a].avail \in Nat /\ wallet[a][w] \in Nat
  BY <1>4, ReserveFacts, PoolTyped
<1>6. x \in Nat /\ y \in Nat
  <2> HIDE DEF a
  <2> QED
    BY <1>2, <1>4, <1>5
<1> HIDE DEF x, y, a
<1> QED
  BY <1>2, <1>3, <1>4, <1>6, AvailStep

\* The return of executeOperation() preserves the invariant.
LEMMA CallbackReturns ==
    ASSUME Inv, executeOperationReturns
    PROVE  Inv' /\ ReservesGrow /\ DebtsConsented
<1>1. /\ flash # <<>>
      /\ flash' = [flash EXCEPT ![Len(flash)] =
                     [innermost EXCEPT !.phase = "settling", !.next = 1]]
      /\ reserves' = reserves /\ wallet' = wallet /\ usersConfig' = usersConfig
      /\ borrowAllowances' = borrowAllowances /\ UNCHANGED environment
  BY DEF executeOperationReturns, inPhase
<1>2. "settling" \in Phase
  BY DEF Phase
<1>3. flash' \in Seq(Frame) /\ FramesOK'
  BY <1>1, <1>2, FirstFrame
<1>4. /\ usersConfig' \in [Users -> UserConfiguration]
      /\ sameFlags(usersConfig, usersConfig')
      /\ borrowAllowances' \in [Assets -> [DebtModes -> [Users -> [Users -> Nat]]]]
  BY <1>1, PoolTyped DEF sameFlags
<1> QED
  BY <1>1, <1>3, <1>4, FlagsStep

\* Collecting a loan and its premium preserves the invariant: the premium only
\* raises the liquidity index.
LEMMA CollectStep ==
    ASSUME Inv, collectFlashLoan
    PROVE  Inv' /\ ReservesGrow /\ DebtsConsented
<1> DEFINE ln == innermost.loans[innermost.next]
           a  == ln.asset
           w  == innermost.receiver
           back == ln.amount + ln.premium
           m  == reserves[a]
           m1 == accrue(m, a)
           m2 == cumulateToLiquidityIndex(m1, ln.premium, now)
           r  == withRates(m2, a, back, 0)
           x  == r.avail + back
           n  == [r EXCEPT !.avail = x]
           y  == wallet[a][w] - back
<1>1. flash # <<>> /\ flash' = settled
  BY DEF collectFlashLoan, inPhase
<1>2. /\ accrueOK(m, a) /\ cumulateToLiquidityIndexOK(m1, ln.premium, now)
      /\ ratesOK(m2, a, back, 0) /\ back <= wallet[a][w]
      /\ reserves' = [reserves EXCEPT ![a] = n]
      /\ wallet' = [wallet EXCEPT ![a][w] = y] /\ usersConfig' = usersConfig
      /\ UNCHANGED <<environment, borrowAllowances>>
  BY DEF collectFlashLoan
<1>3. a \in Assets /\ ln.amount \in Nat /\ ln.premium \in Nat /\ w \in Users
  BY <1>1, LoanTyped
<1>4. back \in Nat
  BY <1>3
<1> HIDE DEF ln, w, back
<1>5. Good(m, now) /\ now \in Nat
  BY <1>3, ReserveFacts
<1> HIDE DEF m, a
<1>6. Accrued(m1, now) /\ grows(m, m1, now) /\ sameDebts(m, m1)
  BY <1>2, <1>3, <1>5, AccrueGood
<1> HIDE DEF m1
<1>7. Accrued(m2, now) /\ grows(m1, m2, now) /\ sameDebts(m1, m2)
  BY <1>2, <1>3, <1>5, <1>6, Cumulate
<1> HIDE DEF m2
<1>8. Good(m1, now) /\ Good(m2, now)
  BY <1>6, <1>7 DEF Accrued
<1>9. r \in Market /\ Good(r, now) /\ sameClock(m2, r) /\ sameDebts(m2, r)
  BY <1>2, <1>3, <1>4, <1>8, RatesGood
<1> HIDE DEF r
<1>10. x \in Nat
  BY <1>4, <1>9 DEF Market
<1> HIDE DEF x
<1>11. Good(n, now) /\ sameClock(r, n) /\ sameDebts(r, n)
  BY <1>5, <1>9, <1>10, AvailGood
<1> HIDE DEF n
<1>12. grows(m, n, now) /\ sameDebts(m, n)
  <2>1. grows(m, m2, now)
    BY <1>5, <1>6, <1>7, <1>8, GrowsTransitive
  <2>2. sameClock(m2, n) /\ sameDebts(m, n)
    BY <1>6, <1>7, <1>9, <1>11 DEF sameClock, sameDebts
  <2> QED
    BY <1>5, <1>7, <2>1, <2>2, AccruedGrows
<1>13. wallet' \in [Assets -> [Users -> Nat]]
  <2>1. wallet[a][w] \in Nat
    BY <1>3, PoolTyped
  <2>2. y \in Nat
    BY <1>2, <1>4, <2>1
  <2> HIDE DEF y
  <2> QED
    BY <1>2, <1>3, <2>2, PoolTyped, WalletTyped
<1>14. /\ usersConfig' \in [Users -> UserConfiguration]
       /\ sameFlags(usersConfig, usersConfig')
  BY <1>2, PoolTyped DEF sameFlags
<1>15. flash' \in Seq(Frame) /\ FramesOK'
  BY <1>1, SettledFrames
<1> QED
  BY <1>2, <1>3, <1>11, <1>12, <1>13, <1>14, <1>15, QuietStep DEF m

\* A flash loan that becomes a debt preserves the invariant: its flag is set.
LEMMA BorrowFlashStep ==
    ASSUME Inv, borrowFlashLoan
    PROVE  Inv' /\ ReservesGrow /\ DebtsConsented
<1> DEFINE ln == innermost.loans[innermost.next]
<1>1. flash # <<>> /\ flash' = settled /\ UNCHANGED environment
  BY DEF borrowFlashLoan, inPhase
<1>2. /\ ln.mode # "none"
      /\ _executeBorrow(innermost.initiator, innermost.onBehalfOf, ln.asset,
                        ln.amount, ln.mode, FALSE)
  BY DEF borrowFlashLoan
<1>3. /\ ln.asset \in Assets /\ ln.amount \in Nat /\ ln.mode \in InterestRateMode
      /\ innermost.initiator \in Users /\ innermost.onBehalfOf \in Users
  BY <1>1, LoanTyped
<1>4. ln.mode \in DebtModes
  BY <1>2, <1>3 DEF DebtModes
<1>5. flash' \in Seq(Frame) /\ FramesOK' /\ flash' # flash
  BY <1>1, SettledFrames
<1>6. settledBy(innermost.initiator, ln.asset, ln.mode)
  BY <1>1, <1>5 DEF settledBy
<1>7. innermost.loans[innermost.next].amount = ln.amount
  OBVIOUS
<1> HIDE DEF ln
<1> QED
  BY <1>1, <1>2, <1>3, <1>4, <1>5, <1>6, <1>7, BorrowStep

-----------------------------------------------------------------------------
(* Liquidation                                                             *)

\* The smaller of two natural numbers.
LEMMA MinNat ==
    ASSUME NEW a \in Nat, NEW b \in Nat
    PROVE  min(a, b) \in Nat
  BY DEF min

\* A liquidation bonus of zero seizes nothing, so the division by the bonus is
\* not reached.
LEMMA AvailableCollateral ==
    ASSUME Inv, NEW c \in Assets, NEW d \in Assets, priced(c), priced(d),
           NEW cover \in Nat, NEW balance \in Nat
    PROVE  _calculateAvailableCollateralToLiquidate(c, d, cover, balance)
             \in [collateral : Nat, debt : Nat]
<1> DEFINE bonus == config[c].liquidationBonus
           cUnit == config[c].tokenUnit
           dUnit == config[d].tokenUnit
           value == prices[d] * cover * cUnit
           price == prices[c] * dUnit
           most  == percentMul(value, bonus) \div price
           worth == (prices[c] * balance * dUnit) \div (prices[d] * cUnit)
           needed == percentDiv(worth, bonus)
<1>1. config[c] \in ReserveConfiguration /\ config[d] \in ReserveConfiguration
  BY DEF Inv, TypeOK
<1>2. bonus \in Nat /\ cUnit \in Nat \ {0} /\ dUnit \in Nat \ {0}
  BY <1>1 DEF ReserveConfiguration
<1>3. prices[c] \in Nat \ {0} /\ prices[d] \in Nat \ {0}
  BY DEF Inv, TypeOK, priced
<1>4. _calculateAvailableCollateralToLiquidate(c, d, cover, balance)
        = IF most > balance THEN [collateral |-> balance, debt |-> needed]
                            ELSE [collateral |-> most, debt |-> cover]
  BY DEF _calculateAvailableCollateralToLiquidate
<1> HIDE DEF bonus, cUnit, dUnit
<1>5. /\ prices[d] * cover \in Nat /\ prices[c] * balance \in Nat
      /\ price \in Nat /\ price > 0
      /\ prices[d] * cUnit \in Nat /\ prices[d] * cUnit > 0
  BY <1>2, <1>3
<1>6. value \in Nat /\ prices[c] * balance * dUnit \in Nat
  BY <1>2, <1>5, ProductNat
<1> HIDE DEF value, price
<1>7. percentMul(value, bonus) \in Nat
  BY <1>2, <1>6, PercentMulNat
<1>8. most \in Nat
  BY <1>5, <1>7, DivNat
<1>9. worth \in Nat
  BY <1>5, <1>6, DivNat
<1> HIDE DEF worth
<1>10. bonus = 0 => most = 0
  <2> SUFFICES ASSUME bonus = 0 PROVE most = 0
    OBVIOUS
  <2>1. value * bonus = 0
    BY <1>6
  <2>2. percentMul(value, bonus) = 0
    BY <2>1 DEF percentMul, PERCENTAGE_FACTOR
  <2>3. 0 \div price = 0
    BY <1>5
  <2> QED
    BY <2>2, <2>3
<1> HIDE DEF most
<1>11. most > balance => needed \in Nat
  <2>1. most > balance => bonus > 0
    BY <1>2, <1>8, <1>10
  <2> QED
    BY <1>2, <1>9, <2>1, PercentDivNat
<1> HIDE DEF needed
<1> QED
  BY <1>4, <1>8, <1>11

\* The collateral seized and the debt repaid by a liquidation are natural numbers.
LEMMA LiquidatedNat ==
    ASSUME Inv, NEW c \in Assets, NEW d \in Assets, priced(c), priced(d),
           NEW u \in Users, NEW cover \in Nat
    PROVE  /\ liquidated(c, d, u, cover).collateral \in Nat
           /\ liquidated(c, d, u, cover).debt \in Nat
<1> DEFINE debt == stableDebtOf(d, u) + variableDebtOf(d, u)
           wanted == min(cover, percentMul(debt, LIQUIDATION_CLOSE_FACTOR_PERCENT))
           balance == lBalanceOf(reserves[c], u, now)
           available == _calculateAvailableCollateralToLiquidate(c, d, wanted, balance)
           paid == min(available.debt, wanted)
<1>1. "stable" \in DebtModes
  BY DEF DebtModes, InterestRateMode
<1>2. debt \in Nat
  BY <1>1, DebtsNat
<1> HIDE DEF debt
<1>3. wanted \in Nat
  BY <1>2, PercentMulNat, MinNat DEF LIQUIDATION_CLOSE_FACTOR_PERCENT
<1> HIDE DEF wanted
<1>4. balance \in Nat
  BY ReserveFacts, Balances
<1> HIDE DEF balance
<1>5. available \in [collateral : Nat, debt : Nat]
  BY <1>3, <1>4, AvailableCollateral
<1>6. liquidated(c, d, u, cover) = [available EXCEPT !.debt = paid]
  BY DEF liquidated, paid, available, wanted, debt, balance
<1> HIDE DEF available
<1>7. paid \in Nat
  BY <1>3, <1>5, MinNat
<1> HIDE DEF paid
<1> QED
  BY <1>5, <1>6, <1>7

\* A liquidation burns debt of the liquidated user only, variable before stable.
LEMMA BurnLiquidated ==
    ASSUME Inv, NEW m, Accrued(m, now), NEW u \in Users, NEW amount \in Nat,
           NEW variableDebt \in Nat, burnLiquidatedDebtOK(m, u, amount, variableDebt),
           NEW n, n = burnLiquidatedDebt(m, u, amount, variableDebt)
    PROVE  /\ Accrued(n, now) /\ grows(m, n, now) /\ othersDebts(m, n, u)
           /\ n.v[u] <= m.v[u] /\ n.s[u] <= sBalanceOf(m, u, now)
<1>1. now \in Nat /\ Good(m, now)
  BY PoolTyped DEF Accrued
<1>2. m.variableBorrowIndex \in Nat /\ m.variableBorrowIndex > 0
  BY <1>1, IndexPositive
<1>3. ASSUME NEW x \in Nat, vBurnOK(m, u, x, m.variableBorrowIndex),
             NEW k, k = vBurn(m, u, x, m.variableBorrowIndex)
      PROVE  Accrued(k, now) /\ grows(m, k, now) /\ othersDebts(m, k, u) /\ k.s = m.s
             /\ sameClock(m, k) /\ k.v[u] <= m.v[u]
  <2>1. /\ k \in Market /\ addsUp(k) /\ sameClock(m, k) /\ othersDebts(m, k, u) /\ k.s = m.s
        /\ k.v[u] = m.v[u] - rayDiv(x, m.variableBorrowIndex)
    BY <1>1, <1>2, <1>3, VBurn
  <2>2. m.v[u] \in Nat /\ rayDiv(x, m.variableBorrowIndex) \in Nat
    BY <1>1, <1>2, RayDivNat DEF Good, Market
  <2>3. k.v[u] <= m.v[u]
    BY <2>1, <2>2
  <2> QED
    BY <1>1, <2>1, <2>3, SameClockAccrued
<1>4. CASE variableDebt >= amount
  <2>1. m.s[u] <= sBalanceOf(m, u, now)
    BY <1>1, Balances
  <2> QED
    BY <1>3, <1>4, <2>1 DEF burnLiquidatedDebtOK, burnLiquidatedDebt
<1>5. CASE ~(variableDebt >= amount)
  <2> DEFINE k == IF variableDebt > 0
                  THEN vBurn(m, u, variableDebt, m.variableBorrowIndex)
                  ELSE m
             x == amount - variableDebt
  <2>1. x \in Nat
    BY <1>5
  <2>2. /\ variableDebt > 0 => vBurnOK(m, u, variableDebt, m.variableBorrowIndex)
        /\ sBurnOK(m, u, x, now) /\ n = sBurn(k, u, x, now)
    BY <1>5 DEF burnLiquidatedDebtOK, burnLiquidatedDebt
  <2>3. /\ Accrued(k, now) /\ grows(m, k, now) /\ othersDebts(m, k, u)
        /\ k.v[u] <= m.v[u]
    <3>1. CASE variableDebt > 0
      BY <1>3, <2>2, <3>1
    <3>2. CASE ~(variableDebt > 0)
      <4>1. m.v[u] \in Nat /\ grows(m, m, now)
        BY <1>1, GrowsReflexive DEF Good, Market
      <4> QED
        BY <3>2, <4>1 DEF othersDebts
    <3> QED
      BY <3>1, <3>2
  <2>4. sBurnOK(k, u, x, now) /\ sBalanceOf(k, u, now) = sBalanceOf(m, u, now)
    <3>1. k.s[u] = m.s[u] /\ k.sRate[u] = m.sRate[u] /\ k.sTs[u] = m.sTs[u]
      <4>1. CASE variableDebt > 0
        <5>1. /\ vBurn(m, u, variableDebt, m.variableBorrowIndex).s = m.s
              /\ vBurn(m, u, variableDebt, m.variableBorrowIndex).sRate = m.sRate
              /\ vBurn(m, u, variableDebt, m.variableBorrowIndex).sTs = m.sTs
          BY <1>1 DEF vBurn, Good, Market
        <5> QED
          BY <4>1, <5>1
      <4>2. CASE ~(variableDebt > 0)
        BY <4>2
      <4> QED
        BY <4>1, <4>2
    <3>2. sBalanceOf(k, u, now) = sBalanceOf(m, u, now)
      <4> HIDE DEF k
      <4> QED
        BY <3>1 DEF sBalanceOf
    <3> QED
      BY <2>2, <3>2 DEF sBurnOK
  <2> HIDE DEF k, x
  <2>5. /\ Accrued(n, now) /\ grows(k, n, now) /\ othersDebts(k, n, u) /\ n.v = k.v
        /\ n.s[u] = sBalanceOf(k, u, now) - x
    BY <1>1, <2>1, <2>2, <2>3, <2>4, SBurn
  <2>6. n.s[u] <= sBalanceOf(m, u, now)
    <3>1. sBalanceOf(m, u, now) \in Nat
      BY <1>1, Balances
    <3> QED
      BY <2>1, <2>4, <2>5, <3>1
  <2> QED
    BY <1>1, <2>3, <2>5, <2>6, AccruedThen
<1> QED
  BY <1>4, <1>5

\* The collateral reserve gives lTokens, or burns them and pays out.
LEMMA Seized ==
    ASSUME Inv, NEW c \in Assets, NEW m, Good(m, now), NEW sender \in Users,
           NEW u \in Users, NEW x \in Nat, NEW receiveLToken \in BOOLEAN,
           seizeOK(m, c, u, x, receiveLToken),
           NEW n, n = seize(m, c, sender, u, x, receiveLToken)
    PROVE  Good(n, now) /\ grows(m, n, now) /\ sameDebts(m, n)
<1>1. now \in Nat
  BY PoolTyped
<1>2. CASE receiveLToken
  <2> DEFINE index == getNormalizedIncome(m, now)
  <2>1. lTransferOK(m, u, x, index) /\ n = lTransfer(m, u, sender, x, index)
    BY <1>2 DEF seizeOK, seize
  <2>2. index \in Nat /\ m.liquidityIndex <= index
    BY <1>1, NormalizedIncome
  <2>3. m.liquidityIndex \in Nat /\ m.liquidityIndex > 0
    BY RayAssumption DEF Good, aboveRay, Market
  <2> HIDE DEF index
  <2>4. index > 0
    BY <2>2, <2>3
  <2>5. n \in Market /\ addsUp(n) /\ sameClock(m, n) /\ sameDebts(m, n) /\ sameRate(m, n)
    BY <1>1, <2>1, <2>2, <2>4, LTransfer
  <2> QED
    BY <1>1, <2>5, SameClockGood, SameRateGrows
<1>3. CASE ~receiveLToken
  <2> DEFINE m1 == accrue(m, c)
             k  == withRates(m1, c, 0, x)
  <2>1. /\ accrueOK(m, c) /\ ratesOK(m1, c, 0, x) /\ lBurnOK(k, u, x, k.liquidityIndex)
        /\ n = lBurn(k, u, x, k.liquidityIndex)
    BY <1>3 DEF seizeOK, seize
  <2>2. Accrued(m1, now) /\ grows(m, m1, now) /\ sameDebts(m, m1) /\ Good(m1, now)
    BY <2>1, AccrueGood DEF Accrued
  <2> HIDE DEF m1
  <2>3. k \in Market /\ Good(k, now) /\ sameClock(m1, k) /\ sameDebts(m1, k)
    BY <2>1, <2>2, RatesGood
  <2> HIDE DEF k
  <2>4. k.liquidityIndex \in Nat /\ k.liquidityIndex > 0
    BY <2>3, RayAssumption DEF Good, aboveRay, Market
  <2>5. n \in Market /\ addsUp(n) /\ sameClock(k, n) /\ sameDebts(k, n)
    BY <1>1, <2>1, <2>3, <2>4, LBurn
  <2>6. Good(n, now)
    BY <1>1, <2>3, <2>5, SameClockGood
  <2>7. sameClock(m1, n) /\ sameDebts(m, n)
    BY <2>2, <2>3, <2>5 DEF sameClock, sameDebts
  <2> QED
    BY <1>1, <2>2, <2>6, <2>7, AccruedGrows
<1> QED
  BY <1>2, <1>3

\* Reserves in good order, their indexes no lower and every debt but the one
\* of u in d as in the current state, where u owes no more: liquidationCall()
\* writes two reserves, or the same one several times.
Reached(rs, d, u) ==
    /\ rs \in [Assets -> Market]
    /\ \A a \in Assets :
         /\ Good(rs[a], now) /\ grows(reserves[a], rs[a], now)
         /\ a # d => sameDebts(reserves[a], rs[a])
         /\ a = d => /\ othersDebts(reserves[a], rs[a], u)
                     /\ rs[a].v[u] <= reserves[a].v[u]
                     /\ rs[a].s[u] <= stableDebtOf(a, u)

\* Before a liquidation has changed anything.
LEMMA ReachedStart ==
    ASSUME Inv, NEW d \in Assets, NEW u \in Users
    PROVE  Reached(reserves, d, u)
<1>1. reserves \in [Assets -> Market]
  BY DEF Inv, TypeOK
<1>2. ASSUME NEW a \in Assets
      PROVE  Good(reserves[a], now) /\ grows(reserves[a], reserves[a], now)
  BY ReserveFacts, GrowsReflexive
<1>3. reserves[d].v[u] \in Nat /\ reserves[d].s[u] <= stableDebtOf(d, u)
  BY <1>1, ReserveFacts, Balances DEF Market, stableDebtOf
<1> QED
  BY <1>1, <1>2, <1>3 DEF Reached, sameDebts, othersDebts

\* A liquidation updates one more reserve, the debt reserve or the collateral.
LEMMA ReachedPut ==
    ASSUME Inv, NEW d \in Assets, NEW u \in Users, NEW rs, Reached(rs, d, u),
           NEW a \in Assets, NEW n, Good(n, now), grows(rs[a], n, now),
           \/ sameDebts(rs[a], n)
           \/ /\ a = d /\ othersDebts(rs[a], n, u)
              /\ n.v[u] <= rs[a].v[u] /\ n.s[u] <= stableDebtOf(d, u),
           NEW rt, rt = [rs EXCEPT ![a] = n]
    PROVE  Reached(rt, d, u)
<1>1. now \in Nat /\ rs \in [Assets -> Market] /\ n \in Market
  BY PoolTyped DEF Reached, Good
<1>2. rt \in [Assets -> Market] /\ rt[a] = n /\ \A b \in Assets \ {a} : rt[b] = rs[b]
  BY <1>1
<1>3. Good(rs[a], now) /\ grows(reserves[a], rs[a], now) /\ Good(reserves[a], now)
  BY ReserveFacts DEF Reached
<1>4. grows(reserves[a], n, now)
  BY <1>1, <1>3, GrowsTransitive
<1>5. /\ a # d => sameDebts(reserves[a], n)
      /\ a = d => /\ othersDebts(reserves[a], n, u) /\ n.v[u] <= reserves[a].v[u]
                  /\ n.s[u] <= stableDebtOf(d, u)
  <2>1. /\ n.v[u] \in Nat /\ rs[a].v[u] \in Nat /\ reserves[a].v[u] \in Nat
    BY <1>1, <1>3 DEF Good, Market
  <2> QED
    BY <2>1 DEF Reached, sameDebts, othersDebts
<1>6. ASSUME NEW b \in Assets, b # a
      PROVE  /\ Good(rt[b], now) /\ grows(reserves[b], rt[b], now)
             /\ b # d => sameDebts(reserves[b], rt[b])
             /\ b = d => /\ othersDebts(reserves[b], rt[b], u)
                         /\ rt[b].v[u] <= reserves[b].v[u]
                         /\ rt[b].s[u] <= stableDebtOf(b, u)
  BY <1>2, <1>6 DEF Reached
<1>7. \A b \in Assets : b = a \/ b # a
  OBVIOUS
<1> QED
  BY <1>2, <1>4, <1>5, <1>6, <1>7 DEF Reached

\* Two reserves change; u, whose debt does, has the flag of d and keeps it.
LEMMA ReachedStep ==
    ASSUME Inv, NEW d \in Assets, NEW u \in Users, Reached(reserves', d, u),
           d \in usersConfig[u].borrowing, sameFlags(usersConfig, usersConfig'),
           wallet' \in [Assets -> [Users -> Nat]],
           usersConfig' \in [Users -> UserConfiguration],
           UNCHANGED <<environment, borrowAllowances, flash>>
    PROVE  Inv' /\ ReservesGrow /\ DebtsConsented
<1>1. now' = now /\ UNCHANGED environment /\ flash' = flash
  BY DEF environment
<1>2. reserves' \in [Assets -> Market] /\ ReservesGood' /\ ReservesGrow
  BY <1>1 DEF Reached, Good, ReservesGood, ReservesGrow, grows
<1>3. BorrowingFlagged'
  <2> SUFFICES ASSUME NEW w \in Users, NEW a \in Assets,
                      reserves'[a].s[w] > 0 \/ reserves'[a].v[w] > 0
               PROVE  a \in usersConfig'[w].borrowing
    BY DEF BorrowingFlagged
  <2>1. CASE a = d /\ w = u
    BY <2>1 DEF sameFlags
  <2>2. CASE ~(a = d /\ w = u)
    <3>1. /\ reserves'[a].s[w] = reserves[a].s[w]
          /\ reserves'[a].v[w] = reserves[a].v[w]
      BY <2>2 DEF Reached, sameDebts, othersDebts
    <3> QED
      BY <3>1 DEF Inv, BorrowingFlagged, sameFlags
  <2> QED
    BY <2>1, <2>2
<1>4. borrowAllowances' \in [Assets -> [DebtModes -> [Users -> [Users -> Nat]]]]
  BY PoolTyped
<1>5. DebtsConsented
  <2> SUFFICES ASSUME NEW a \in Assets, NEW w \in Users, NEW mode \in DebtModes
               PROVE  ~debtGrows(a, w, mode)
    BY DEF DebtsConsented
  <2>1. CASE a = d /\ w = u
    <3>1. /\ reserves'[d].v[u] <= reserves[d].v[u]
          /\ reserves'[d].s[u] <= stableDebtOf(d, u)
      BY DEF Reached
    <3>2. /\ reserves'[d].v[u] \in Nat /\ reserves'[d].s[u] \in Nat
          /\ reserves[d].v[u] \in Nat /\ stableDebtOf(d, u) \in Nat
      <4>1. reserves'[d] \in Market /\ reserves[d] \in Market
        BY DEF Reached, Inv, TypeOK
      <4>2. Good(reserves[d], now) /\ now \in Nat
        BY ReserveFacts
      <4>3. stableDebtOf(d, u) \in Nat
        BY <4>2, Balances DEF stableDebtOf
      <4> QED
        BY <4>1, <4>3 DEF Market
    <3> QED
      BY <2>1, <3>1, <3>2 DEF debtGrows
  <2>2. CASE ~(a = d /\ w = u)
    <3>1. /\ reserves'[a].s[w] = reserves[a].s[w]
          /\ reserves'[a].v[w] = reserves[a].v[w]
      BY <2>2 DEF Reached, sameDebts, othersDebts
    <3> QED
      BY <3>1, NoNewDebt
  <2> QED
    BY <2>1, <2>2
<1> QED
  BY <1>1, <1>2, <1>3, <1>4, <1>5, SameFlash, StepTyped

\* liquidationCall() preserves the invariant, also when the collateral reserve is
\* the debt reserve: debt only goes down and the borrowing flag stays.
LEMMA LiquidationStep ==
    ASSUME Inv, NEW sender \in Users, NEW c \in Assets, NEW d \in Assets, NEW u \in Users,
           NEW cover \in Nat, NEW receiveLToken \in BOOLEAN,
           liquidationCall(sender, c, d, u, cover, receiveLToken)
    PROVE  Inv' /\ ReservesGrow /\ DebtsConsented
<1> DEFINE seized == liquidated(c, d, u, cover).collateral
           debt   == liquidated(c, d, u, cover).debt
           variable == variableDebtOf(d, u)
           m1 == accrue(reserves[d], d)
           m2 == burnLiquidatedDebt(m1, u, debt, variable)
           r  == withRates(m2, d, debt, 0)
           rs == [reserves EXCEPT ![d] = r]
           k  == seize(rs[c], c, sender, u, seized, receiveLToken)
           rs1 == [rs EXCEPT ![c] = k]
           x  == rs1[d].avail + debt
           n  == [rs1[d] EXCEPT !.avail = x]
           w1 == walletSeized(sender, c, seized, receiveLToken)
           y  == w1[d][sender] - debt
           uc1 == IF receiveLToken /\ lBalanceOf(rs[c], sender, now) = 0
                  THEN setUsingAsCollateral(usersConfig, sender, c, TRUE)
                  ELSE usersConfig
           uc2 == IF seized = lBalanceOf(reserves[c], u, now)
                  THEN setUsingAsCollateral(uc1, u, c, FALSE)
                  ELSE uc1
<1>1. /\ stableDebtOf(d, u) > 0 \/ variable > 0
      /\ accrueOK(reserves[d], d) /\ burnLiquidatedDebtOK(m1, u, debt, variable)
      /\ ratesOK(m2, d, debt, 0)
      /\ seizeOK(rs[c], c, u, seized, receiveLToken)
      /\ debt <= w1[d][sender]
      /\ priced(c) /\ priced(d)
  BY DEF liquidationCall, liquidationCallOK, validateLiquidationCall, debtReserveBurnt,
         reservesBurnt
<1>2. /\ reserves' = [rs1 EXCEPT ![d] = n]
      /\ wallet' = [w1 EXCEPT ![d][sender] = y]
      /\ usersConfig' = uc2
      /\ UNCHANGED <<environment, borrowAllowances, flash>>
  BY DEF liquidationCall, debtReserveBurnt, reservesBurnt
<1>3. seized \in Nat /\ debt \in Nat
  BY <1>1, LiquidatedNat
<1>4. "stable" \in DebtModes
  BY DEF DebtModes, InterestRateMode
<1>5. stableDebtOf(d, u) \in Nat /\ variable \in Nat
  BY <1>4, DebtsNat
<1>6. d \in usersConfig[u].borrowing
  BY <1>1, <1>5, ShownIsFlagged
<1>7. Good(reserves[d], now) /\ now \in Nat
  BY ReserveFacts
<1> HIDE DEF seized, debt, variable
<1>8. /\ Accrued(m1, now) /\ grows(reserves[d], m1, now) /\ sameDebts(reserves[d], m1)
      /\ sameStable(reserves[d], m1)
  BY <1>1, <1>7, AccrueGood
<1> HIDE DEF m1
<1>9. /\ Accrued(m2, now) /\ grows(m1, m2, now) /\ othersDebts(m1, m2, u)
      /\ m2.v[u] <= m1.v[u] /\ m2.s[u] <= stableDebtOf(d, u)
  BY <1>1, <1>3, <1>5, <1>8, BurnLiquidated, StableUnmoved DEF stableDebtOf
<1> HIDE DEF m2
<1>10. grows(reserves[d], m2, now) /\ othersDebts(reserves[d], m2, u)
  BY <1>7, <1>8, <1>9, AccruedThen
<1>11. /\ Good(r, now) /\ grows(reserves[d], r, now) /\ othersDebts(reserves[d], r, u)
       /\ r.v[u] <= reserves[d].v[u] /\ r.s[u] <= stableDebtOf(d, u)
  <2>1. 0 \in Nat
    OBVIOUS
  <2> QED
    BY <1>1, <1>3, <1>8, <1>9, <1>10, <2>1, RatesThen DEF sameDebts
<1> HIDE DEF r
<1>12. Reached(rs, d, u)
  BY <1>11, ReachedStart, ReachedPut
<1> HIDE DEF rs
<1>13. Good(k, now) /\ grows(rs[c], k, now) /\ sameDebts(rs[c], k)
  <2>1. Good(rs[c], now)
    BY <1>12 DEF Reached
  <2> QED
    BY <1>1, <1>3, <2>1, Seized
<1> HIDE DEF k
<1>14. Reached(rs1, d, u)
  BY <1>12, <1>13, ReachedPut
<1> HIDE DEF rs1
<1>15. Good(rs1[d], now) /\ rs1[d] \in Market
  BY <1>14 DEF Reached, Good
<1>16. x \in Nat
  BY <1>3, <1>15 DEF Market
<1> HIDE DEF x
<1>17. Good(n, now) /\ grows(rs1[d], n, now) /\ sameDebts(rs1[d], n)
  <2>1. /\ n \in Market /\ Good(n, now) /\ sameClock(rs1[d], n)
        /\ sameDebts(rs1[d], n) /\ sameRate(rs1[d], n)
    BY <1>7, <1>15, <1>16, AvailGood
  <2> QED
    BY <1>7, <1>15, <2>1, SameRateGrows
<1> HIDE DEF n
<1>18. Reached(reserves', d, u)
  BY <1>2, <1>14, <1>17, ReachedPut
<1>19. w1 \in [Assets -> [Users -> Nat]]
  <2> DEFINE z == wallet[c][sender] + seized
  <2>1. wallet[c][sender] \in Nat
    BY PoolTyped
  <2>2. z \in Nat
    BY <1>3, <2>1
  <2>3. w1 = IF receiveLToken THEN wallet ELSE [wallet EXCEPT ![c][sender] = z]
    BY DEF walletSeized
  <2> HIDE DEF z, w1
  <2> QED
    BY <2>2, <2>3, PoolTyped, WalletTyped
<1> HIDE DEF w1
<1>20. wallet' \in [Assets -> [Users -> Nat]]
  <2>1. w1[d][sender] \in Nat
    BY <1>19
  <2>2. y \in Nat
    BY <1>1, <1>3, <2>1
  <2> HIDE DEF y
  <2> QED
    BY <1>2, <1>19, <2>2, WalletTyped
<1>21. uc1 \in [Users -> UserConfiguration] /\ sameFlags(usersConfig, uc1)
  BY PoolTyped, FlagsTyped, CollateralKeepsFlags DEF sameFlags
<1> HIDE DEF uc1
<1>22. uc2 \in [Users -> UserConfiguration] /\ sameFlags(uc1, uc2)
  BY <1>21, FlagsTyped, CollateralKeepsFlags DEF sameFlags
<1> HIDE DEF uc2
<1>23. usersConfig' \in [Users -> UserConfiguration] /\ sameFlags(usersConfig, usersConfig')
  BY <1>2, <1>21, <1>22 DEF sameFlags
<1> QED
  BY <1>2, <1>6, <1>18, <1>20, <1>23, ReachedStep

-----------------------------------------------------------------------------
(* The theorems                                                            *)

\* The invariant holds when the pool starts.
LEMMA InvInit == Init => Inv
<1> SUFFICES ASSUME Init PROVE Inv
  OBVIOUS
<1>1. Good(init, 1)
  BY InitGood
<1>2. \A a \in Assets : reserves[a] = init
  BY DEF Init
<1>3. reserves \in [Assets -> Market]
  BY <1>1 DEF Init, Good
<1>4. usersConfig \in [Users -> UserConfiguration]
  <2>1. [collateral |-> {}, borrowing |-> {}] \in UserConfiguration
    BY DEF UserConfiguration
  <2> QED
    BY <2>1 DEF Init
<1>5. borrowAllowances \in [Assets -> [DebtModes -> [Users -> [Users -> Nat]]]]
  BY DEF Init
<1>6. flash \in Seq(Frame) /\ Len(flash) = 0
  BY DEF Init
<1>7. TypeOK
  BY <1>3, <1>4, <1>5, <1>6, InitialAssumption DEF Init, TypeOK
<1>8. ReservesGood
  BY <1>1, <1>2 DEF Init, ReservesGood, Good
<1>9. FramesOK
  BY <1>6 DEF FramesOK
<1>10. BorrowingFlagged
  <2>1. \A u \in Users : init.s[u] = 0 /\ init.v[u] = 0
    BY DEF init
  <2> QED
    BY <1>2, <2>1 DEF BorrowingFlagged
<1> QED
  BY <1>7, <1>8, <1>9, <1>10 DEF Inv

\* Every operation on deposits preserves the invariant.
LEMMA UserInv ==
    ASSUME Inv, UserStep
    PROVE  Inv' /\ ReservesGrow /\ DebtsConsented
<1>1. PICK u \in Users, w \in Users, a \in Assets :
       \/ \E amount \in Amounts :
            \/ deposit(u, a, amount, w)
            \/ transfer(u, a, w, amount)
            \/ \E mode \in DebtModes : borrow(u, a, amount, mode, w)
       \/ \E amount \in AmountArgs :
            \/ withdraw(u, a, amount, w)
            \/ \E mode \in DebtModes : repay(u, a, amount, mode, w)
            \/ \E c \in Assets, receiveLToken \in BOOLEAN :
                 liquidationCall(u, c, a, w, amount, receiveLToken)
  BY DEF UserStep, UserStepOf
<1>2. Amounts \subseteq Nat /\ AmountArgs \subseteq Nat
  BY BoundsAssumption, UintAssumption DEF AmountArgs
<1>3. ASSUME NEW amount \in Amounts, deposit(u, a, amount, w)
      PROVE  Inv' /\ ReservesGrow /\ DebtsConsented
  BY <1>2, <1>3, DepositStep
<1>4. ASSUME NEW amount \in Amounts, transfer(u, a, w, amount)
      PROVE  Inv' /\ ReservesGrow /\ DebtsConsented
  BY <1>2, <1>4, TransferStep
<1>5. ASSUME NEW amount \in Amounts, NEW mode \in DebtModes, borrow(u, a, amount, mode, w)
      PROVE  Inv' /\ ReservesGrow /\ DebtsConsented
  <2>1. /\ _executeBorrow(u, w, a, amount, mode, TRUE)
        /\ UNCHANGED environment /\ flash' = flash
    BY <1>5 DEF borrow
  <2> QED
    BY <1>2, <2>1, SameFlash, BorrowStep
<1>6. ASSUME NEW amount \in AmountArgs, withdraw(u, a, amount, w)
      PROVE  Inv' /\ ReservesGrow /\ DebtsConsented
  BY <1>2, <1>6, WithdrawStep
<1>7. ASSUME NEW amount \in AmountArgs, NEW mode \in DebtModes,
             repay(u, a, amount, mode, w)
      PROVE  Inv' /\ ReservesGrow /\ DebtsConsented
  BY <1>2, <1>7, RepayStep
<1>8. ASSUME NEW amount \in AmountArgs, NEW c \in Assets, NEW receiveLToken \in BOOLEAN,
             liquidationCall(u, c, a, w, amount, receiveLToken)
      PROVE  Inv' /\ ReservesGrow /\ DebtsConsented
  BY <1>2, <1>8, LiquidationStep
<1> QED
  BY <1>1, <1>3, <1>4, <1>5, <1>6, <1>7, <1>8

\* Every operation on debts and collateral preserves the invariant.
LEMMA PositionInv ==
    ASSUME Inv, PositionStep
    PROVE  Inv' /\ ReservesGrow /\ DebtsConsented
<1>1. PICK u \in Users, a \in Assets :
       \/ rebalanceStableBorrowRate(a, u)
       \/ \E flag \in BOOLEAN : setUserUseReserveAsCollateral(u, a, flag)
       \/ \E mode \in DebtModes : swapBorrowRateMode(u, a, mode)
       \/ \E mode \in DebtModes, w \in Users \ {u}, amount \in Delegations :
            approveDelegation(u, a, mode, w, amount)
       \/ \E amount \in Donations : donate(u, a, amount)
  BY DEF PositionStep, PositionStepOf
<1>2. Delegations \subseteq Nat /\ Donations \subseteq Nat
  BY BoundsAssumption
<1>3. ASSUME NEW mode \in DebtModes, NEW w \in Users, NEW amount \in Delegations,
             approveDelegation(u, a, mode, w, amount)
      PROVE  Inv' /\ ReservesGrow /\ DebtsConsented
  BY <1>2, <1>3, ApproveStep
<1>4. ASSUME NEW amount \in Donations, donate(u, a, amount)
      PROVE  Inv' /\ ReservesGrow /\ DebtsConsented
  BY <1>2, <1>4, DonateStep
<1> QED
  BY <1>1, <1>3, <1>4, RebalanceStep, CollateralStep, SwapStep

\* Every step of a flash loan preserves the invariant.
LEMMA FlashInv ==
    ASSUME Inv, FlashStep
    PROVE  Inv' /\ ReservesGrow /\ DebtsConsented
  BY FlashLoanStep, LendStep, CallbackReturns, CollectStep, BorrowFlashStep
  DEF FlashStep, FlashStepOf

\* No step of the pool breaks the invariant, and none lowers an index.
LEMMA InvStep ==
    ASSUME Inv, [Next]_vars
    PROVE  Inv' /\ ReservesGrow /\ DebtsConsented
<1>1. CASE UNCHANGED vars
  <2>1. Inv'
    BY <1>1 DEF vars, Inv, TypeOK, ReservesGood, FramesOK, BorrowingFlagged
  <2>2. ReservesGrow
    BY <1>1, SameReserves DEF vars
  <2>3. DebtsConsented
    BY <1>1, SameConsented DEF vars
  <2> QED
    BY <2>1, <2>2, <2>3
<1> QED
  BY <1>1, UserInv, PositionInv, FlashInv, EnvironmentInv DEF Next

\* The invariant is inductive, and no step lowers an index.
LEMMA Invariance == Spec => []Inv
<1>1. Inv /\ [Next]_vars => Inv'
  BY InvStep
<1> QED
  BY InvInit, <1>1, PTL DEF Spec

(* Every variable keeps its type, whatever the operations and their order: *)
(* no balance, supply, allowance, rate or index of the pool goes below     *)
(* zero, for every configuration of the reserves.                          *)
THEOREM TypeCorrect == Spec => []TypeOK
<1>1. Inv => TypeOK
  BY DEF Inv
<1> QED
  BY Invariance, <1>1, PTL

(* A debt is always flagged: repay(), which computes what is owed before   *)
(* the accrual and clears the flag after it, never leaves a debt behind    *)
(* that the health checks would ignore.                                    *)
THEOREM DebtsFlagged == Spec => []BorrowingFlagged
<1>1. Inv => BorrowingFlagged
  BY DEF Inv
<1> QED
  BY Invariance, <1>1, PTL

(* The timestamps that ReserveLogic, MathUtils and StableDebtToken         *)
(* subtract are always ordered.                                            *)
THEOREM Timestamps == Spec => []TimestampsOrdered
<1>1. Inv => TimestampsOrdered
  BY DEF Inv, ReservesGood, ordered, TimestampsOrdered
<1> QED
  BY Invariance, <1>1, PTL

\* What the invariants say of supplies is what addsUp says of each reserve.
LEMMA GoodAddsUp ==
    ASSUME TypeOK, ReservesGood
    PROVE  SuppliesAddUp
<1>1. ASSUME NEW a \in Assets
      PROVE  /\ reserves[a].lSupply = SumFunction(reserves[a].l)
             /\ reserves[a].vSupply = SumFunction(reserves[a].v)
  <2>1. DOMAIN reserves[a].l = Users /\ DOMAIN reserves[a].v = Users
    BY DEF TypeOK, Market
  <2> QED
    BY <2>1, SumIsSumFunction DEF ReservesGood, addsUp
<1> QED
  BY <1>1 DEF SuppliesAddUp

(* The scaled supplies of the lToken and of the variable debt token are    *)
(* the sums of the users' scaled balances, for any number of users:        *)
(* minting, burning, transfers to others and to oneself, the treasury's    *)
(* share and a seizure that burns or transfers all keep both in step.      *)
THEOREM Supplies == Spec => []SuppliesAddUp
<1>1. Inv => SuppliesAddUp
  BY GoodAddsUp DEF Inv
<1> QED
  BY Invariance, <1>1, PTL

(* The indexes of every reserve start at one ray and are never lowered.    *)
THEOREM Indexes == Spec => IndexesMonotone
<1>1. Inv /\ [Next]_vars =>
        \A a \in Assets :
          /\ RAY <= reserves[a].liquidityIndex
          /\ RAY <= reserves[a].variableBorrowIndex
          /\ reserves[a].liquidityIndex <= reserves'[a].liquidityIndex
          /\ reserves[a].variableBorrowIndex <= reserves'[a].variableBorrowIndex
  BY InvStep DEF Inv, ReservesGood, aboveRay, ReservesGrow
<1> QED
  BY Invariance, <1>1, PTL DEF Spec, IndexesMonotone

(* No debt is put on an account behind its owner's back: a debt of either  *)
(* kind only grows by a call that pays the owner, by the owner's swap of a *)
(* debt of the other kind, or within what the owner approved to a          *)
(* delegatee, who receives exactly as much as the allowance shrinks; a     *)
(* flash loan becomes a debt of whoever took it, or on such an allowance.  *)
(* Repaying, rebalancing and liquidating add nothing but interest.         *)
THEOREM DebtsTaken == Spec => DebtConsented
<1>1. Inv /\ [Next]_vars =>
        \A a \in Assets, u \in Users, mode \in DebtModes :
          debtGrows(a, u, mode) => Consent(a, u, mode)
  BY InvStep DEF DebtsConsented
<1> QED
  BY Invariance, <1>1, PTL DEF Spec, DebtConsented

\* A scaled balance that stays is shown no smaller once no reserve lost anything.
LEMMA DepositKept ==
    ASSUME Inv, Inv', ReservesGrow, NEW a \in Assets, NEW u \in Users,
           reserves'[a].l[u] = reserves[a].l[u]
    PROVE  lBalanceOf(reserves[a], u, now) <= lBalanceOf(reserves'[a], u, now')
<1> DEFINE i == getNormalizedIncome(reserves[a], now)
           j == getNormalizedIncome(reserves'[a], now')
           x == reserves[a].l[u]
<1>1. i \in Nat /\ x \in Nat
  BY ReserveFacts, NormalizedIncome DEF Good, Market
<1>2. j \in Nat
  <2>1. now' \in Nat /\ Good(reserves'[a], now')
    BY DEF Inv, TypeOK, ReservesGood, Good
  <2> QED
    BY <2>1, NormalizedIncome
<1>3. i <= j
  BY DEF ReservesGrow
<1>4. /\ lBalanceOf(reserves[a], u, now) = rayMul(x, i)
      /\ lBalanceOf(reserves'[a], u, now') = rayMul(x, j)
  BY DEF lBalanceOf
<1> HIDE DEF i, j, x
<1> QED
  BY <1>1, <1>2, <1>3, <1>4, RayMulMonotone

(* What lToken.balanceOf() shows a depositor never falls while the scaled  *)
(* balance stays: income shown by getReserveNormalizedIncome() is booked   *)
(* by the next updateState(), and neither a lower rate nor a collected     *)
(* premium nor a liquidation takes any of it back.                         *)
THEOREM DepositsKept == Spec => DepositsNeverShrink
<1>1. Inv /\ [Next]_vars =>
        \A a \in Assets, u \in Users :
          reserves[a].l[u] > 0 /\ reserves'[a].l[u] = reserves[a].l[u] =>
            lBalanceOf(reserves[a], u, now) <= lBalanceOf(reserves'[a], u, now')
  BY InvStep, DepositKept
<1> QED
  BY Invariance, <1>1, PTL DEF Spec, DepositsNeverShrink
=============================================================================
