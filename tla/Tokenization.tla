---------------------------- MODULE Tokenization ----------------------------
(***************************************************************************)
(* The three tokens of a reserve: LToken.sol, VariableDebtToken.sol and    *)
(* StableDebtToken.sol, over IncentivizedERC20.sol and DebtTokenBase.sol.  *)
(*                                                                         *)
(* A market m is the record of the state of a reserve and of its tokens    *)
(* (its type is ReserveLogic!Market). The fields used here are             *)
(*   l, lSupply   scaled lToken balances and their total                   *)
(*   avail        underlying held by the lToken contract                   *)
(*   v, vSupply   scaled variable debt balances and their total            *)
(*   s, sRate, sTs          principal, rate and timestamp of each stable   *)
(*                          debt                                           *)
(*   sSupply, sAvg, sSupplyTs   principal total, average rate, timestamp   *)
(* Each state-changing function is an operator from a market to a market,  *)
(* with a ...OK operator for the conditions under which it does not        *)
(* revert. Token names, events and the incentives controller's callback    *)
(* are left out.                                                           *)
(***************************************************************************)
EXTENDS WadRayMath

(* LToken ******************************************************************)

lMintOK(amount, index) == rayDiv(amount, index) # 0

lMint(m, user, amount, index) ==
    LET amountScaled == rayDiv(amount, index)
    IN  [m EXCEPT !.l[user]  = @ + amountScaled,
                  !.lSupply  = @ + amountScaled]

lBurnOK(m, user, amount, index) ==
    LET amountScaled == rayDiv(amount, index)
    IN  /\ amountScaled # 0
        /\ amountScaled <= m.lSupply
        /\ amountScaled <= m.l[user]
        /\ amount <= m.avail

\* Burns and sends the underlying away; the caller credits the receiver.
lBurn(m, user, amount, index) ==
    LET amountScaled == rayDiv(amount, index)
    IN  [m EXCEPT !.l[user]  = @ - amountScaled,
                  !.lSupply  = @ - amountScaled,
                  !.avail    = @ - amount]

\* Unlike lMint, an amount that rounds to zero does not revert.
mintToTreasury(m, treasury, amount, index) == lMint(m, treasury, amount, index)

lTransferOK(m, from, amount, index) == rayDiv(amount, index) <= m.l[from]

\* Mutant: the receiver's balance is read before the sender's is written, which
\* shows when they are the same.
lTransferStale(m, from, to, amount, index) ==
    LET amountScaled == rayDiv(amount, index)
    IN  [m EXCEPT !.l[from] = @ - amountScaled,
                  !.l[to]   = m.l[to] + amountScaled]

lTransfer(m, from, to, amount, index) ==
    LET amountScaled == rayDiv(amount, index)
        debited      == [m.l EXCEPT ![from] = @ - amountScaled]
    IN  [m EXCEPT !.l = [debited EXCEPT ![to] = @ + amountScaled]]

(* VariableDebtToken *******************************************************)

vMintOK(amount, index) == rayDiv(amount, index) # 0

vMint(m, onBehalfOf, amount, index) ==
    LET amountScaled == rayDiv(amount, index)
    IN  [m EXCEPT !.v[onBehalfOf] = @ + amountScaled,
                  !.vSupply       = @ + amountScaled]

vBurnOK(m, user, amount, index) ==
    LET amountScaled == rayDiv(amount, index)
    IN  /\ amountScaled # 0
        /\ amountScaled <= m.vSupply
        /\ amountScaled <= m.v[user]

vBurn(m, user, amount, index) ==
    LET amountScaled == rayDiv(amount, index)
    IN  [m EXCEPT !.v[user]  = @ - amountScaled,
                  !.vSupply  = @ - amountScaled]

(* StableDebtToken *********************************************************)

sBalanceOf(m, user, now) ==
    IF m.s[user] = 0
    THEN 0
    ELSE rayMul(m.s[user],
                calculateCompoundedInterest(m.sRate[user], m.sTs[user], now))

sTotalSupply(m, now) ==
    IF m.sSupply = 0
    THEN 0
    ELSE rayMul(m.sSupply,
                calculateCompoundedInterest(m.sAvg, m.sSupplyTs, now))

\* The rate of the user's debt after borrowing amount more at rate.
sMintRate(m, user, amount, rate, now) ==
    LET currentBalance == sBalanceOf(m, user, now)
    IN  rayDiv(rayMul(m.sRate[user], wadToRay(currentBalance))
                 + rayMul(wadToRay(amount), rate),
               wadToRay(currentBalance + amount))

sMintOK(m, user, amount, rate, now) ==
    /\ sBalanceOf(m, user, now) + amount > 0
    /\ sTotalSupply(m, now) + amount > 0
    /\ sMintRate(m, user, amount, rate, now) <= MaxUint128

\* The new principal is the accrued balance plus the amount.
sMint(m, user, amount, rate, now) ==
    LET previousSupply == sTotalSupply(m, now)
        nextSupply     == previousSupply + amount
    IN  [m EXCEPT
          !.sSupply     = nextSupply,
          !.sRate[user] = sMintRate(m, user, amount, rate, now),
          !.sTs[user]   = now,
          !.sSupplyTs   = now,
          !.sAvg        = rayDiv(rayMul(@, wadToRay(previousSupply))
                                   + rayMul(rate, wadToRay(amount)),
                                 wadToRay(nextSupply)),
          !.s[user]     = sBalanceOf(m, user, now) + amount]

sBurnOK(m, user, amount, now) == amount <= sBalanceOf(m, user, now)

\* Accumulation errors between the total and the users' debts are absorbed by
\* setting the total, or the average rate and the total, to zero.
sBurn(m, user, amount, now) ==
    LET currentBalance == sBalanceOf(m, user, now)
        previousSupply == sTotalSupply(m, now)
        nextSupply     == previousSupply - amount
        firstTerm      == rayMul(m.sAvg, wadToRay(previousSupply))
        secondTerm     == rayMul(m.sRate[user], wadToRay(amount))
        emptied        == previousSupply <= amount \/ secondTerm >= firstTerm
        repaid         == amount = currentBalance
    IN  [m EXCEPT
          !.sSupply     = IF emptied THEN 0 ELSE nextSupply,
          !.sAvg        = IF emptied THEN 0
                          ELSE rayDiv(firstTerm - secondTerm, wadToRay(nextSupply)),
          !.sRate[user] = IF repaid THEN 0 ELSE @,
          !.sTs[user]   = IF repaid THEN 0 ELSE now,
          !.sSupplyTs   = now,
          !.s[user]     = currentBalance - amount]
=============================================================================
