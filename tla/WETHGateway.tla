----------------------------- MODULE WETHGateway -----------------------------
(***************************************************************************)
(* WETHGateway.sol on top of the pool: deposits, loans, repayments and     *)
(* withdrawals in the native currency.  A call of the gateway is one       *)
(* transaction made of calls to other contracts, each of which must go     *)
(* through; it is modelled as a sequence of steps during which nothing     *)
(* else happens.  A call that reverts is one that is never finished, like  *)
(* a flash loan.  The native currency is sent last, so that a receiver who *)
(* calls back finds everything else done.  authorizeLendingPool() has been *)
(* called for the pool, whose allowance of WETH is unlimited.              *)
(***************************************************************************)
EXTENDS LendingPoolProperties

CONSTANTS
    WETH,       \* the asset that wraps the native currency
    Gateway,    \* the account of the gateway
    Pool,       \* the address of the pool
    OtherPools, \* other contracts that a caller may name as the lending pool
    Approvals,  \* allowances of lTokens that users give the gateway
    Values,     \* native amounts sent with a call
    Gifts,      \* amounts sent to the gateway outside its calls
    InitialEth,
    MaxCalls    \* bound on the calls of the gateway and on what is sent to it

ASSUME GatewayAssumption ==
    /\ WETH \in Assets /\ Gateway \in Users
    /\ Approvals \cup Values \cup Gifts \cup {MaxCalls} \subseteq Nat
    /\ InitialEth \in [Users -> Nat]
    /\ Pool \notin OtherPools

\* The gateway collects no treasury. What it has at first was sent to its address
\* before it was deployed.
ASSUME NewGatewayAssumption == Treasury # Gateway

VARIABLES
    eth,          \* native balances
    lAllowances,  \* lWETH that the gateway may still transfer from each user
    call,         \* the call of the gateway that is executed
    calls         \* number of calls started

gatewayVars == <<vars, eth, lAllowances, call, calls>>

idle == [op |-> "none"]

\* What the gateway has of the currency, in each of its forms.
holding ==
    [ native |-> eth[Gateway], wrapped |-> wallet[WETH][Gateway],
      scaled |-> reserves[WETH].l[Gateway] ]

GatewayInit ==
    /\ Init
    /\ eth = InitialEth
    /\ lAllowances = [u \in Users |-> 0]
    /\ call = idle
    /\ calls = 0

-----------------------------------------------------------------------------
(* The wrapped currency, WETH9                                             *)

\* The sender sends value with its call, of which the gateway wraps an amount.
wrap(sender, value, amount) ==
    /\ value <= eth[sender] /\ amount <= value
    /\ eth' = [eth EXCEPT ![sender] = @ - value, ![Gateway] = @ + (value - amount)]
    /\ wallet' = [wallet EXCEPT ![WETH][Gateway] = @ + amount]
    /\ UNCHANGED <<environment, reserves, usersConfig, borrowAllowances, flash, lAllowances>>

\* WETH.withdraw() and _safeTransferETH(), with which borrowETH() and withdrawETH() end.
unwrapAndSend ==
    /\ call.op = "unwrap"
    /\ call.amount <= wallet[WETH][Gateway]
    /\ wallet' = [wallet EXCEPT ![WETH][Gateway] = @ - call.amount]
    /\ eth' = [eth EXCEPT ![call.to] = @ + call.amount]
    /\ call' = idle
    /\ UNCHANGED <<environment, reserves, usersConfig, borrowAllowances, flash, lAllowances>>

-----------------------------------------------------------------------------
(* Other contracts.  The pool is an argument of every call, and what       *)
(* another contract does with it is not known, except that it moves WETH:  *)
(* it takes what the gateway deposits or repays, if the owner has          *)
(* authorized it as well, or leaves it, and pays out what the gateway      *)
(* withdraws or borrows, or does not.                                      *)

setGatewayWETH(balance) ==
    /\ wallet' = [wallet EXCEPT ![WETH][Gateway] = balance]
    /\ UNCHANGED <<environment, reserves, usersConfig, borrowAllowances, flash>>

otherTakes(amount) ==
    \/ setGatewayWETH(wallet[WETH][Gateway])
    \/ amount <= wallet[WETH][Gateway] /\ setGatewayWETH(wallet[WETH][Gateway] - amount)

otherPays(amount) ==
    \/ setGatewayWETH(wallet[WETH][Gateway])
    \/ setGatewayWETH(wallet[WETH][Gateway] + amount)

-----------------------------------------------------------------------------
(* The calls.  A call keeps what the gateway held when it began.           *)

depositETH(lendingPool, sender, value, onBehalfOf) ==
    /\ wrap(sender, value, value)
    /\ call' = [op |-> "deposit", pool |-> lendingPool, held |-> holding,
                sender |-> sender, amount |-> value, onBehalfOf |-> onBehalfOf]

depositWrapped ==
    /\ call.op = "deposit"
    /\ IF call.pool = Pool
       THEN deposit(Gateway, WETH, call.amount, call.onBehalfOf)
       ELSE otherTakes(call.amount)
    /\ call' = idle
    /\ UNCHANGED <<eth, lAllowances>>

\* transferFrom() moves the lTokens, which type(uint256).max overflows, then takes
\* them from the allowance. Another contract names its own lToken, if not this one.
withdrawETH(lendingPool, sender, amount, to) ==
    LET taken == amountToWithdraw(sender, WETH, amount)
        withdrawing(all) == [op |-> "withdraw", pool |-> lendingPool, held |-> holding,
                             sender |-> sender, amount |-> taken, to |-> to, all |-> all]
    IN  /\ taken # MaxUint
        /\ UNCHANGED eth
        /\ \/ /\ transfer(sender, WETH, Gateway, taken)
              /\ taken <= lAllowances[sender]
              /\ lAllowances' = [lAllowances EXCEPT ![sender] = @ - taken]
              /\ call' = withdrawing(amount = MaxUint)
           \/ /\ lendingPool # Pool
              /\ UNCHANGED <<vars, lAllowances>>
              /\ call' = withdrawing(FALSE)

withdrawReceived ==
    /\ call.op = "withdraw"
    /\ IF call.pool = Pool
       THEN withdraw(Gateway, WETH, call.amount, Gateway)
       ELSE otherPays(call.amount)
    /\ call' = [op |-> "unwrap", pool |-> call.pool, held |-> call.held,
                sender |-> call.sender, amount |-> call.amount, to |-> call.to]
    /\ UNCHANGED <<eth, lAllowances>>

\* Mutant: what is paid back is the amount asked for, even above the debt.
paybackAsked(amount, onBehalfOf, mode) == amount

\* Mutant: the scaled balance of the variable debt token is read.
paybackScaled(amount, onBehalfOf, mode) ==
    min(amount, IF mode = "stable" THEN reserves[WETH].s[onBehalfOf]
                                   ELSE reserves[WETH].v[onBehalfOf])

paybackAmount(amount, onBehalfOf, mode) == min(amount, debtOf(WETH, onBehalfOf, mode))

\* Another contract names debt tokens that show any debt.
repayETH(lendingPool, sender, value, amount, mode, onBehalfOf) ==
    \E payback \in IF lendingPool = Pool THEN {paybackAmount(amount, onBehalfOf, mode)}
                                        ELSE {0, amount} :
       /\ wrap(sender, value, payback)
       /\ call' = [op |-> "repay", pool |-> lendingPool, held |-> holding,
                   sender |-> sender, value |-> value, amount |-> amount, mode |-> mode,
                   onBehalfOf |-> onBehalfOf, payback |-> payback]

\* The pool is told to take msg.value, not the payback amount.
repayWrapped ==
    /\ call.op = "repay"
    /\ IF call.pool = Pool
       THEN repay(Gateway, WETH, call.value, call.mode, call.onBehalfOf)
       ELSE \E amount \in {call.payback, call.value} : otherTakes(amount)
    /\ call' = IF call.value > call.payback
               THEN [op |-> "refund", pool |-> call.pool, held |-> call.held,
                     sender |-> call.sender, amount |-> call.value - call.payback,
                     whole |-> call.payback = debtOf(WETH, call.onBehalfOf, call.mode)]
               ELSE idle
    /\ UNCHANGED <<eth, lAllowances>>

refund ==
    /\ call.op = "refund"
    /\ call.amount <= eth[Gateway]
    /\ eth' = [eth EXCEPT ![Gateway] = @ - call.amount, ![call.sender] = @ + call.amount]
    /\ call' = idle
    /\ UNCHANGED <<vars, lAllowances>>

borrowing(lendingPool, sender, amount) ==
    [op |-> "unwrap", pool |-> lendingPool, held |-> holding, sender |-> sender,
     amount |-> amount, to |-> sender]

\* Mutant: the borrower is a parameter, as it is for a deposit or a repayment.
borrowETHFor(lendingPool, sender, amount, mode) ==
    /\ \E onBehalfOf \in Users \ {Gateway} : borrow(Gateway, WETH, amount, mode, onBehalfOf)
    /\ call' = borrowing(lendingPool, sender, amount)
    /\ UNCHANGED <<eth, lAllowances>>

borrowETH(lendingPool, sender, amount, mode) ==
    /\ IF lendingPool = Pool
       THEN borrow(Gateway, WETH, amount, mode, sender)
       ELSE otherPays(amount)
    /\ call' = borrowing(lendingPool, sender, amount)
    /\ UNCHANGED <<eth, lAllowances>>

\* IncentivizedERC20.approve of the lToken, for the gateway.
approve(user, amount) ==
    /\ lAllowances' = [lAllowances EXCEPT ![user] = amount]
    /\ UNCHANGED <<vars, eth, call, calls>>

-----------------------------------------------------------------------------
(* What comes to the gateway and leaves it outside its calls               *)

sent(balances, from, to, amount) ==
    LET debited == [balances EXCEPT ![from] = @ - amount]
    IN  [debited EXCEPT ![to] = @ + amount]

\* A token is sent from one wallet to another.
sendToken(from, asset, to, amount) ==
    /\ amount <= wallet[asset][from]
    /\ wallet' = [wallet EXCEPT ![asset] = sent(@, from, to, amount)]
    /\ UNCHANGED <<environment, reserves, usersConfig, borrowAllowances, flash>>

\* The native currency is sent: to the gateway by a selfdestruct, since its
\* receive() takes it from WETH only.
sendEther(from, to, amount) ==
    /\ amount <= eth[from]
    /\ eth' = sent(eth, from, to, amount)
    /\ UNCHANGED vars

\* The lTokens come by a transfer or a deposit in the pool.
sendToGateway(sender, amount) ==
    /\ calls < MaxCalls
    /\ calls' = calls + 1
    /\ \/ \E a \in Assets : sendToken(sender, a, Gateway, amount) /\ UNCHANGED eth
       \/ sendEther(sender, Gateway, amount)
    /\ UNCHANGED <<lAllowances, call>>

\* By the owner, of any token.
emergencyTokenTransfer(asset, to, amount) ==
    /\ sendToken(Gateway, asset, to, amount) \/ transfer(Gateway, asset, to, amount)
    /\ UNCHANGED <<eth, lAllowances, call, calls>>

emergencyEtherTransfer(to, amount) ==
    /\ sendEther(Gateway, to, amount)
    /\ UNCHANGED <<lAllowances, call, calls>>

-----------------------------------------------------------------------------

People == Users \ {Gateway}

\* The gateway does not receive the native currency it sends.
startCall ==
    /\ calls < MaxCalls
    /\ calls' = calls + 1
    /\ \E lendingPool \in {Pool} \cup OtherPools, sender \in People, other \in Users :
         \/ \E value \in Values : depositETH(lendingPool, sender, value, other)
         \/ \E amount \in AmountArgs :
              other # Gateway /\ withdrawETH(lendingPool, sender, amount, other)
         \/ \E value \in Values, amount \in AmountArgs, mode \in DebtModes :
              repayETH(lendingPool, sender, value, amount, mode, other)
         \/ \E amount \in Amounts, mode \in DebtModes :
              borrowETH(lendingPool, sender, amount, mode)

continueCall ==
    /\ depositWrapped \/ withdrawReceived \/ repayWrapped \/ refund \/ unwrapAndSend
    /\ UNCHANGED calls

\* Everybody but the gateway calls the pool, whose code does so in its calls only.
poolStep ==
    /\ UserStepOf(People) \/ PositionStepOf(People) \/ FlashStepOf(People) \/ EnvironmentStep
    /\ UNCHANGED <<eth, lAllowances, call, calls>>

GatewayNext ==
    \/ /\ call = idle /\ callable
       /\ \/ startCall
          \/ \E u \in People, amount \in Approvals : approve(u, amount)
          \/ \E u \in People, amount \in Gifts : sendToGateway(u, amount)
          \/ \E a \in Assets, u \in People, amount \in Gifts \cup Amounts :
               emergencyTokenTransfer(a, u, amount)
          \/ \E u \in People, amount \in Gifts \cup Amounts : emergencyEtherTransfer(u, amount)
    \/ call = idle /\ poolStep
    \/ continueCall

GatewaySpec == GatewayInit /\ [][GatewayNext]_gatewayVars

-----------------------------------------------------------------------------
(* What the gateway promises                                               *)

(* The gateway owes nothing, and a call through the pool leaves nothing    *)
(* with it: of the native currency and of lTokens it holds afterwards what *)
(* it held before, whatever was sent to it, by a transfer or by a call     *)
(* through another contract, and whatever was rounded. So it does of WETH, *)
(* except that a repayment of less than the debt with more native currency *)
(* than that is made up from WETH that was there (repayWrapped).           *)
GatewayKeepsNothing ==
    [][ LET m  == reserves'[WETH]
            h  == call.held
        IN  /\ m.s[Gateway] = 0 /\ m.v[Gateway] = 0
            /\ call # idle /\ call' = idle /\ call.pool = Pool =>
                 /\ eth'[Gateway] = h.native
                 /\ \/ m.l[Gateway] = h.scaled
                    \/ call.op = "deposit" /\ call.onBehalfOf = Gateway
                 /\ \/ wallet'[WETH][Gateway] = h.wrapped
                    \/ /\ call.op = "refund" /\ ~call.whole
                       /\ wallet'[WETH][Gateway] < h.wrapped ]_gatewayVars

\* What a user would be left with after withdrawing and repaying everything.
position(u) ==
    eth[u] + wallet[WETH][u] + lBalanceOf(reserves[WETH], u, now)
      - stableDebtOf(WETH, u) - variableDebtOf(WETH, u)

(* A call of the gateway is paid by its caller: it leaves nobody else      *)
(* poorer by more than rounding, whomever it deposits, repays or withdraws *)
(* for and whatever others have allowed the gateway to take or to borrow.  *)
CallerPays ==
    [][call # idle \/ call' # idle =>
         \A u \in People :
            \/ call = idle /\ u = call'.sender
            \/ position(u) <= position(u)' + Dust]_gatewayVars

(* A repayment goes through if the amount asked for covers the debt, or is *)
(* exactly what is sent, and so does the withdrawal of a whole balance that *)
(* the reserve can pay, although the gateway and the pool each compute     *)
(* what is paid, and the balance is rounded when it passes to the gateway. *)
CallsGoThrough ==
    /\ call.op = "repay" /\ call.pool = Pool /\ 0 < call.payback
         /\ (\/ call.amount >= debtOf(WETH, call.onBehalfOf, call.mode)
             \/ call.amount = call.value)
       => repayOK(Gateway, WETH, call.value, call.mode, call.onBehalfOf)
    /\ call.op = "withdraw" /\ call.pool = Pool /\ call.all
         /\ call.amount \in 1..reserves[WETH].avail
       => withdrawOK(Gateway, WETH, call.amount)
=============================================================================
