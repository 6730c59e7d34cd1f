---------------------------- MODULE GatewayProofs ----------------------------
(***************************************************************************)
(* Theorems about the gateway on top of the pool.  A call of the gateway   *)
(* is a sequence of calls of the pool in which it is the payer, the        *)
(* receiver or the delegatee, and the lemmas about the pool hold for any   *)
(* user in these parts.  What is left to show is that the amounts and      *)
(* accounts a call carries from one step to the next have their types      *)
(* (CallTyped), and that wrapping and unwrapping touch wallets only.  That *)
(* the gateway keeps nothing follows from what it holds at every step of   *)
(* a call on top of what was there when the call began (InTransit) and     *)
(* from nobody's borrowing on its credit (Creditless). That the pool does  *)
(* not refuse what a call has begun needs in addition what stays as the    *)
(* gateway has read it while the call is executed (Ready); and that only   *)
(* the caller pays for it, how each operation of the pool moves what a     *)
(* user would be left with (notPoorer).                                    *)
(***************************************************************************)
EXTENDS WETHGateway, ExitProofs

CallTyped ==
    /\ call.op = "deposit" => call.amount \in Nat /\ call.onBehalfOf \in Users
    /\ call.op = "withdraw" => call.amount \in Nat /\ call.to \in Users
    /\ call.op = "repay" =>
         /\ call.value \in Nat /\ call.mode \in DebtModes /\ call.onBehalfOf \in Users
         /\ call.payback \in Nat
    /\ call.op = "unwrap" => call.amount \in Nat /\ call.to \in Users

GatewayInv == Inv /\ CallTyped

-----------------------------------------------------------------------------
(* What a step of the gateway does to the pool                             *)

\* Tokens move between wallets and the pool does not see it.
LEMMA WalletsMove ==
    ASSUME Inv, wallet' \in [Assets -> [Users -> Nat]],
           UNCHANGED <<environment, reserves, usersConfig, borrowAllowances, flash>>
    PROVE  Inv' /\ ReservesGrow /\ DebtsConsented
<1> DEFINE n == reserves[WETH]
<1>1. WETH \in Assets
  BY GatewayAssumption
<1>2. Good(n, now) /\ grows(n, n, now)
  BY <1>1, ReserveFacts, GrowsReflexive
<1>3. reserves' = [reserves EXCEPT ![WETH] = n] /\ sameDebts(reserves[WETH], n)
  <2>1. reserves \in [Assets -> Market]
    BY DEF Inv, TypeOK
  <2> QED
    BY <1>1, <2>1 DEF sameDebts
<1>4. /\ usersConfig' \in [Users -> UserConfiguration]
      /\ sameFlags(usersConfig, usersConfig')
  BY PoolTyped DEF sameFlags
<1>5. flash' \in Seq(Frame) /\ FramesOK'
  BY SameFlash
<1> QED
  BY <1>1, <1>2, <1>3, <1>4, <1>5, QuietStep DEF n

\* WETH comes to or leaves the gateway.
LEMMA WalletStep ==
    ASSUME Inv, NEW x \in Nat, wallet' = [wallet EXCEPT ![WETH][Gateway] = x],
           UNCHANGED <<environment, reserves, usersConfig, borrowAllowances, flash>>
    PROVE  Inv' /\ ReservesGrow /\ DebtsConsented
<1>1. wallet' \in [Assets -> [Users -> Nat]]
  BY GatewayAssumption, PoolTyped, WalletTyped
<1> QED
  BY <1>1, WalletsMove

\* A step that changes native balances only.
LEMMA PoolStands ==
    ASSUME Inv, UNCHANGED vars
    PROVE  Inv' /\ ReservesGrow /\ DebtsConsented
  BY InvStep

\* The wrapped amount arrives in the gateway.
LEMMA WrapStep ==
    ASSUME Inv, NEW sender, NEW value \in Nat, NEW amount \in Nat,
           wrap(sender, value, amount)
    PROVE  Inv' /\ ReservesGrow /\ DebtsConsented
<1> DEFINE x == wallet[WETH][Gateway] + amount
<1>1. /\ wallet' = [wallet EXCEPT ![WETH][Gateway] = x]
      /\ UNCHANGED <<environment, reserves, usersConfig, borrowAllowances, flash>>
  BY DEF wrap
<1>2. x \in Nat
  BY GatewayAssumption, PoolTyped
<1> HIDE DEF x
<1> QED
  BY <1>1, <1>2, WalletStep

\* What is unwrapped has been there.
LEMMA UnwrapStep ==
    ASSUME Inv, CallTyped, unwrapAndSend
    PROVE  Inv' /\ ReservesGrow /\ DebtsConsented
<1> DEFINE x == wallet[WETH][Gateway] - call.amount
<1>1. /\ wallet' = [wallet EXCEPT ![WETH][Gateway] = x]
      /\ UNCHANGED <<environment, reserves, usersConfig, borrowAllowances, flash>>
      /\ call.amount <= wallet[WETH][Gateway] /\ call.op = "unwrap"
  BY DEF unwrapAndSend
<1>2. x \in Nat
  <2>1. call.amount \in Nat /\ wallet[WETH][Gateway] \in Nat
    BY <1>1, GatewayAssumption, PoolTyped DEF CallTyped
  <2> QED
    BY <1>1, <2>1
<1> HIDE DEF x
<1> QED
  BY <1>1, <1>2, WalletStep

\* Another contract takes or pays WETH.
LEMMA OtherStep ==
    ASSUME Inv, NEW amount \in Nat, otherTakes(amount) \/ otherPays(amount)
    PROVE  Inv' /\ ReservesGrow /\ DebtsConsented
<1>1. wallet[WETH][Gateway] \in Nat
  BY GatewayAssumption, PoolTyped
<1>2. PICK x \in Nat : setGatewayWETH(x)
  BY <1>1 DEF otherTakes, otherPays
<1>3. /\ wallet' = [wallet EXCEPT ![WETH][Gateway] = x]
      /\ UNCHANGED <<environment, reserves, usersConfig, borrowAllowances, flash>>
  BY <1>2 DEF setGatewayWETH
<1> QED
  BY <1>3, WalletStep

\* A token passes from one wallet to another.
LEMMA SendStep ==
    ASSUME Inv, NEW w \in Users, NEW a \in Assets, NEW to \in Users, NEW amount \in Nat,
           sendToken(w, a, to, amount)
    PROVE  Inv' /\ ReservesGrow /\ DebtsConsented
<1> DEFINE r == sent(wallet[a], w, to, amount)
<1>1. /\ amount <= wallet[a][w] /\ wallet' = [wallet EXCEPT ![a] = r]
      /\ UNCHANGED <<environment, reserves, usersConfig, borrowAllowances, flash>>
      /\ wallet \in [Assets -> [Users -> Nat]]
  BY PoolTyped DEF sendToken
<1>2. r \in [Users -> Nat]
  BY <1>1 DEF sent
<1> HIDE DEF r
<1>3. wallet' \in [Assets -> [Users -> Nat]]
  BY <1>1, <1>2
<1> QED
  BY <1>1, <1>3, WalletsMove

\* What the gateway takes from a user is an amount.
LEMMA TakenNat ==
    ASSUME Inv, NEW sender \in Users, NEW amount \in Nat
    PROVE  amountToWithdraw(sender, WETH, amount) \in Nat
<1>1. Good(reserves[WETH], now) /\ now \in Nat
  BY GatewayAssumption, ReserveFacts
<1> QED
  BY <1>1, Balances DEF amountToWithdraw

\* What the gateway pays back is an amount.
LEMMA PaybackNat ==
    ASSUME Inv, NEW amount \in Nat, NEW u \in Users, NEW mode \in DebtModes
    PROVE  paybackAmount(amount, u, mode) \in Nat
<1>1. debtOf(WETH, u, mode) \in Nat
  BY GatewayAssumption, DebtsNat
<1> QED
  BY <1>1 DEF paybackAmount, min

-----------------------------------------------------------------------------
(* The steps                                                               *)

\* The parts of the first step of a call.
LEMMA StartCases ==
    ASSUME startCall
    PROVE  /\ WETH \in Assets /\ Gateway \in Users /\ Values \subseteq Nat
           /\ Amounts \subseteq Nat /\ AmountArgs \subseteq Nat
           /\ \E lendingPool \in {Pool} \cup OtherPools, sender \in People, other \in Users :
                /\ sender \in Users /\ sender # Gateway
                /\ \/ \E value \in Values : depositETH(lendingPool, sender, value, other)
                   \/ \E amount \in AmountArgs :
                        other # Gateway /\ withdrawETH(lendingPool, sender, amount, other)
                   \/ \E value \in Values, amount \in AmountArgs, mode \in DebtModes :
                        repayETH(lendingPool, sender, value, amount, mode, other)
                   \/ \E amount \in Amounts, mode \in DebtModes :
                        borrowETH(lendingPool, sender, amount, mode)
<1>1. /\ WETH \in Assets /\ Gateway \in Users /\ Values \subseteq Nat
      /\ Amounts \subseteq Nat /\ AmountArgs \subseteq Nat
  BY GatewayAssumption, BoundsAssumption, UintAssumption DEF AmountArgs
<1>2. PICK lendingPool \in {Pool} \cup OtherPools, sender \in People, other \in Users :
         \/ \E value \in Values : depositETH(lendingPool, sender, value, other)
         \/ \E amount \in AmountArgs :
              other # Gateway /\ withdrawETH(lendingPool, sender, amount, other)
         \/ \E value \in Values, amount \in AmountArgs, mode \in DebtModes :
              repayETH(lendingPool, sender, value, amount, mode, other)
         \/ \E amount \in Amounts, mode \in DebtModes :
              borrowETH(lendingPool, sender, amount, mode)
  BY DEF startCall
<1>3. sender \in Users /\ sender # Gateway
  BY DEF People
<1> QED
  BY <1>1, <1>2, <1>3

\* The first step of a call wraps what was sent, takes lTokens or borrows.
LEMMA StartStep ==
    ASSUME GatewayInv, startCall
    PROVE  GatewayInv' /\ ReservesGrow /\ DebtsConsented
<1>1. /\ WETH \in Assets /\ Gateway \in Users /\ Values \subseteq Nat
      /\ Amounts \subseteq Nat /\ AmountArgs \subseteq Nat
  BY StartCases
<1>2. Inv
  BY DEF GatewayInv
<1>3. PICK pool \in {Pool} \cup OtherPools, sender \in People, other \in Users :
         /\ sender \in Users /\ sender # Gateway
         /\ \/ \E value \in Values : depositETH(pool, sender, value, other)
            \/ \E amount \in AmountArgs :
                 other # Gateway /\ withdrawETH(pool, sender, amount, other)
            \/ \E value \in Values, amount \in AmountArgs, mode \in DebtModes :
                 repayETH(pool, sender, value, amount, mode, other)
            \/ \E amount \in Amounts, mode \in DebtModes : borrowETH(pool, sender, amount, mode)
  BY StartCases
<1>5. ASSUME NEW value \in Values, depositETH(pool, sender, value, other)
      PROVE  GatewayInv' /\ ReservesGrow /\ DebtsConsented
  <2>1. value \in Nat /\ wrap(sender, value, value)
    BY <1>1, <1>5 DEF depositETH
  <2>2. call' = [op |-> "deposit", pool |-> pool, held |-> holding,
                 sender |-> sender, amount |-> value, onBehalfOf |-> other]
    BY <1>5 DEF depositETH
  <2>3. CallTyped'
    BY <1>3, <2>1, <2>2 DEF CallTyped
  <2> QED
    BY <1>2, <2>1, <2>3, WrapStep DEF GatewayInv
<1>6. ASSUME NEW amount \in AmountArgs, withdrawETH(pool, sender, amount, other)
      PROVE  GatewayInv' /\ ReservesGrow /\ DebtsConsented
  <2> DEFINE taken == amountToWithdraw(sender, WETH, amount)
  <2>1. /\ transfer(sender, WETH, Gateway, taken) \/ UNCHANGED vars
        /\ \E all : call' = [op |-> "withdraw", pool |-> pool, held |-> holding,
                             sender |-> sender, amount |-> taken, to |-> other, all |-> all]
    BY <1>6 DEF withdrawETH
  <2>2. taken \in Nat
    BY <1>1, <1>2, <1>3, TakenNat
  <2> HIDE DEF taken
  <2>3. CallTyped'
    BY <1>3, <2>1, <2>2 DEF CallTyped
  <2> QED
    BY <1>1, <1>2, <1>3, <2>1, <2>2, <2>3, TransferStep, PoolStands DEF GatewayInv
<1>7. ASSUME NEW value \in Values, NEW amount \in AmountArgs, NEW mode \in DebtModes,
             repayETH(pool, sender, value, amount, mode, other)
      PROVE  GatewayInv' /\ ReservesGrow /\ DebtsConsented
  <2>1. PICK payback \in IF pool = Pool THEN {paybackAmount(amount, other, mode)}
                                        ELSE {0, amount} :
        /\ wrap(sender, value, payback)
        /\ call' = [op |-> "repay", pool |-> pool, held |-> holding,
                    sender |-> sender, value |-> value, amount |-> amount,
                    mode |-> mode, onBehalfOf |-> other, payback |-> payback]
    BY <1>7 DEF repayETH
  <2>2. payback \in Nat /\ value \in Nat
    <3>1. paybackAmount(amount, other, mode) \in Nat /\ amount \in Nat /\ value \in Nat
      BY <1>1, <1>2, PaybackNat
    <3> QED
      BY <2>1, <3>1
  <2>3. CallTyped'
    BY <1>3, <2>1, <2>2 DEF CallTyped
  <2> QED
    BY <1>2, <2>1, <2>2, <2>3, WrapStep DEF GatewayInv
<1>8. ASSUME NEW amount \in Amounts, NEW mode \in DebtModes,
             borrowETH(pool, sender, amount, mode)
      PROVE  GatewayInv' /\ ReservesGrow /\ DebtsConsented
  <2>1. /\ IF pool = Pool THEN borrow(Gateway, WETH, amount, mode, sender)
                          ELSE otherPays(amount)
        /\ call' = [op |-> "unwrap", pool |-> pool, held |-> holding, sender |-> sender,
                    amount |-> amount, to |-> sender]
    BY <1>8 DEF borrowETH, borrowing
  <2>2. amount \in Nat
    BY <1>1
  <2>3. CallTyped'
    BY <1>3, <2>1, <2>2 DEF CallTyped
  <2>4. CASE pool = Pool
    <3>1. /\ _executeBorrow(Gateway, sender, WETH, amount, mode, TRUE)
          /\ UNCHANGED environment /\ flash' = flash
      BY <2>1, <2>4 DEF borrow
    <3> QED
      BY <1>1, <1>2, <1>3, <2>2, <2>3, <3>1, SameFlash, BorrowStep DEF GatewayInv
  <2>5. CASE pool # Pool
    BY <1>2, <2>1, <2>2, <2>3, <2>5, OtherStep DEF GatewayInv
  <2> QED
    BY <2>4, <2>5
<1> QED
  BY <1>3, <1>5, <1>6, <1>7, <1>8

\* The steps that follow are operations of the pool, in which the gateway pays
\* or receives, and transfers of the native currency.
LEMMA ContinueStep ==
    ASSUME GatewayInv, continueCall
    PROVE  GatewayInv' /\ ReservesGrow /\ DebtsConsented
<1>1. Inv /\ CallTyped /\ WETH \in Assets /\ Gateway \in Users
  BY GatewayAssumption DEF GatewayInv
<1>2. call' = idle => CallTyped'
  BY DEF idle, CallTyped
<1>3. CASE depositWrapped
  <2>1. /\ call.op = "deposit" /\ call' = idle
        /\ \/ deposit(Gateway, WETH, call.amount, call.onBehalfOf)
           \/ otherTakes(call.amount)
    BY <1>3 DEF depositWrapped
  <2>2. call.amount \in Nat /\ call.onBehalfOf \in Users
    BY <1>1, <2>1 DEF CallTyped
  <2> QED
    BY <1>1, <1>2, <2>1, <2>2, DepositStep, OtherStep DEF GatewayInv
<1>4. CASE withdrawReceived
  <2>1. /\ call.op = "withdraw"
        /\ withdraw(Gateway, WETH, call.amount, Gateway) \/ otherPays(call.amount)
        /\ call' = [op |-> "unwrap", pool |-> call.pool, held |-> call.held,
                    sender |-> call.sender, amount |-> call.amount, to |-> call.to]
    BY <1>4 DEF withdrawReceived
  <2>2. call.amount \in Nat /\ call.to \in Users
    BY <1>1, <2>1 DEF CallTyped
  <2>3. CallTyped'
    BY <2>1, <2>2 DEF CallTyped
  <2> QED
    BY <1>1, <2>1, <2>2, <2>3, WithdrawStep, OtherStep DEF GatewayInv
<1>5. CASE repayWrapped
  <2>1. /\ call.op = "repay"
        /\ \/ repay(Gateway, WETH, call.value, call.mode, call.onBehalfOf)
           \/ \E amount \in {call.payback, call.value} : otherTakes(amount)
        /\ call'.op = "refund" \/ call' = idle
    BY <1>5 DEF repayWrapped
  <2>2. CallTyped'
    BY <1>2, <2>1 DEF CallTyped
  <2>3. /\ call.value \in Nat /\ call.mode \in DebtModes /\ call.onBehalfOf \in Users
        /\ call.payback \in Nat
    BY <1>1, <2>1 DEF CallTyped
  <2>4. repay(Gateway, WETH, call.value, call.mode, call.onBehalfOf)
          => Inv' /\ ReservesGrow /\ DebtsConsented
    BY <1>1, <2>3, RepayStep
  <2>5. ASSUME NEW amount \in {call.payback, call.value}, otherTakes(amount)
        PROVE  Inv' /\ ReservesGrow /\ DebtsConsented
    BY <1>1, <2>3, <2>5, OtherStep
  <2> QED
    BY <2>1, <2>2, <2>4, <2>5 DEF GatewayInv
<1>6. CASE refund
  BY <1>1, <1>2, <1>6, PoolStands DEF refund, GatewayInv
<1>7. CASE unwrapAndSend
  <2>1. call' = idle
    BY <1>7 DEF unwrapAndSend
  <2> QED
    BY <1>1, <1>2, <1>7, <2>1, UnwrapStep DEF GatewayInv
<1> QED
  BY <1>3, <1>4, <1>5, <1>6, <1>7 DEF continueCall

\* What others do in the pool are steps of the pool.
LEMMA PoolSteps ==
    ASSUME poolStep
    PROVE  Next /\ UNCHANGED <<eth, lAllowances, call, calls>>
<1>1. \A u \in People : u \in Users
  BY DEF People
<1>2. UserStepOf(People) => UserStep
  BY <1>1 DEF UserStep, UserStepOf
<1>3. PositionStepOf(People) => PositionStep
  BY <1>1 DEF PositionStep, PositionStepOf
<1>4. FlashStepOf(People) => FlashStep
  BY <1>1 DEF FlashStep, FlashStepOf
<1> QED
  BY <1>2, <1>3, <1>4 DEF poolStep, Next

\* What is sent to the gateway, and what its owner sends on, moves tokens between
\* wallets, lTokens between users, or native currency.
LEMMA GiftStep ==
    ASSUME Inv, NEW u \in People,
           \/ \E amount \in Gifts : sendToGateway(u, amount)
           \/ \E a \in Assets, amount \in Gifts \cup Amounts :
                emergencyTokenTransfer(a, u, amount)
           \/ \E amount \in Gifts \cup Amounts : emergencyEtherTransfer(u, amount)
    PROVE  /\ Inv' /\ ReservesGrow /\ DebtsConsented /\ call' = call
           /\ \/ UNCHANGED vars
              \/ \E a \in Assets, amount \in Nat :
                   \/ \E w \in Users, to \in Users : sendToken(w, a, to, amount)
                   \/ transfer(Gateway, a, u, amount)
<1>1. /\ Gifts \subseteq Nat /\ Amounts \subseteq Nat
      /\ u \in Users /\ Gateway \in Users
  BY GatewayAssumption, BoundsAssumption DEF People
<1>2. /\ call' = call
      /\ \/ UNCHANGED vars
         \/ \E a \in Assets, amount \in Nat :
              \/ \E w \in Users, to \in Users : sendToken(w, a, to, amount)
              \/ transfer(Gateway, a, u, amount)
  BY <1>1 DEF sendToGateway, emergencyTokenTransfer, emergencyEtherTransfer, sendEther
<1>3. CASE UNCHANGED vars
  BY <1>2, <1>3, PoolStands
<1>4. ASSUME NEW a \in Assets, NEW amount \in Nat, NEW w \in Users, NEW to \in Users,
             sendToken(w, a, to, amount)
      PROVE  Inv' /\ ReservesGrow /\ DebtsConsented
  BY <1>4, SendStep
<1>5. ASSUME NEW a \in Assets, NEW amount \in Nat, transfer(Gateway, a, u, amount)
      PROVE  Inv' /\ ReservesGrow /\ DebtsConsented
  BY <1>1, <1>5, TransferStep
<1> QED
  BY <1>2, <1>3, <1>4, <1>5

\* What a step outside the calls is.
LEMMA GatewayCases ==
    ASSUME GatewayNext
    PROVE  \/ call = idle /\ callable /\ startCall
           \/ call = idle /\ callable /\ \E u, amount : approve(u, amount)
           \/ /\ call = idle /\ callable
              /\ \E u \in People :
                   \/ \E amount \in Gifts : sendToGateway(u, amount)
                   \/ \E a \in Assets, amount \in Gifts \cup Amounts :
                        emergencyTokenTransfer(a, u, amount)
                   \/ \E amount \in Gifts \cup Amounts : emergencyEtherTransfer(u, amount)
           \/ call = idle /\ poolStep
           \/ continueCall
  BY DEF GatewayNext

\* Pool and gateway together preserve the invariant, and take from nobody.
LEMMA GatewayStep ==
    ASSUME GatewayInv, [GatewayNext]_gatewayVars
    PROVE  GatewayInv' /\ ReservesGrow /\ DebtsConsented
<1>1. ASSUME [Next]_vars, call' = call
      PROVE  GatewayInv' /\ ReservesGrow /\ DebtsConsented
  <2>1. Inv' /\ ReservesGrow /\ DebtsConsented
    BY <1>1, InvStep DEF GatewayInv
  <2>2. CallTyped'
    BY <1>1 DEF CallTyped, GatewayInv
  <2> QED
    BY <2>1, <2>2 DEF GatewayInv
<1>2. CASE UNCHANGED gatewayVars
  <2>1. [Next]_vars /\ call' = call
    BY <1>2 DEF gatewayVars
  <2> QED
    BY <1>1, <2>1
<1>3. CASE startCall
  BY <1>3, StartStep
<1>4. ASSUME NEW u, NEW amount, approve(u, amount)
      PROVE  GatewayInv' /\ ReservesGrow /\ DebtsConsented
  <2>1. [Next]_vars /\ call' = call
    BY <1>4 DEF approve
  <2> QED
    BY <1>1, <2>1
<1>5. CASE poolStep
  <2>1. [Next]_vars /\ call' = call
    BY <1>5, PoolSteps
  <2> QED
    BY <1>1, <2>1
<1>6. CASE continueCall
  BY <1>6, ContinueStep
<1>7. ASSUME NEW u \in People,
             \/ \E amount \in Gifts : sendToGateway(u, amount)
             \/ \E a \in Assets, amount \in Gifts \cup Amounts :
                  emergencyTokenTransfer(a, u, amount)
             \/ \E amount \in Gifts \cup Amounts : emergencyEtherTransfer(u, amount)
      PROVE  GatewayInv' /\ ReservesGrow /\ DebtsConsented
  <2>1. Inv' /\ ReservesGrow /\ DebtsConsented /\ call' = call
    BY <1>7, GiftStep DEF GatewayInv
  <2>2. CallTyped'
    BY <2>1 DEF CallTyped, GatewayInv
  <2> QED
    BY <2>1, <2>2 DEF GatewayInv
<1> QED
  BY <1>2, <1>3, <1>4, <1>5, <1>6, <1>7, GatewayCases

-----------------------------------------------------------------------------
(* The gateway borrows nothing                                             *)

\* No flash loan was started by the gateway.
foreign(fs) == \A i \in DOMAIN fs : fs[i].initiator # Gateway

\* No reserve is flagged as borrowed by the gateway.
flagless(uc) == uc[Gateway].borrowing = {}

\* And nobody may borrow on its credit.
Creditless ==
    /\ flagless(usersConfig) /\ foreign(flash)
    /\ \A a \in Assets, d \in DebtModes, w \in Users : borrowAllowances[a][d][Gateway][w] = 0

\* A debt would be flagged.
LEMMA NoDebts ==
    ASSUME Inv, Creditless
    PROVE  /\ reserves[WETH].s[Gateway] = 0 /\ reserves[WETH].v[Gateway] = 0
           /\ \A mode : debtOf(WETH, Gateway, mode) = 0
<1>1. WETH \in Assets /\ Gateway \in Users /\ WETH \notin usersConfig[Gateway].borrowing
  BY GatewayAssumption DEF Creditless, flagless
<1>2. reserves[WETH].s[Gateway] \in Nat /\ reserves[WETH].v[Gateway] \in Nat
  BY <1>1, ReserveFacts DEF Good, Market
<1>3. ~(reserves[WETH].s[Gateway] > 0) /\ ~(reserves[WETH].v[Gateway] > 0)
  BY <1>1 DEF Inv, BorrowingFlagged
<1>4. stableDebtOf(WETH, Gateway) = 0 /\ variableDebtOf(WETH, Gateway) = 0
  BY <1>1, ShownIsFlagged
<1> QED
  BY <1>2, <1>3, <1>4 DEF debtOf

\* Steps that leave allowances and flash loans alone.
LEMMA StillCreditless ==
    ASSUME Creditless, UNCHANGED <<borrowAllowances, flash>>, flagless(usersConfig')
    PROVE  Creditless'
  BY DEF Creditless, flagless, foreign

\* Flags of collateral are other flags.
LEMMA FlaglessCollateral ==
    ASSUME NEW uc \in [Users -> UserConfiguration], flagless(uc), NEW u \in Users,
           NEW a \in Assets, NEW flag \in BOOLEAN,
           NEW ud, ud = setUsingAsCollateral(uc, u, a, flag)
    PROVE  ud \in [Users -> UserConfiguration] /\ flagless(ud)
<1>1. sameFlags(uc, ud)
  BY CollateralKeepsFlags
<1>2. flagless(ud)
  BY <1>1, GatewayAssumption DEF sameFlags, flagless
<1>3. ud \in [Users -> UserConfiguration]
  BY FlagsTyped
<1> QED
  BY <1>2, <1>3

\* So are those of other borrowers, and a flag that is cleared.
LEMMA FlaglessBorrowing ==
    ASSUME NEW uc \in [Users -> UserConfiguration], flagless(uc), NEW u \in Users,
           NEW a \in Assets, NEW flag \in BOOLEAN, flag = FALSE \/ u # Gateway,
           NEW ud, ud = setBorrowing(uc, u, a, flag)
    PROVE  flagless(ud)
<1> DEFINE b == IF flag THEN uc[u].borrowing \cup {a} ELSE uc[u].borrowing \ {a}
           r == [uc[u] EXCEPT !.borrowing = b]
<1>1. uc[u] \in UserConfiguration /\ Gateway \in Users
  BY GatewayAssumption
<1>2. ud = [uc EXCEPT ![u] = r]
  BY DEF setBorrowing
<1>3. r.borrowing = b
  BY <1>1 DEF UserConfiguration
<1>4. u = Gateway => b = {}
  BY DEF flagless
<1>5. ud[u] = r /\ \A w \in Users \ {u} : ud[w] = uc[w]
  BY <1>2
<1> HIDE DEF b, r
<1> QED
  BY <1>1, <1>3, <1>4, <1>5 DEF flagless

\* A loan makes somebody else its debtor, unless the gateway takes it itself.
LEMMA BorrowFlagless ==
    ASSUME Inv, Creditless, NEW user \in Users, NEW onBehalfOf \in Users,
           NEW asset \in Assets, NEW amount \in Nat, NEW mode, NEW release,
           _executeBorrow(user, onBehalfOf, asset, amount, mode, release),
           user # Gateway \/ onBehalfOf # Gateway
    PROVE  /\ flagless(usersConfig')
           /\ \A a \in Assets, d \in DebtModes, w \in Users :
                borrowAllowances'[a][d][Gateway][w] = 0
<1>1. /\ amount # 0 /\ mode \in DebtModes
      /\ user # onBehalfOf => amount <= borrowAllowances[asset][mode][onBehalfOf][user]
      /\ \/ usersConfig' = setBorrowing(usersConfig, onBehalfOf, asset, TRUE)
         \/ usersConfig' = usersConfig
      /\ \/ \E x : borrowAllowances' =
                     [borrowAllowances EXCEPT ![asset][mode][onBehalfOf][user] = x]
         \/ borrowAllowances' = borrowAllowances
  BY DEF _executeBorrow, borrowAllowance, validateBorrow
<1>2. onBehalfOf # Gateway
  BY <1>1 DEF Creditless
<1>3. flagless(usersConfig')
  BY <1>1, <1>2, PoolTyped, FlaglessBorrowing DEF Creditless
<1>4. \A a \in Assets, d \in DebtModes, w \in Users :
        borrowAllowances'[a][d][Gateway][w] = borrowAllowances[a][d][Gateway][w]
  <2>1. CASE borrowAllowances' = borrowAllowances
    BY <2>1
  <2>2. ASSUME NEW x, borrowAllowances' =
                        [borrowAllowances EXCEPT ![asset][mode][onBehalfOf][user] = x],
               NEW a \in Assets, NEW d \in DebtModes, NEW w \in Users
        PROVE  borrowAllowances'[a][d][Gateway][w] = borrowAllowances[a][d][Gateway][w]
    <3>1. /\ borrowAllowances \in [Assets -> [DebtModes -> [Users -> [Users -> Nat]]]]
          /\ mode \in DebtModes /\ Gateway \in Users /\ onBehalfOf # Gateway
      BY <1>1, <1>2, GatewayAssumption, PoolTyped
    <3> QED
      BY <2>2, <3>1
  <2> QED
    BY <1>1, <2>1, <2>2
<1> QED
  BY <1>3, <1>4 DEF Creditless

\* A liquidation clears and sets flags of collateral only.
LEMMA LiquidationFlagless ==
    ASSUME Inv, Creditless, NEW u \in Users, NEW c \in Assets, NEW a \in Assets,
           NEW w \in Users, NEW amount, NEW receive,
           liquidationCall(u, c, a, w, amount, receive)
    PROVE  flagless(usersConfig')
<1>1. PICK uc1 :
        /\ uc1 = setUsingAsCollateral(usersConfig, u, c, TRUE) \/ uc1 = usersConfig
        /\ usersConfig' = setUsingAsCollateral(uc1, w, c, FALSE) \/ usersConfig' = uc1
  BY DEF liquidationCall
<1>2. usersConfig \in [Users -> UserConfiguration] /\ flagless(usersConfig)
  BY PoolTyped DEF Creditless
<1>3. uc1 \in [Users -> UserConfiguration] /\ flagless(uc1)
  BY <1>1, <1>2, FlaglessCollateral
<1> QED
  BY <1>1, <1>3, FlaglessCollateral

\* A transfer sets and clears flags of collateral only.
LEMMA TransferFlagless ==
    ASSUME Inv, Creditless, NEW u \in Users, NEW a \in Assets, NEW w \in Users,
           NEW amount, transfer(u, a, w, amount)
    PROVE  flagless(usersConfig')
<1>1. PICK uc1 :
        /\ uc1 = setUsingAsCollateral(usersConfig, u, a, FALSE) \/ uc1 = usersConfig
        /\ \/ usersConfig' = setUsingAsCollateral(uc1, w, a, TRUE)
           \/ usersConfig' = uc1
           \/ usersConfig' = usersConfig
  BY DEF transfer
<1>2. usersConfig \in [Users -> UserConfiguration] /\ flagless(usersConfig)
  BY PoolTyped DEF Creditless
<1>3. uc1 \in [Users -> UserConfiguration] /\ flagless(uc1)
  BY <1>1, <1>2, FlaglessCollateral
<1> QED
  BY <1>1, <1>2, <1>3, FlaglessCollateral

\* Deposits, withdrawals and repayments.
LEMMA PaymentFlagless ==
    ASSUME Inv, Creditless, NEW u \in Users, NEW a \in Assets, NEW w \in Users,
           NEW amount, NEW mode,
           \/ deposit(u, a, amount, w)
           \/ withdraw(u, a, amount, w)
           \/ repay(u, a, amount, mode, w)
    PROVE  flagless(usersConfig')
<1>1. usersConfig \in [Users -> UserConfiguration] /\ flagless(usersConfig)
  BY PoolTyped DEF Creditless
<1>2. CASE deposit(u, a, amount, w)
  <2>1. \/ usersConfig' = setUsingAsCollateral(usersConfig, w, a, TRUE)
        \/ usersConfig' = usersConfig
    BY <1>2 DEF deposit
  <2> QED
    BY <1>1, <2>1, FlaglessCollateral
<1>3. CASE withdraw(u, a, amount, w)
  <2>1. \/ usersConfig' = setUsingAsCollateral(usersConfig, u, a, FALSE)
        \/ usersConfig' = usersConfig
    BY <1>3 DEF withdraw
  <2> QED
    BY <1>1, <2>1, FlaglessCollateral
<1>4. CASE repay(u, a, amount, mode, w)
  <2>1. \/ usersConfig' = setBorrowing(usersConfig, w, a, FALSE)
        \/ usersConfig' = usersConfig
    BY <1>4 DEF repay
  <2> QED
    BY <1>1, <2>1, FlaglessBorrowing
<1> QED
  BY <1>2, <1>3, <1>4

\* The first step of a call makes its caller the debtor, if anybody.
LEMMA StartCreditless ==
    ASSUME GatewayInv, Creditless, startCall
    PROVE  Creditless'
<1>1. Inv /\ WETH \in Assets /\ Gateway \in Users /\ flagless(usersConfig)
  BY StartCases DEF GatewayInv, Creditless
<1>2. Amounts \subseteq Nat /\ AmountArgs \subseteq Nat
  BY StartCases
<1>3. PICK pool \in {Pool} \cup OtherPools, sender \in People, other \in Users :
         /\ sender \in Users /\ sender # Gateway
         /\ \/ \E value \in Values : depositETH(pool, sender, value, other)
            \/ \E amount \in AmountArgs :
                 other # Gateway /\ withdrawETH(pool, sender, amount, other)
            \/ \E value \in Values, amount \in AmountArgs, mode \in DebtModes :
                 repayETH(pool, sender, value, amount, mode, other)
            \/ \E amount \in Amounts, mode \in DebtModes : borrowETH(pool, sender, amount, mode)
  BY StartCases
<1>4. UNCHANGED <<usersConfig, borrowAllowances, flash>> => Creditless'
  BY <1>1, StillCreditless
<1>5. ASSUME NEW value \in Values, depositETH(pool, sender, value, other)
      PROVE  Creditless'
  BY <1>4, <1>5 DEF depositETH, wrap
<1>6. ASSUME NEW amount \in AmountArgs, withdrawETH(pool, sender, amount, other)
      PROVE  Creditless'
  <2>1. \/ \E taken : transfer(sender, WETH, Gateway, taken)
        \/ UNCHANGED vars
    BY <1>6 DEF withdrawETH
  <2>2. ASSUME NEW taken, transfer(sender, WETH, Gateway, taken)
        PROVE  Creditless'
    <3>1. flagless(usersConfig')
      BY <1>1, <1>3, <2>2, TransferFlagless
    <3> QED
      BY <2>2, <3>1, StillCreditless DEF transfer
  <2>3. UNCHANGED vars => Creditless'
    BY <1>4 DEF vars
  <2> QED
    BY <2>1, <2>2, <2>3
<1>7. ASSUME NEW value \in Values, NEW amount \in AmountArgs, NEW mode \in DebtModes,
             repayETH(pool, sender, value, amount, mode, other)
      PROVE  Creditless'
  BY <1>4, <1>7 DEF repayETH, wrap
<1>8. ASSUME NEW amount \in Amounts, NEW mode \in DebtModes,
             borrowETH(pool, sender, amount, mode)
      PROVE  Creditless'
  <2>1. CASE pool = Pool
    <3>1. _executeBorrow(Gateway, sender, WETH, amount, mode, TRUE) /\ flash' = flash
      BY <1>8, <2>1 DEF borrowETH, borrow
    <3>2. amount \in Nat
      BY <1>2
    <3>3. /\ flagless(usersConfig')
          /\ \A a \in Assets, d \in DebtModes, w \in Users :
               borrowAllowances'[a][d][Gateway][w] = 0
      BY <1>1, <1>3, <3>1, <3>2, BorrowFlagless
    <3> QED
      BY <3>1, <3>3 DEF Creditless, flagless, foreign
  <2>2. CASE pool # Pool
    BY <1>4, <1>8, <2>2 DEF borrowETH, otherPays, setGatewayWETH
  <2> QED
    BY <2>1, <2>2
<1> QED
  BY <1>3, <1>5, <1>6, <1>7, <1>8

\* The steps that follow borrow nothing.
LEMMA ContinueCreditless ==
    ASSUME GatewayInv, Creditless, continueCall
    PROVE  Creditless'
<1>1. Inv /\ CallTyped /\ WETH \in Assets /\ Gateway \in Users /\ flagless(usersConfig)
  BY GatewayAssumption DEF GatewayInv, Creditless
<1>2. UNCHANGED <<usersConfig, borrowAllowances, flash>> => Creditless'
  BY <1>1, StillCreditless
<1>3. ASSUME NEW amount, otherTakes(amount) \/ otherPays(amount)
      PROVE  Creditless'
  BY <1>2, <1>3 DEF otherTakes, otherPays, setGatewayWETH
<1>4. CASE depositWrapped
  <2>1. /\ call.onBehalfOf \in Users
        /\ \/ deposit(Gateway, WETH, call.amount, call.onBehalfOf)
           \/ otherTakes(call.amount)
    BY <1>1, <1>4 DEF depositWrapped, CallTyped
  <2>2. CASE deposit(Gateway, WETH, call.amount, call.onBehalfOf)
    <3>1. flagless(usersConfig')
      BY <1>1, <2>1, <2>2, PaymentFlagless
    <3> QED
      BY <2>2, <3>1, StillCreditless DEF deposit
  <2> QED
    BY <1>3, <2>1, <2>2
<1>5. CASE withdrawReceived
  <2>1. withdraw(Gateway, WETH, call.amount, Gateway) \/ otherPays(call.amount)
    BY <1>5 DEF withdrawReceived
  <2>2. CASE withdraw(Gateway, WETH, call.amount, Gateway)
    <3>1. flagless(usersConfig')
      BY <1>1, <2>2, PaymentFlagless
    <3> QED
      BY <2>2, <3>1, StillCreditless DEF withdraw
  <2> QED
    BY <1>3, <2>1, <2>2
<1>6. CASE repayWrapped
  <2>1. /\ call.onBehalfOf \in Users
        /\ \/ repay(Gateway, WETH, call.value, call.mode, call.onBehalfOf)
           \/ \E amount : otherTakes(amount)
    BY <1>1, <1>6 DEF repayWrapped, CallTyped
  <2>2. CASE repay(Gateway, WETH, call.value, call.mode, call.onBehalfOf)
    <3>1. flagless(usersConfig')
      BY <1>1, <2>1, <2>2, PaymentFlagless
    <3> QED
      BY <2>2, <3>1, StillCreditless DEF repay
  <2> QED
    BY <1>3, <2>1, <2>2
<1>7. CASE refund \/ unwrapAndSend
  BY <1>2, <1>7 DEF refund, unwrapAndSend, vars
<1> QED
  BY <1>4, <1>5, <1>6, <1>7 DEF continueCall

\* The stack of flash loans stays one of others.
LEMMA ForeignKept ==
    ASSUME Inv, foreign(flash), flash # <<>>,
           \/ \E f : /\ f.initiator = innermost.initiator
                     /\ flash' = [flash EXCEPT ![Len(flash)] = f]
           \/ flash' = SubSeq(flash, 1, Len(flash) - 1)
    PROVE  foreign(flash') /\ innermost.initiator # Gateway
<1>1. flash \in Seq(Frame) /\ Len(flash) \in Nat /\ Len(flash) >= 1
  BY Innermost
<1>2. DOMAIN flash = 1..Len(flash) /\ Len(flash) \in DOMAIN flash
  BY <1>1
<1>3. innermost.initiator # Gateway
  BY <1>2 DEF foreign, innermost
<1>4. ASSUME NEW f, f.initiator = innermost.initiator,
             flash' = [flash EXCEPT ![Len(flash)] = f]
      PROVE  foreign(flash')
  <2>1. /\ DOMAIN flash' = DOMAIN flash
        /\ \A i \in DOMAIN flash : flash'[i] = f \/ flash'[i] = flash[i]
    BY <1>4
  <2> QED
    BY <1>3, <1>4, <2>1 DEF foreign
<1>5. CASE flash' = SubSeq(flash, 1, Len(flash) - 1)
  <2> DEFINE k == Len(flash) - 1
  <2>1. k \in Int /\ k >= 0 /\ \A i \in 1..k : flash[i] \in Frame /\ i \in DOMAIN flash
    BY <1>1, <1>2
  <2> HIDE DEF k
  <2>2. /\ flash' \in Seq(Frame) /\ Len(flash') = IF 1 <= k THEN k - 1 + 1 ELSE 0
        /\ \A i \in 1..(k - 1 + 1) : flash'[i] = flash[1 + i - 1]
    BY <1>5, <2>1, SubSeqProperties DEF k
  <2>3. DOMAIN flash' = 1..k /\ \A i \in 1..k : flash'[i] = flash[i]
    BY <2>1, <2>2
  <2> QED
    BY <1>3, <2>1, <2>3 DEF foreign
<1> QED
  BY <1>3, <1>4, <1>5

\* So it does when a loop goes on, or is over.
LEMMA ForeignNext ==
    ASSUME Inv, foreign(flash), flash # <<>>, NEW after,
           \/ \E f : /\ f.initiator = innermost.initiator
                     /\ after = [flash EXCEPT ![Len(flash)] = f]
           \/ after = SubSeq(flash, 1, Len(flash) - 1),
           flash' = nextLoan(after)
    PROVE  foreign(flash') /\ innermost.initiator # Gateway
<1> DEFINE g == [innermost EXCEPT !.next = @ + 1]
<1>1. flash' = [flash EXCEPT ![Len(flash)] = g] \/ flash' = after
  BY DEF nextLoan
<1>2. g.initiator = innermost.initiator
  <2>1. innermost \in Frame
    BY Innermost
  <2> QED
    BY <2>1 DEF Frame
<1> HIDE DEF g
<1> QED
  BY <1>1, <1>2, ForeignKept

\* What others do in the pool makes debtors of others.
LEMMA UserCreditless ==
    ASSUME Inv, Creditless, UserStepOf(People)
    PROVE  Creditless'
<1>1. PICK u \in People, w \in Users, a \in Assets :
       \/ \E amount \in Amounts :
            \/ deposit(u, a, amount, w)
            \/ transfer(u, a, w, amount)
            \/ \E mode \in DebtModes : borrow(u, a, amount, mode, w)
       \/ \E amount \in AmountArgs :
            \/ withdraw(u, a, amount, w)
            \/ \E mode \in DebtModes : repay(u, a, amount, mode, w)
            \/ \E c \in Assets, receiveLToken \in BOOLEAN :
                 liquidationCall(u, c, a, w, amount, receiveLToken)
  BY DEF UserStepOf
<1>2. u \in Users /\ u # Gateway /\ Amounts \subseteq Nat
  BY BoundsAssumption DEF People
<1>3. ASSUME NEW amount,
             \/ deposit(u, a, amount, w)
             \/ withdraw(u, a, amount, w)
             \/ \E mode \in DebtModes : repay(u, a, amount, mode, w)
      PROVE  Creditless'
  <2>1. flagless(usersConfig')
    BY <1>2, <1>3, PaymentFlagless
  <2>2. UNCHANGED <<borrowAllowances, flash>>
    BY <1>3 DEF deposit, withdraw, repay
  <2> QED
    BY <2>1, <2>2, StillCreditless
<1>4. ASSUME NEW amount, transfer(u, a, w, amount)
      PROVE  Creditless'
  <2>1. flagless(usersConfig')
    BY <1>2, <1>4, TransferFlagless
  <2> QED
    BY <1>4, <2>1, StillCreditless DEF transfer
<1>5. ASSUME NEW amount \in Amounts, NEW mode \in DebtModes, borrow(u, a, amount, mode, w)
      PROVE  Creditless'
  <2>1. _executeBorrow(u, w, a, amount, mode, TRUE) /\ flash' = flash
    BY <1>5 DEF borrow
  <2>2. /\ flagless(usersConfig')
        /\ \A b \in Assets, d \in DebtModes, v \in Users :
             borrowAllowances'[b][d][Gateway][v] = 0
    BY <1>2, <2>1, BorrowFlagless
  <2> QED
    BY <2>1, <2>2 DEF Creditless, flagless, foreign
<1>6. ASSUME NEW amount, NEW c \in Assets, NEW receiveLToken \in BOOLEAN,
             liquidationCall(u, c, a, w, amount, receiveLToken)
      PROVE  Creditless'
  <2>1. flagless(usersConfig')
    BY <1>2, <1>6, LiquidationFlagless
  <2> QED
    BY <1>6, <2>1, StillCreditless DEF liquidationCall
<1> QED
  BY <1>1, <1>3, <1>4, <1>5, <1>6

\* Nobody else delegates the gateway's credit, or is given a flash loan in its name.
LEMMA PoolCreditless ==
    ASSUME Inv, Creditless, poolStep
    PROVE  Creditless'
<1>1. /\ flagless(usersConfig) /\ usersConfig \in [Users -> UserConfiguration]
      /\ foreign(flash)
  BY PoolTyped DEF Creditless
<1>2. UNCHANGED <<usersConfig, borrowAllowances, flash>> => Creditless'
  BY <1>1, StillCreditless
<1>3. CASE UserStepOf(People)
  BY <1>3, UserCreditless
<1>4. CASE PositionStepOf(People)
  <2>1. ASSUME NEW u \in People, NEW a \in Assets, NEW flag \in BOOLEAN,
               setUserUseReserveAsCollateral(u, a, flag)
        PROVE  Creditless'
    <3>1. /\ usersConfig' = setUsingAsCollateral(usersConfig, u, a, flag)
          /\ UNCHANGED <<borrowAllowances, flash>> /\ u \in Users
      BY <2>1 DEF setUserUseReserveAsCollateral, People
    <3>2. flagless(usersConfig')
      BY <1>1, <3>1, FlaglessCollateral
    <3> QED
      BY <3>1, <3>2, StillCreditless
  <2>2. ASSUME NEW u \in People, NEW a \in Assets, NEW mode \in DebtModes,
               NEW w \in Users, NEW amount, approveDelegation(u, a, mode, w, amount)
        PROVE  Creditless'
    <3>1. /\ borrowAllowances' = [borrowAllowances EXCEPT ![a][mode][u][w] = amount]
          /\ UNCHANGED <<usersConfig, flash>> /\ u # Gateway
      BY <2>2 DEF approveDelegation, People
    <3>2. borrowAllowances \in [Assets -> [DebtModes -> [Users -> [Users -> Nat]]]]
      BY PoolTyped
    <3>3. \A b \in Assets, d \in DebtModes, v \in Users :
            borrowAllowances'[b][d][Gateway][v] = borrowAllowances[b][d][Gateway][v]
      BY <3>1, <3>2, GatewayAssumption
    <3> QED
      BY <1>1, <3>1, <3>3 DEF Creditless, flagless, foreign
  <2>3. \/ \E u \in People, a \in Assets, flag \in BOOLEAN :
             setUserUseReserveAsCollateral(u, a, flag)
        \/ \E u \in People, a \in Assets, mode \in DebtModes, w \in Users,
              amount \in Delegations :
             approveDelegation(u, a, mode, w, amount)
        \/ UNCHANGED <<usersConfig, borrowAllowances, flash>>
    BY <1>4 DEF PositionStepOf, rebalanceStableBorrowRate, swapBorrowRateMode, donate
  <2> QED
    BY <1>2, <2>1, <2>2, <2>3
<1>5. CASE FlashStepOf(People)
  <2>1. ASSUME NEW u \in People, NEW r, NEW w, NEW loans, flashLoan(u, r, w, loans)
        PROVE  Creditless'
    <3>1. PICK f : /\ f.initiator = u /\ flash' = Append(flash, f)
                   /\ UNCHANGED <<usersConfig, borrowAllowances>>
      BY <2>1 DEF flashLoan
    <3>2. /\ flash \in Seq(Frame) /\ Len(flash) \in Nat
      BY PoolTyped DEF Inv, TypeOK
    <3>3. /\ DOMAIN flash = 1..Len(flash) /\ DOMAIN flash' = 1..(Len(flash) + 1)
          /\ \A i \in DOMAIN flash' : flash'[i] = f \/ (i \in DOMAIN flash /\ flash'[i] = flash[i])
      BY <3>1, <3>2
    <3>4. foreign(flash')
      BY <1>1, <3>1, <3>3 DEF foreign, People
    <3> QED
      BY <1>1, <3>1, <3>4 DEF Creditless, flagless, foreign
  <2>2. CASE lendFlashLoan
    <3> DEFINE f == [innermost EXCEPT !.phase = "callback", !.next = 1]
    <3>1. /\ flash # <<>> /\ flash' = nextLoan([flash EXCEPT ![Len(flash)] = f])
          /\ UNCHANGED <<usersConfig, borrowAllowances>>
      BY <2>2 DEF lendFlashLoan, inPhase
    <3>2. f.initiator = innermost.initiator
      BY <3>1, Innermost DEF Frame
    <3> HIDE DEF f
    <3>3. foreign(flash')
      BY <1>1, <3>1, <3>2, ForeignNext
    <3> QED
      BY <1>1, <3>1, <3>3 DEF Creditless, flagless, foreign
  <2>3. CASE executeOperationReturns
    <3> DEFINE f == [innermost EXCEPT !.phase = "settling", !.next = 1]
    <3>1. /\ flash # <<>> /\ flash' = [flash EXCEPT ![Len(flash)] = f]
          /\ UNCHANGED <<usersConfig, borrowAllowances>>
      BY <2>3 DEF executeOperationReturns, inPhase
    <3>2. f.initiator = innermost.initiator
      BY <3>1, Innermost DEF Frame
    <3> HIDE DEF f
    <3>3. foreign(flash')
      BY <1>1, <3>1, <3>2, ForeignKept
    <3> QED
      BY <1>1, <3>1, <3>3 DEF Creditless, flagless, foreign
  <2>4. CASE collectFlashLoan
    <3>1. /\ flash # <<>> /\ flash' = nextLoan(SubSeq(flash, 1, Len(flash) - 1))
          /\ UNCHANGED <<usersConfig, borrowAllowances>>
      BY <2>4 DEF collectFlashLoan, inPhase, settled
    <3>2. foreign(flash')
      BY <1>1, <3>1, ForeignNext
    <3> QED
      BY <1>1, <3>1, <3>2 DEF Creditless, flagless, foreign
  <2>5. CASE borrowFlashLoan
    <3> DEFINE ln == innermost.loans[innermost.next]
    <3>1. /\ flash # <<>> /\ flash' = nextLoan(SubSeq(flash, 1, Len(flash) - 1))
          /\ _executeBorrow(innermost.initiator, innermost.onBehalfOf, ln.asset, ln.amount,
                            ln.mode, FALSE)
      BY <2>5 DEF borrowFlashLoan, inPhase, settled
    <3>2. foreign(flash') /\ innermost.initiator # Gateway
      BY <1>1, <3>1, ForeignNext
    <3>3. /\ innermost.initiator \in Users /\ innermost.onBehalfOf \in Users
          /\ ln.asset \in Assets /\ ln.amount \in Nat
      BY <3>1, LoanTyped
    <3> HIDE DEF ln
    <3>4. /\ flagless(usersConfig')
          /\ \A b \in Assets, d \in DebtModes, v \in Users :
               borrowAllowances'[b][d][Gateway][v] = 0
      BY <3>1, <3>2, <3>3, BorrowFlagless
    <3> QED
      BY <3>2, <3>4 DEF Creditless, flagless, foreign
  <2> QED
    BY <1>5, <2>1, <2>2, <2>3, <2>4, <2>5 DEF FlashStepOf
<1>6. CASE EnvironmentStep
  BY <1>2, <1>6 DEF EnvironmentStep, Tick, setAssetPrice, setMarketBorrowRate
<1> QED
  BY <1>3, <1>4, <1>5, <1>6 DEF poolStep

\* What its owner sends on moves no flag of a debt.
LEMMA GiftCreditless ==
    ASSUME Inv, Creditless, NEW u \in People,
           \/ \E amount \in Gifts : sendToGateway(u, amount)
           \/ \E a \in Assets, amount \in Gifts \cup Amounts :
                emergencyTokenTransfer(a, u, amount)
           \/ \E amount \in Gifts \cup Amounts : emergencyEtherTransfer(u, amount)
    PROVE  Creditless'
<1>1. u \in Users /\ Gateway \in Users /\ flagless(usersConfig)
  BY GatewayAssumption DEF People, Creditless
<1>2. UNCHANGED <<usersConfig, borrowAllowances, flash>> => Creditless'
  BY <1>1, StillCreditless
<1>3. \/ UNCHANGED <<usersConfig, borrowAllowances, flash>>
      \/ \E a \in Assets : \E amount : transfer(Gateway, a, u, amount)
  BY DEF sendToGateway, emergencyTokenTransfer, emergencyEtherTransfer, sendToken,
     sendEther, vars
<1>4. ASSUME NEW a \in Assets, NEW amount, transfer(Gateway, a, u, amount)
      PROVE  Creditless'
  <2>1. flagless(usersConfig')
    BY <1>1, <1>4, TransferFlagless
  <2> QED
    BY <1>4, <2>1, StillCreditless DEF transfer
<1> QED
  BY <1>2, <1>3, <1>4

\* The gateway never gets credit.
LEMMA CreditlessStep ==
    ASSUME GatewayInv, Creditless, [GatewayNext]_gatewayVars
    PROVE  Creditless'
<1>1. Inv /\ flagless(usersConfig)
  BY DEF GatewayInv, Creditless
<1>2. UNCHANGED vars => Creditless'
  BY <1>1, StillCreditless DEF vars
<1>3. CASE UNCHANGED gatewayVars
  BY <1>2, <1>3 DEF gatewayVars
<1>4. ASSUME NEW u, NEW amount, approve(u, amount)
      PROVE  Creditless'
  BY <1>2, <1>4 DEF approve
<1> QED
  BY <1>1, <1>3, <1>4, GatewayCases, StartCreditless, ContinueCreditless, PoolCreditless,
     GiftCreditless

\* Nobody has borrowed anything yet.
LEMMA CreditlessStart == GatewayInit => Creditless
<1> SUFFICES ASSUME GatewayInit
             PROVE  Creditless
  OBVIOUS
<1>1. /\ usersConfig = [u \in Users |-> [collateral |-> {}, borrowing |-> {}]]
      /\ borrowAllowances =
           [a \in Assets |-> [d \in DebtModes |-> [u \in Users |-> [w \in Users |-> 0]]]]
      /\ flash = <<>>
  BY DEF GatewayInit, Init
<1>2. usersConfig[Gateway].borrowing = {} /\ DOMAIN flash = {}
  BY <1>1, GatewayAssumption
<1>3. \A a \in Assets, d \in DebtModes, w \in Users : borrowAllowances[a][d][Gateway][w] = 0
  BY <1>1, GatewayAssumption
<1> QED
  BY <1>2, <1>3 DEF Creditless, flagless, foreign

-----------------------------------------------------------------------------
(* What the operations leave the gateway with                              *)

\* n has the lTokens and the debts of w that m has.
sameAccount(m, n, w) == n.l[w] = m.l[w] /\ n.s[w] = m.s[w] /\ n.v[w] = m.v[w]

\* A step that sets the gateway's WETH.
LEMMA GatewayWallet ==
    ASSUME Inv, NEW x, wallet' = [wallet EXCEPT ![WETH][Gateway] = x]
    PROVE  wallet'[WETH][Gateway] = x
  BY GatewayAssumption, PoolTyped

\* The accounts of users other than the treasury pass through an accrual.
LEMMA AccrualKeeps ==
    ASSUME Inv, accrueOK(reserves[WETH], WETH), NEW n, n = accrue(reserves[WETH], WETH)
    PROVE  /\ Accrued(n, now) /\ sameAccount(reserves[WETH], n, Gateway)
           /\ n.liquidityIndex = getNormalizedIncome(reserves[WETH], now)
<1>1. WETH \in Assets /\ Gateway \in Users \ {Treasury}
  BY GatewayAssumption, NewGatewayAssumption
<1>2. Good(reserves[WETH], now)
  BY <1>1, ReserveFacts
<1> QED
  BY <1>1, <1>2, AccrueGood DEF sameAccount, sameDebts

\* What the gateway deposits for another leaves its wallet and nothing else of
\* it.
LEMMA DepositLeaves ==
    ASSUME Inv, NEW amount \in Nat, NEW onBehalfOf \in Users, onBehalfOf # Gateway,
           deposit(Gateway, WETH, amount, onBehalfOf)
    PROVE  /\ sameAccount(reserves[WETH], reserves'[WETH], Gateway)
           /\ wallet'[WETH][Gateway] = wallet[WETH][Gateway] - amount
<1> DEFINE m  == reserves[WETH]
           m1 == accrue(m, WETH)
           k  == withRates(m1, WETH, amount, 0)
           x  == k.avail + amount
           m2 == [k EXCEPT !.avail = x]
           n  == lMint(m2, onBehalfOf, amount, m2.liquidityIndex)
<1>1. /\ accrueOK(m, WETH) /\ ratesOK(m1, WETH, amount, 0)
      /\ reserves' = [reserves EXCEPT ![WETH] = n]
      /\ wallet' = [wallet EXCEPT ![WETH][Gateway] = wallet[WETH][Gateway] - amount]
  BY DEF deposit
<1>2. WETH \in Assets /\ now \in Nat /\ reserves'[WETH] = n
  BY <1>1, GatewayAssumption, ReserveFacts DEF Inv, TypeOK
<1>3. Good(m1, now) /\ sameAccount(m, m1, Gateway)
  BY <1>1, AccrualKeeps DEF Accrued
<1> HIDE DEF m1
<1>4. k \in Market /\ Good(k, now) /\ sameAccount(m1, k, Gateway)
  BY <1>1, <1>2, <1>3, RatesGood DEF sameAccount, sameDebts
<1> HIDE DEF k
<1>5. x \in Nat
  BY <1>4 DEF Market
<1> HIDE DEF x
<1>6. m2 \in Market /\ Good(m2, now) /\ sameAccount(k, m2, Gateway)
  BY <1>2, <1>4, <1>5, AvailGood DEF sameAccount, sameDebts
<1> HIDE DEF m2
<1>7. m2.liquidityIndex \in Nat /\ m2.liquidityIndex > 0
  BY <1>6, RayAssumption DEF Good, aboveRay, Market
<1>8. sameAccount(m2, n, Gateway)
  <2>1. sameDebts(m2, n) /\ \A w \in Users \ {onBehalfOf} : n.l[w] = m2.l[w]
    BY <1>2, <1>6, <1>7, LMint
  <2> HIDE DEF n
  <2> QED
    BY <2>1, GatewayAssumption DEF sameAccount, sameDebts
<1> HIDE DEF n, m
<1>9. sameAccount(m, n, Gateway)
  BY <1>3, <1>4, <1>6, <1>8 DEF sameAccount
<1>10. wallet'[WETH][Gateway] = wallet[WETH][Gateway] - amount
  BY <1>1, GatewayWallet
<1> QED
  BY <1>2, <1>9, <1>10 DEF m

\* A withdrawal by the gateway takes the scaled amount of its lTokens, at the
\* income shown before the accrual.
LEMMA WithdrawLeaves ==
    ASSUME Inv, NEW amount \in Nat, amount # MaxUint,
           withdraw(Gateway, WETH, amount, Gateway)
    PROVE  /\ reserves'[WETH].s[Gateway] = reserves[WETH].s[Gateway]
           /\ reserves'[WETH].v[Gateway] = reserves[WETH].v[Gateway]
           /\ reserves'[WETH].l[Gateway]
                = reserves[WETH].l[Gateway]
                    - rayDiv(amount, getNormalizedIncome(reserves[WETH], now))
           /\ wallet'[WETH][Gateway] = wallet[WETH][Gateway] + amount
<1> DEFINE m  == reserves[WETH]
           m1 == accrue(m, WETH)
           k  == withRates(m1, WETH, 0, amount)
           n  == lBurn(k, Gateway, amount, k.liquidityIndex)
<1>1. /\ accrueOK(m, WETH) /\ ratesOK(m1, WETH, 0, amount)
      /\ lBurnOK(k, Gateway, amount, k.liquidityIndex)
      /\ reserves' = [reserves EXCEPT ![WETH] = n]
      /\ wallet' = [wallet EXCEPT ![WETH][Gateway] = wallet[WETH][Gateway] + amount]
  BY DEF withdraw, withdrawOK, reserveToWithdraw, amountToWithdraw
<1>2. WETH \in Assets /\ Gateway \in Users /\ now \in Nat /\ reserves'[WETH] = n
  BY <1>1, GatewayAssumption, ReserveFacts DEF Inv, TypeOK
<1>3. /\ Good(m1, now) /\ sameAccount(m, m1, Gateway)
      /\ m1.liquidityIndex = getNormalizedIncome(m, now)
  BY <1>1, AccrualKeeps DEF Accrued
<1> HIDE DEF m1
<1>4. /\ k \in Market /\ Good(k, now) /\ sameAccount(m1, k, Gateway)
      /\ k.liquidityIndex = m1.liquidityIndex
  BY <1>1, <1>2, <1>3, RatesGood DEF sameAccount, sameDebts, sameClock
<1> HIDE DEF k
<1>5. k.liquidityIndex \in Nat /\ k.liquidityIndex > 0
  BY <1>4, RayAssumption DEF Good, aboveRay, Market
<1>6. sameDebts(k, n) /\ n.l[Gateway] = k.l[Gateway] - rayDiv(amount, k.liquidityIndex)
  BY <1>1, <1>2, <1>4, <1>5, LBurn
<1> HIDE DEF n, m
<1>7. wallet'[WETH][Gateway] = wallet[WETH][Gateway] + amount
  BY <1>1, GatewayWallet
<1>8. /\ n.s[Gateway] = m.s[Gateway] /\ n.v[Gateway] = m.v[Gateway]
      /\ n.l[Gateway] = m.l[Gateway] - rayDiv(amount, getNormalizedIncome(m, now))
  BY <1>3, <1>4, <1>6 DEF sameAccount, sameDebts
<1> QED
  BY <1>2, <1>7, <1>8 DEF m

\* A transfer to the gateway brings it the scaled amount, and leaves the income
\* that is shown.
LEMMA TransferLeaves ==
    ASSUME Inv, NEW sender \in Users, sender # Gateway, NEW amount \in Nat,
           transfer(sender, WETH, Gateway, amount)
    PROVE  /\ reserves'[WETH].s[Gateway] = reserves[WETH].s[Gateway]
           /\ reserves'[WETH].v[Gateway] = reserves[WETH].v[Gateway]
           /\ reserves'[WETH].l[Gateway]
                = reserves[WETH].l[Gateway]
                    + rayDiv(amount, getNormalizedIncome(reserves[WETH], now))
           /\ getNormalizedIncome(reserves'[WETH], now')
                = getNormalizedIncome(reserves[WETH], now)
           /\ wallet' = wallet
<1> DEFINE m     == reserves[WETH]
           index == getNormalizedIncome(m, now)
           n     == lTransfer(m, sender, Gateway, amount, index)
<1>1. /\ lTransferOK(m, sender, amount, index)
      /\ reserves' = [reserves EXCEPT ![WETH] = n]
      /\ wallet' = wallet /\ now' = now
  BY DEF transfer, environment
<1>2. WETH \in Assets /\ Gateway \in Users /\ now \in Nat /\ reserves'[WETH] = n
  BY <1>1, GatewayAssumption, ReserveFacts DEF Inv, TypeOK
<1>3. Good(m, now)
  BY <1>2, ReserveFacts
<1> HIDE DEF m
<1>4. index \in Nat /\ index > 0
  <2>1. index \in Nat /\ m.liquidityIndex <= index
    BY <1>2, <1>3, NormalizedIncome
  <2>2. m.liquidityIndex \in Nat /\ m.liquidityIndex > 0
    BY <1>3, RayAssumption DEF Good, aboveRay, Market
  <2> HIDE DEF index
  <2> QED
    BY <2>1, <2>2
<1>5. index = getNormalizedIncome(m, now)
  OBVIOUS
<1> HIDE DEF index
<1>6. /\ sameDebts(m, n) /\ sameClock(m, n) /\ sameRate(m, n)
      /\ n.l[Gateway] = m.l[Gateway] + rayDiv(amount, index)
  BY <1>1, <1>2, <1>3, <1>4, LTransfer
<1> HIDE DEF n
<1>7. getNormalizedIncome(n, now) = index
  BY <1>5, <1>6 DEF getNormalizedIncome, sameClock, sameRate
<1>8. n.s[Gateway] = m.s[Gateway] /\ n.v[Gateway] = m.v[Gateway]
  BY <1>6 DEF sameDebts
<1> QED
  BY <1>1, <1>2, <1>5, <1>6, <1>7, <1>8 DEF m

\* A debt minted or burnt on the accrued reserve, and the rates and liquidity
\* set after it, leave the accounts of others alone.
LEMMA OtherAccounts ==
    ASSUME Inv, NEW a \in Assets, NEW m, Accrued(m, now), NEW added \in Nat,
           NEW taken \in Nat, ratesOK(m, a, added, taken), NEW x \in Nat,
           NEW k, k = withRates(m, a, added, taken), NEW n, n = [k EXCEPT !.avail = x]
    PROVE  sameAccount(m, n, Gateway)
<1>1. Good(m, now) /\ now \in Nat
  BY PoolTyped DEF Accrued
<1>2. k \in Market /\ Good(k, now) /\ sameDebts(m, k) /\ k.l = m.l
  BY <1>1, RatesGood
<1>3. sameDebts(k, n) /\ n.l = k.l
  BY <1>1, <1>2, AvailGood
<1> QED
  BY <1>2, <1>3 DEF sameAccount, sameDebts

\* Borrowing for its caller brings the gateway the amount and no debt.
LEMMA BorrowLeaves ==
    ASSUME Inv, NEW sender \in Users, sender # Gateway, NEW amount \in Nat,
           NEW mode \in DebtModes, borrow(Gateway, WETH, amount, mode, sender)
    PROVE  /\ sameAccount(reserves[WETH], reserves'[WETH], Gateway)
           /\ wallet'[WETH][Gateway] = wallet[WETH][Gateway] + amount
           /\ \A d \in DebtModes, w \in Users :
                borrowAllowances'[WETH][d][Gateway][w] = borrowAllowances[WETH][d][Gateway][w]
<1> DEFINE m  == reserves[WETH]
           m1 == accrue(m, WETH)
           m2 == mintDebt(m1, sender, amount, mode)
           r  == withRates(m2, WETH, 0, amount)
           x  == r.avail - amount
           n  == [r EXCEPT !.avail = x]
           rest == borrowAllowances[WETH][mode][sender][Gateway] - amount
<1>1. /\ accrueOK(m, WETH) /\ mintDebtOK(m1, sender, amount, mode)
      /\ ratesOK(m2, WETH, 0, amount)
      /\ reserves' = [reserves EXCEPT ![WETH] = n]
      /\ wallet' = [wallet EXCEPT ![WETH][Gateway] = wallet[WETH][Gateway] + amount]
      /\ borrowAllowances' =
           [borrowAllowances EXCEPT ![WETH][mode][sender][Gateway] = rest]
  BY DEF borrow, _executeBorrow, borrowAllowance
<1>2. WETH \in Assets /\ Gateway \in Users /\ now \in Nat /\ reserves'[WETH] = n
  BY <1>1, GatewayAssumption, ReserveFacts DEF Inv, TypeOK
<1> HIDE DEF rest
<1>3. \A d \in DebtModes, w \in Users :
        borrowAllowances'[WETH][d][Gateway][w] = borrowAllowances[WETH][d][Gateway][w]
  BY <1>1, <1>2, PoolTyped
<1>4. Accrued(m1, now) /\ sameAccount(m, m1, Gateway)
  BY <1>1, AccrualKeeps
<1> HIDE DEF m1
<1>5. Accrued(m2, now) /\ sameAccount(m1, m2, Gateway)
  <2>1. Accrued(m2, now) /\ othersDebts(m1, m2, sender) /\ m2.l = m1.l
    BY <1>1, <1>4, MintDebt
  <2> HIDE DEF m2
  <2> QED
    BY <1>2, <2>1 DEF sameAccount, othersDebts
<1> HIDE DEF m2
<1>6. x \in Nat
  <2>1. Good(m2, now)
    BY <1>5 DEF Accrued
  <2>2. r \in Market /\ amount <= r.avail + 0
    BY <1>1, <1>2, <2>1, RatesGood
  <2>3. r.avail \in Nat
    BY <2>2 DEF Market
  <2> HIDE DEF r
  <2> QED
    BY <2>2, <2>3
<1> HIDE DEF x
<1>7. sameAccount(m2, n, Gateway)
  <2>1. /\ 0 \in Nat /\ n = [r EXCEPT !.avail = x]
        /\ r = withRates(m2, WETH, 0, amount)
    OBVIOUS
  <2> HIDE DEF n, r
  <2> QED
    BY <1>1, <1>2, <1>5, <1>6, <2>1, OtherAccounts
<1> HIDE DEF n, m
<1>8. sameAccount(m, n, Gateway)
  BY <1>4, <1>5, <1>7 DEF sameAccount
<1>9. wallet'[WETH][Gateway] = wallet[WETH][Gateway] + amount
  BY <1>1, GatewayWallet
<1> QED
  BY <1>2, <1>3, <1>8, <1>9 DEF m

\* Repaying another's debt takes from the gateway what the pool takes of value.
LEMMA RepayLeaves ==
    ASSUME Inv, NEW value \in Nat, NEW mode \in DebtModes, NEW onBehalfOf \in Users,
           onBehalfOf # Gateway, repay(Gateway, WETH, value, mode, onBehalfOf)
    PROVE  /\ sameAccount(reserves[WETH], reserves'[WETH], Gateway)
           /\ min(value, debtOf(WETH, onBehalfOf, mode)) <= wallet[WETH][Gateway]
           /\ wallet'[WETH][Gateway]
                = wallet[WETH][Gateway] - min(value, debtOf(WETH, onBehalfOf, mode))
<1> DEFINE m    == reserves[WETH]
           paid == min(value, debtOf(WETH, onBehalfOf, mode))
           m1   == accrue(m, WETH)
           m2   == burnDebt(m1, onBehalfOf, paid, mode)
           r    == withRates(m2, WETH, paid, 0)
           x    == r.avail + paid
           n    == [r EXCEPT !.avail = x]
<1>1. /\ accrueOK(m, WETH) /\ burnDebtOK(m1, onBehalfOf, paid, mode)
      /\ ratesOK(m2, WETH, paid, 0)
      /\ paid <= wallet[WETH][Gateway]
      /\ reserves' = [reserves EXCEPT ![WETH] = n]
      /\ wallet' = [wallet EXCEPT ![WETH][Gateway] = wallet[WETH][Gateway] - paid]
  BY DEF repay, repayOK, reserveRepaid
<1>2. WETH \in Assets /\ Gateway \in Users /\ now \in Nat /\ reserves'[WETH] = n
  BY <1>1, GatewayAssumption, ReserveFacts DEF Inv, TypeOK
<1>3. paid \in Nat
  <2>1. debtOf(WETH, onBehalfOf, mode) \in Nat
    BY <1>2, DebtsNat
  <2> QED
    BY <2>1, MinNat
<1>4. wallet'[WETH][Gateway] = wallet[WETH][Gateway] - paid
  BY <1>1, GatewayWallet
<1>5. paid = min(value, debtOf(WETH, onBehalfOf, mode))
  OBVIOUS
<1> HIDE DEF paid
<1>6. Accrued(m1, now) /\ sameAccount(m, m1, Gateway)
  BY <1>1, AccrualKeeps
<1> HIDE DEF m1
<1>7. Accrued(m2, now) /\ sameAccount(m1, m2, Gateway)
  <2>1. Accrued(m2, now) /\ othersDebts(m1, m2, onBehalfOf) /\ m2.l = m1.l
    BY <1>1, <1>3, <1>6, BurnDebt
  <2> HIDE DEF m2
  <2> QED
    BY <1>2, <2>1 DEF sameAccount, othersDebts
<1> HIDE DEF m2
<1>8. x \in Nat
  <2>1. Good(m2, now)
    BY <1>7 DEF Accrued
  <2>2. r \in Market
    BY <1>1, <1>2, <1>3, <2>1, RatesGood
  <2>3. r.avail \in Nat
    BY <2>2 DEF Market
  <2> HIDE DEF r
  <2> QED
    BY <1>3, <2>3
<1> HIDE DEF x
<1>9. sameAccount(m2, n, Gateway)
  <2>1. /\ 0 \in Nat /\ n = [r EXCEPT !.avail = x]
        /\ r = withRates(m2, WETH, paid, 0)
    OBVIOUS
  <2> HIDE DEF n, r
  <2> QED
    BY <1>1, <1>2, <1>3, <1>7, <1>8, <2>1, OtherAccounts
<1> HIDE DEF n, m
<1>10. sameAccount(m, n, Gateway)
  BY <1>6, <1>7, <1>9 DEF sameAccount
<1> QED
  BY <1>1, <1>2, <1>4, <1>5, <1>10 DEF m

-----------------------------------------------------------------------------
(* What the gateway holds during a call                                    *)

\* Native currency, WETH and scaled lWETH on top of what was there when the call
\* began.
holds(native, wrapped, scaled) ==
    /\ eth[Gateway] = call.held.native + native
    /\ wallet[WETH][Gateway] = call.held.wrapped + wrapped
    /\ reserves[WETH].l[Gateway] = call.held.scaled + scaled

\* The parts of a call that the next steps rely on.
CallParts ==
    /\ call.op # "none" =>
         /\ call.held.native \in Nat /\ call.held.wrapped \in Nat /\ call.held.scaled \in Nat
    /\ call.op \in {"withdraw", "unwrap"} => call.to # Gateway
    /\ call.op = "repay" => call.sender \in People /\ call.payback <= call.value
    /\ call.op = "refund" => call.sender \in People /\ call.amount \in Nat

\* What a call through the pool has left in the gateway when its next step comes.
InTransit ==
    call.op # "none" /\ call.pool = Pool =>
      /\ call.op = "deposit" => holds(0, call.amount, 0)
      /\ call.op = "withdraw" =>
           /\ call.amount # MaxUint
           /\ holds(0, 0, rayDiv(call.amount, getNormalizedIncome(reserves[WETH], now)))
      /\ call.op = "repay" =>
           /\ call.payback <= debtOf(WETH, call.onBehalfOf, call.mode)
           /\ holds(call.value - call.payback, call.payback, 0)
      /\ call.op = "refund" =>
           /\ eth[Gateway] = call.held.native + call.amount
           /\ reserves[WETH].l[Gateway] = call.held.scaled
           /\ \/ wallet[WETH][Gateway] = call.held.wrapped
              \/ ~call.whole /\ wallet[WETH][Gateway] < call.held.wrapped
      /\ call.op = "unwrap" => holds(0, call.amount, 0)

EthTyped == eth \in [Users -> Nat]

Kept == EthTyped /\ CallParts /\ InTransit /\ Creditless

\* What the gateway holds is amounts.
LEMMA HoldingNat ==
    ASSUME Inv, EthTyped, NEW h, h = holding
    PROVE  /\ h.native \in Nat /\ h.wrapped \in Nat /\ h.scaled \in Nat
           /\ h.native = eth[Gateway] /\ h.wrapped = wallet[WETH][Gateway]
           /\ h.scaled = reserves[WETH].l[Gateway]
<1>1. WETH \in Assets /\ Gateway \in Users
  BY GatewayAssumption
<1>2. reserves[WETH].l[Gateway] \in Nat /\ wallet[WETH][Gateway] \in Nat
  BY <1>1, ReserveFacts, PoolTyped DEF Good, Market
<1> QED
  BY <1>1, <1>2 DEF holding, EthTyped

\* Balances of which one falls and another rises.
LEMMA OneRises ==
    ASSUME NEW e \in [Users -> Nat], NEW from \in Users, NEW to \in Users, from # to,
           NEW less \in Nat, NEW more \in Nat, e[to] <= more,
           NEW f, f = [e EXCEPT ![from] = less, ![to] = more]
    PROVE  /\ f \in [Users -> Nat] /\ f[from] = less /\ f[to] = more
           /\ \A u \in Users : u # from => e[u] <= f[u]
<1>1. f \in [Users -> Nat] /\ f[from] = less /\ f[to] = more
  OBVIOUS
<1>2. ASSUME NEW u \in Users, u # from
      PROVE  e[u] <= f[u]
  <2>1. e[u] \in Nat
    OBVIOUS
  <2>2. CASE u = to
    BY <1>1, <2>2
  <2>3. CASE u # to
    <3>1. f[u] = e[u]
      BY <1>2, <2>3
    <3> QED
      BY <2>1, <3>1
  <2> QED
    BY <2>2, <2>3
<1> QED
  BY <1>1, <1>2

\* What is wrapped stays in the gateway, and so does the native rest.
LEMMA Wrapped ==
    ASSUME Inv, EthTyped, NEW sender \in Users, sender # Gateway, NEW value \in Nat,
           NEW amount \in Nat, wrap(sender, value, amount)
    PROVE  /\ EthTyped' /\ amount <= value
           /\ eth'[Gateway] = eth[Gateway] + (value - amount)
           /\ wallet'[WETH][Gateway] = wallet[WETH][Gateway] + amount
           /\ \A u \in Users : u # sender => eth[u] <= eth'[u]
           /\ UNCHANGED <<environment, reserves, usersConfig, borrowAllowances, flash>>
<1> DEFINE less == eth[sender] - value
           more == eth[Gateway] + (value - amount)
<1>1. /\ value <= eth[sender] /\ amount <= value
      /\ eth' = [eth EXCEPT ![sender] = less, ![Gateway] = more]
      /\ wallet' = [wallet EXCEPT ![WETH][Gateway] = wallet[WETH][Gateway] + amount]
      /\ UNCHANGED <<environment, reserves, usersConfig, borrowAllowances, flash>>
  BY DEF wrap, EthTyped
<1>2. /\ Gateway \in Users /\ eth \in [Users -> Nat]
      /\ less \in Nat /\ more \in Nat /\ eth[Gateway] <= more
  BY <1>1, GatewayAssumption DEF EthTyped
<1>3. more = eth[Gateway] + (value - amount)
  OBVIOUS
<1> HIDE DEF less, more
<1>4. /\ eth' \in [Users -> Nat] /\ eth'[Gateway] = more
      /\ \A u \in Users : u # sender => eth[u] <= eth'[u]
  BY <1>1, <1>2, OneRises
<1>5. wallet'[WETH][Gateway] = wallet[WETH][Gateway] + amount
  BY <1>1, GatewayWallet
<1> QED
  BY <1>1, <1>3, <1>4, <1>5 DEF EthTyped

\* The first step of a call leaves in the gateway what the next one takes, on top
\* of what was there.
LEMMA StartTransit ==
    ASSUME GatewayInv, EthTyped, startCall
    PROVE  EthTyped' /\ CallParts' /\ InTransit'
<1>1. /\ WETH \in Assets /\ Gateway \in Users /\ Values \subseteq Nat
      /\ Amounts \subseteq Nat /\ AmountArgs \subseteq Nat
  BY StartCases
<1>2. Inv
  BY DEF GatewayInv
<1>3. PICK pool \in {Pool} \cup OtherPools, sender \in People, other \in Users :
         /\ sender \in Users /\ sender # Gateway
         /\ \/ \E value \in Values : depositETH(pool, sender, value, other)
            \/ \E amount \in AmountArgs :
                 other # Gateway /\ withdrawETH(pool, sender, amount, other)
            \/ \E value \in Values, amount \in AmountArgs, mode \in DebtModes :
                 repayETH(pool, sender, value, amount, mode, other)
            \/ \E amount \in Amounts, mode \in DebtModes : borrowETH(pool, sender, amount, mode)
  BY StartCases
<1>4. PICK h : h = holding
  OBVIOUS
<1>5. /\ h.native \in Nat /\ h.wrapped \in Nat /\ h.scaled \in Nat
      /\ h.native = eth[Gateway] /\ h.wrapped = wallet[WETH][Gateway]
      /\ h.scaled = reserves[WETH].l[Gateway]
  BY <1>2, <1>4, HoldingNat
<1>6. ASSUME NEW value \in Values, depositETH(pool, sender, value, other)
      PROVE  EthTyped' /\ CallParts' /\ InTransit'
  <2>1. value \in Nat /\ wrap(sender, value, value)
    BY <1>1, <1>6 DEF depositETH
  <2>2. /\ call'.op = "deposit" /\ call'.held = h /\ call'.amount = value
    BY <1>4, <1>6 DEF depositETH
  <2>3. /\ EthTyped' /\ eth'[Gateway] = eth[Gateway] + (value - value)
        /\ wallet'[WETH][Gateway] = wallet[WETH][Gateway] + value
        /\ reserves' = reserves
    BY <1>2, <1>3, <2>1, Wrapped
  <2>4. eth'[Gateway] = h.native + 0 /\ reserves'[WETH].l[Gateway] = h.scaled + 0
    BY <1>5, <2>1, <2>3
  <2>5. CallParts'
    BY <1>5, <2>2 DEF CallParts
  <2>6. InTransit'
    BY <1>5, <2>2, <2>3, <2>4 DEF InTransit, holds
  <2> QED
    BY <2>3, <2>5, <2>6
<1>7. ASSUME NEW amount \in AmountArgs, other # Gateway,
             withdrawETH(pool, sender, amount, other)
      PROVE  EthTyped' /\ CallParts' /\ InTransit'
  <2> DEFINE taken == amountToWithdraw(sender, WETH, amount)
             moved == rayDiv(taken, getNormalizedIncome(reserves[WETH], now))
  <2>1. /\ taken # MaxUint /\ eth' = eth
        /\ call'.op = "withdraw" /\ call'.held = h /\ call'.amount = taken
        /\ call'.to = other /\ call'.pool = pool
        /\ transfer(sender, WETH, Gateway, taken) \/ pool # Pool
    BY <1>4, <1>7 DEF withdrawETH
  <2>2. taken \in Nat
    BY <1>1, <1>2, <1>3, TakenNat
  <2>3. moved = rayDiv(taken, getNormalizedIncome(reserves[WETH], now))
    OBVIOUS
  <2> HIDE DEF taken, moved
  <2>4. EthTyped' /\ CallParts'
    BY <1>5, <1>7, <2>1 DEF EthTyped, CallParts
  <2>5. CASE pool # Pool
    BY <2>1, <2>4, <2>5 DEF InTransit
  <2>6. CASE transfer(sender, WETH, Gateway, taken)
    <3>1. /\ reserves'[WETH].l[Gateway] = reserves[WETH].l[Gateway] + moved
          /\ getNormalizedIncome(reserves'[WETH], now')
               = getNormalizedIncome(reserves[WETH], now)
          /\ wallet' = wallet
      BY <1>2, <1>3, <2>2, <2>3, <2>6, TransferLeaves
    <3>2. moved = rayDiv(call'.amount, getNormalizedIncome(reserves'[WETH], now'))
      BY <2>1, <2>3, <3>1
    <3>3. /\ eth'[Gateway] = h.native + 0 /\ wallet'[WETH][Gateway] = h.wrapped + 0
          /\ reserves'[WETH].l[Gateway] = h.scaled + moved
      BY <1>5, <2>1, <3>1
    <3>4. InTransit'
      BY <2>1, <3>2, <3>3 DEF InTransit, holds
    <3> QED
      BY <2>4, <3>4
  <2> QED
    BY <2>1, <2>5, <2>6
<1>8. ASSUME NEW value \in Values, NEW amount \in AmountArgs, NEW mode \in DebtModes,
             repayETH(pool, sender, value, amount, mode, other)
      PROVE  EthTyped' /\ CallParts' /\ InTransit'
  <2>1. PICK payback \in IF pool = Pool THEN {paybackAmount(amount, other, mode)}
                                        ELSE {0, amount} :
        /\ wrap(sender, value, payback)
        /\ call' = [op |-> "repay", pool |-> pool, held |-> h,
                    sender |-> sender, value |-> value, amount |-> amount,
                    mode |-> mode, onBehalfOf |-> other, payback |-> payback]
    BY <1>4, <1>8 DEF repayETH
  <2>2. payback \in Nat /\ value \in Nat /\ amount \in Nat
    <3>1. paybackAmount(amount, other, mode) \in Nat /\ amount \in Nat /\ value \in Nat
      BY <1>1, <1>2, PaybackNat
    <3> QED
      BY <2>1, <3>1
  <2>3. /\ call'.op = "repay" /\ call'.held = h /\ call'.sender = sender
        /\ call'.value = value /\ call'.mode = mode /\ call'.onBehalfOf = other
        /\ call'.payback = payback /\ call'.pool = pool
    BY <2>1
  <2>4. /\ EthTyped' /\ payback <= value
        /\ eth'[Gateway] = eth[Gateway] + (value - payback)
        /\ wallet'[WETH][Gateway] = wallet[WETH][Gateway] + payback
        /\ reserves' = reserves /\ now' = now
    BY <1>2, <1>3, <2>1, <2>2, Wrapped DEF environment
  <2>5. CallParts'
    BY <1>3, <1>5, <2>3, <2>4 DEF CallParts
  <2>6. pool = Pool => payback <= debtOf(WETH, other, mode)
    <3>1. debtOf(WETH, other, mode) \in Nat
      BY <1>1, <1>2, DebtsNat
    <3> QED
      BY <2>1, <2>2, <3>1 DEF paybackAmount, min
  <2>7. debtOf(WETH, call.onBehalfOf, call.mode)' = debtOf(WETH, other, mode)
    BY <2>3, <2>4 DEF debtOf, stableDebtOf, variableDebtOf
  <2>8. reserves'[WETH].l[Gateway] = h.scaled + 0
    BY <1>5, <2>4
  <2>9. InTransit'
    <3>1. call'.pool = Pool => call'.payback <= debtOf(WETH, call.onBehalfOf, call.mode)'
      BY <2>3, <2>6, <2>7
    <3> QED
      BY <1>5, <2>3, <2>4, <2>8, <3>1 DEF InTransit, holds
  <2> QED
    BY <2>4, <2>5, <2>9
<1>9. ASSUME NEW amount \in Amounts, NEW mode \in DebtModes,
             borrowETH(pool, sender, amount, mode)
      PROVE  EthTyped' /\ CallParts' /\ InTransit'
  <2>1. /\ call' = [op |-> "unwrap", pool |-> pool, held |-> h, sender |-> sender,
                    amount |-> amount, to |-> sender]
        /\ pool = Pool => borrow(Gateway, WETH, amount, mode, sender)
        /\ eth' = eth
    BY <1>4, <1>9 DEF borrowETH, borrowing
  <2>2. /\ call'.op = "unwrap" /\ call'.held = h /\ call'.amount = amount
        /\ call'.to = sender /\ call'.pool = pool
    BY <2>1
  <2>3. EthTyped' /\ CallParts'
    BY <1>3, <1>5, <2>1, <2>2 DEF EthTyped, CallParts
  <2>4. CASE pool # Pool
    BY <2>2, <2>3, <2>4 DEF InTransit
  <2>5. CASE pool = Pool
    <3>1. amount \in Nat
      BY <1>1
    <3>2. /\ reserves'[WETH].l[Gateway] = reserves[WETH].l[Gateway]
          /\ wallet'[WETH][Gateway] = wallet[WETH][Gateway] + amount
      BY <1>2, <1>3, <2>1, <2>5, <3>1, BorrowLeaves DEF sameAccount
    <3>3. eth'[Gateway] = h.native + 0 /\ reserves'[WETH].l[Gateway] = h.scaled + 0
      BY <1>5, <2>1, <3>2
    <3>4. InTransit'
      BY <1>5, <2>2, <3>2, <3>3 DEF InTransit, holds
    <3> QED
      BY <2>3, <3>4
  <2> QED
    BY <2>4, <2>5
<1> QED
  BY <1>3, <1>6, <1>7, <1>8, <1>9

\* What a call through the pool leaves when it ends.
leavesNothing ==
    LET h == call.held
    IN  call' = idle /\ call.pool = Pool =>
          /\ eth'[Gateway] = h.native
          /\ \/ reserves'[WETH].l[Gateway] = h.scaled
             \/ call.op = "deposit" /\ call.onBehalfOf = Gateway
          /\ \/ wallet'[WETH][Gateway] = h.wrapped
             \/ /\ call.op = "refund" /\ ~call.whole
                /\ wallet'[WETH][Gateway] < h.wrapped

\* A call that ends as it should.
LEMMA Ends ==
    ASSUME call' = idle, leavesNothing, EthTyped'
    PROVE  EthTyped' /\ CallParts' /\ InTransit' /\ leavesNothing
  BY DEF idle, CallParts, InTransit

\* The steps that follow take out of the gateway what the one before put there:
\* the pool is told to take what was sent, and takes what was wrapped, or more if
\* the gateway has more and the debt is larger.
LEMMA DepositEnds ==
    ASSUME GatewayInv, Kept, depositWrapped
    PROVE  EthTyped' /\ CallParts' /\ InTransit' /\ leavesNothing
<1>1. /\ Inv /\ call.op = "deposit" /\ call' = idle /\ eth' = eth /\ EthTyped
      /\ call.amount \in Nat /\ call.onBehalfOf \in Users /\ Gateway \in Users
      /\ call.held.native \in Nat /\ call.held.wrapped \in Nat /\ call.held.scaled \in Nat
  BY GatewayAssumption DEF depositWrapped, GatewayInv, CallTyped, Kept, CallParts
<1>2. ASSUME call.pool = Pool
      PROVE  leavesNothing
  <2>1. deposit(Gateway, WETH, call.amount, call.onBehalfOf)
    BY <1>2 DEF depositWrapped
  <2>2. holds(0, call.amount, 0)
    BY <1>1, <1>2 DEF Kept, InTransit
  <2>3. wallet'[WETH][Gateway] = wallet[WETH][Gateway] - call.amount
    <3> DEFINE x == wallet[WETH][Gateway] - call.amount
    <3>1. wallet' = [wallet EXCEPT ![WETH][Gateway] = x]
      BY <2>1 DEF deposit
    <3> HIDE DEF x
    <3>2. wallet'[WETH][Gateway] = x
      BY <1>1, <3>1, GatewayWallet
    <3> QED
      BY <3>2 DEF x
  <2>4. call.onBehalfOf # Gateway => reserves'[WETH].l[Gateway] = reserves[WETH].l[Gateway]
    BY <1>1, <2>1, DepositLeaves DEF sameAccount
  <2>5. eth'[Gateway] = call.held.native /\ wallet'[WETH][Gateway] = call.held.wrapped
    BY <1>1, <2>2, <2>3 DEF holds
  <2>6. call.onBehalfOf # Gateway => reserves'[WETH].l[Gateway] = call.held.scaled
    BY <1>1, <2>2, <2>4 DEF holds
  <2> QED
    BY <1>1, <2>5, <2>6 DEF leavesNothing
<1>3. leavesNothing
  BY <1>2 DEF leavesNothing
<1>4. EthTyped'
  BY <1>1 DEF EthTyped
<1> QED
  BY <1>1, <1>3, <1>4, Ends

\* The withdrawal turns the lTokens into WETH.
LEMMA WithdrawContinues ==
    ASSUME GatewayInv, Kept, withdrawReceived
    PROVE  EthTyped' /\ CallParts' /\ InTransit' /\ leavesNothing
<1>1. /\ Inv /\ call.op = "withdraw" /\ eth' = eth /\ EthTyped
      /\ call.amount \in Nat /\ call.to # Gateway /\ Gateway \in Users
      /\ call.held.native \in Nat /\ call.held.wrapped \in Nat /\ call.held.scaled \in Nat
      /\ call'.op = "unwrap" /\ call'.pool = call.pool /\ call'.held = call.held
      /\ call'.amount = call.amount /\ call'.to = call.to
  BY GatewayAssumption DEF withdrawReceived, GatewayInv, CallTyped, Kept, CallParts
<1>2. EthTyped' /\ CallParts' /\ leavesNothing
  BY <1>1 DEF EthTyped, CallParts, leavesNothing, idle
<1>3. CASE call.pool # Pool
  BY <1>1, <1>2, <1>3 DEF InTransit
<1>4. CASE call.pool = Pool
  <2> DEFINE moved == rayDiv(call.amount, getNormalizedIncome(reserves[WETH], now))
  <2>1. withdraw(Gateway, WETH, call.amount, Gateway)
    BY <1>4 DEF withdrawReceived
  <2>2. call.amount # MaxUint /\ holds(0, 0, moved)
    BY <1>1, <1>4 DEF Kept, InTransit
  <2>3. /\ reserves'[WETH].l[Gateway] = reserves[WETH].l[Gateway] - moved
        /\ wallet'[WETH][Gateway] = wallet[WETH][Gateway] + call.amount
    BY <1>1, <2>1, <2>2, WithdrawLeaves
  <2>4. moved \in Nat
    <3>1. Good(reserves[WETH], now) /\ now \in Nat
      BY <1>1, GatewayAssumption, ReserveFacts
    <3>2. /\ getNormalizedIncome(reserves[WETH], now) \in Nat
          /\ reserves[WETH].liquidityIndex <= getNormalizedIncome(reserves[WETH], now)
      BY <3>1, NormalizedIncome
    <3>3. reserves[WETH].liquidityIndex \in Nat /\ reserves[WETH].liquidityIndex > 0
      BY <3>1, RayAssumption DEF Good, aboveRay, Market
    <3> QED
      BY <1>1, <3>2, <3>3, RayDivNat
  <2> HIDE DEF moved
  <2>5. /\ eth'[Gateway] = call.held.native + 0
        /\ wallet'[WETH][Gateway] = call.held.wrapped + call.amount
        /\ reserves'[WETH].l[Gateway] = call.held.scaled + 0
    BY <1>1, <2>2, <2>3, <2>4 DEF holds
  <2>6. InTransit'
    BY <1>1, <2>5 DEF InTransit, holds
  <2> QED
    BY <1>2, <2>6
<1> QED
  BY <1>3, <1>4

\* The pool takes what was wrapped, and WETH that was there before for a debt
\* larger than that.
LEMMA RepayContinues ==
    ASSUME GatewayInv, Kept, repayWrapped
    PROVE  EthTyped' /\ CallParts' /\ InTransit' /\ leavesNothing
<1> DEFINE h     == call.held
           debt  == debtOf(WETH, call.onBehalfOf, call.mode)
           taken == min(call.value, debt)
           rest  == call.value - call.payback
<1>1. /\ Inv /\ call.op = "repay" /\ eth' = eth /\ EthTyped /\ Gateway \in Users
      /\ call.value \in Nat /\ call.mode \in DebtModes /\ call.onBehalfOf \in Users
      /\ call.payback \in Nat /\ call.payback <= call.value /\ call.sender \in People
      /\ h.native \in Nat /\ h.wrapped \in Nat /\ h.scaled \in Nat
  BY GatewayAssumption DEF repayWrapped, GatewayInv, CallTyped, Kept, CallParts
<1>2. \/ /\ call.value > call.payback
         /\ call' = [op |-> "refund", pool |-> call.pool, held |-> call.held,
                     sender |-> call.sender, amount |-> rest,
                     whole |-> call.payback = debt]
      \/ ~(call.value > call.payback) /\ call' = idle
  BY DEF repayWrapped
<1>3. rest \in Nat
  BY <1>1
<1>4. EthTyped'
  BY <1>1 DEF EthTyped
<1>5. ASSUME call.pool = Pool
      PROVE  /\ eth'[Gateway] = h.native + rest
             /\ reserves'[WETH].l[Gateway] = h.scaled
             /\ \/ wallet'[WETH][Gateway] = h.wrapped
                \/ /\ call.payback # debt /\ call.value > call.payback
                   /\ wallet'[WETH][Gateway] < h.wrapped
  <2>1. repay(Gateway, WETH, call.value, call.mode, call.onBehalfOf)
    BY <1>5 DEF repayWrapped
  <2>2. call.payback <= debt /\ holds(rest, call.payback, 0)
    BY <1>1, <1>5 DEF Kept, InTransit
  <2>3. debt \in Nat
    BY <1>1, GatewayAssumption, DebtsNat
  <2>4. call.onBehalfOf # Gateway
    <3>1. debt # 0
      BY <2>1 DEF repay, repayOK, validateRepay, debtOf
    <3> QED
      BY <1>1, <3>1, NoDebts DEF Kept
  <2>5. /\ reserves'[WETH].l[Gateway] = reserves[WETH].l[Gateway]
        /\ wallet'[WETH][Gateway] = wallet[WETH][Gateway] - taken
    BY <1>1, <2>1, <2>4, RepayLeaves DEF sameAccount
  <2>6. /\ taken \in Nat /\ call.payback <= taken
        /\ \/ taken = call.payback
           \/ call.payback # debt /\ call.value > call.payback
    BY <1>1, <2>2, <2>3 DEF min
  <2> HIDE DEF taken, debt, rest
  <2>7. eth'[Gateway] = h.native + rest /\ reserves'[WETH].l[Gateway] = h.scaled
    BY <1>1, <2>2, <2>5 DEF holds
  <2>8. wallet'[WETH][Gateway] = (h.wrapped + call.payback) - taken
    <3>1. wallet[WETH][Gateway] = h.wrapped + call.payback
      BY <2>2 DEF holds
    <3> HIDE DEF h
    <3> QED
      BY <2>5, <3>1
  <2>9. \/ wallet'[WETH][Gateway] = h.wrapped
        \/ taken # call.payback /\ wallet'[WETH][Gateway] < h.wrapped
    BY <1>1, <2>6, <2>8
  <2> QED
    BY <2>6, <2>7, <2>9
<1> HIDE DEF debt, rest
<1>6. CASE call.value > call.payback
  <2>1. /\ call'.op = "refund" /\ call'.pool = call.pool /\ call'.held = call.held
        /\ call'.sender = call.sender /\ call'.amount = rest
        /\ call'.whole = (call.payback = debt)
    BY <1>2, <1>6
  <2>2. CallParts' /\ leavesNothing
    BY <1>1, <1>3, <2>1 DEF CallParts, leavesNothing, idle
  <2>3. InTransit'
    BY <1>5, <2>1 DEF InTransit
  <2> QED
    BY <1>4, <2>2, <2>3
<1>7. CASE ~(call.value > call.payback)
  <2>1. call' = idle
    BY <1>2, <1>7
  <2>2. rest = 0
    BY <1>1, <1>7 DEF rest
  <2>3. leavesNothing
    BY <1>1, <1>5, <1>7, <2>2 DEF leavesNothing
  <2> QED
    BY <1>4, <2>1, <2>3, Ends
<1> QED
  BY <1>6, <1>7

\* What was sent and not wrapped goes back.
LEMMA RefundEnds ==
    ASSUME GatewayInv, Kept, refund
    PROVE  EthTyped' /\ CallParts' /\ InTransit' /\ leavesNothing
<1> DEFINE less == eth[Gateway] - call.amount
           more == eth[call.sender] + call.amount
<1>1. /\ call.op = "refund" /\ call' = idle /\ UNCHANGED vars /\ Gateway \in Users
      /\ call.amount <= eth[Gateway] /\ eth \in [Users -> Nat]
      /\ call.sender \in Users /\ call.sender # Gateway /\ call.amount \in Nat
      /\ call.held.native \in Nat
  BY GatewayAssumption DEF refund, Kept, EthTyped, CallParts, People
<1>2. /\ eth' = [eth EXCEPT ![Gateway] = less, ![call.sender] = more]
  BY <1>1 DEF refund
<1>3. less \in Nat /\ more \in Nat /\ eth[call.sender] <= more
  BY <1>1
<1>4. less = eth[Gateway] - call.amount
  OBVIOUS
<1> HIDE DEF less, more
<1>5. eth' \in [Users -> Nat] /\ eth'[Gateway] = less
  BY <1>1, <1>2, <1>3, OneRises
<1>6. leavesNothing
  <2> SUFFICES ASSUME call.pool = Pool
               PROVE  leavesNothing
    BY DEF leavesNothing
  <2>1. /\ eth[Gateway] = call.held.native + call.amount
        /\ reserves[WETH].l[Gateway] = call.held.scaled
        /\ \/ wallet[WETH][Gateway] = call.held.wrapped
           \/ ~call.whole /\ wallet[WETH][Gateway] < call.held.wrapped
    BY <1>1 DEF Kept, InTransit
  <2>2. eth'[Gateway] = call.held.native
    BY <1>1, <1>4, <1>5, <2>1
  <2>3. reserves' = reserves /\ wallet' = wallet
    BY <1>1 DEF vars
  <2> QED
    BY <1>1, <2>1, <2>2, <2>3 DEF leavesNothing
<1> QED
  BY <1>1, <1>5, <1>6, Ends DEF EthTyped

\* And what was unwrapped goes to its receiver.
LEMMA UnwrapEnds ==
    ASSUME GatewayInv, Kept, unwrapAndSend
    PROVE  EthTyped' /\ CallParts' /\ InTransit' /\ leavesNothing
<1>1. /\ Inv /\ call.op = "unwrap" /\ call' = idle /\ reserves' = reserves
      /\ call.to \in Users /\ call.to # Gateway /\ call.amount \in Nat
      /\ eth \in [Users -> Nat] /\ Gateway \in Users
      /\ call.held.native \in Nat /\ call.held.wrapped \in Nat /\ call.held.scaled \in Nat
  BY GatewayAssumption
  DEF unwrapAndSend, GatewayInv, CallTyped, Kept, EthTyped, CallParts
<1>2. eth' \in [Users -> Nat] /\ eth'[Gateway] = eth[Gateway]
  <2>1. eth' = [eth EXCEPT ![call.to] = @ + call.amount]
    BY DEF unwrapAndSend
  <2> QED
    BY <1>1, <2>1
<1>3. wallet'[WETH][Gateway] = wallet[WETH][Gateway] - call.amount
  <2> DEFINE x == wallet[WETH][Gateway] - call.amount
  <2>1. wallet' = [wallet EXCEPT ![WETH][Gateway] = x]
    BY DEF unwrapAndSend
  <2> HIDE DEF x
  <2>2. wallet'[WETH][Gateway] = x
    BY <1>1, <2>1, GatewayWallet
  <2> QED
    BY <2>2 DEF x
<1>4. leavesNothing
  <2> SUFFICES ASSUME call.pool = Pool
               PROVE  leavesNothing
    BY DEF leavesNothing
  <2>1. holds(0, call.amount, 0)
    BY <1>1 DEF Kept, InTransit
  <2>2. /\ eth'[Gateway] = call.held.native /\ wallet'[WETH][Gateway] = call.held.wrapped
        /\ reserves'[WETH].l[Gateway] = call.held.scaled
    BY <1>1, <1>2, <1>3, <2>1 DEF holds
  <2> QED
    BY <2>2 DEF leavesNothing
<1> QED
  BY <1>1, <1>2, <1>4, Ends DEF EthTyped

\* No step of a call leaves more in transit than the next one takes.
LEMMA ContinueTransit ==
    ASSUME GatewayInv, Kept, continueCall
    PROVE  EthTyped' /\ CallParts' /\ InTransit' /\ leavesNothing
  BY DepositEnds, WithdrawContinues, RepayContinues, RefundEnds, UnwrapEnds DEF continueCall

\* What is sent, by the owner or to the gateway, is native currency of others or
\* tokens.
LEMMA SentTyped ==
    ASSUME EthTyped, NEW from \in Users, NEW to \in Users, NEW amount \in Nat,
           sendEther(from, to, amount)
    PROVE  EthTyped'
<1> DEFINE x == eth[from] - amount
           e == [eth EXCEPT ![from] = x]
           y == e[to] + amount
<1>1. amount <= eth[from] /\ eth' = [e EXCEPT ![to] = y] /\ eth \in [Users -> Nat]
  BY DEF sendEther, sent, EthTyped
<1>2. x \in Nat
  BY <1>1
<1> HIDE DEF x
<1>3. e \in [Users -> Nat]
  BY <1>1, <1>2
<1> HIDE DEF e
<1>4. y \in Nat
  BY <1>3
<1> HIDE DEF y
<1> QED
  BY <1>1, <1>3, <1>4 DEF EthTyped

\* Balances of native currency stay balances when no call is executed.
LEMMA GiftTyped ==
    ASSUME EthTyped, NEW u \in People,
           \/ \E amount \in Gifts : sendToGateway(u, amount)
           \/ \E a \in Assets, amount \in Gifts \cup Amounts :
                emergencyTokenTransfer(a, u, amount)
           \/ \E amount \in Gifts \cup Amounts : emergencyEtherTransfer(u, amount)
    PROVE  EthTyped' /\ call' = call
<1>1. /\ Gifts \subseteq Nat /\ Amounts \subseteq Nat /\ u \in Users /\ Gateway \in Users
  BY GatewayAssumption, BoundsAssumption DEF People
<1>2. /\ call' = call
      /\ \/ eth' = eth
         \/ \E amount \in Nat : sendEther(u, Gateway, amount) \/ sendEther(Gateway, u, amount)
  BY <1>1 DEF sendToGateway, emergencyTokenTransfer, emergencyEtherTransfer
<1>3. eth' = eth => EthTyped'
  BY DEF EthTyped
<1> QED
  BY <1>1, <1>2, <1>3, SentTyped

\* What the gateway holds is what it held and what its call has in transit.
LEMMA KeptStep ==
    ASSUME GatewayInv, Kept, [GatewayNext]_gatewayVars
    PROVE  Kept' /\ (call # idle => leavesNothing \/ UNCHANGED gatewayVars)
<1>1. Creditless'
  BY CreditlessStep DEF Kept
<1>2. call = idle /\ call' = idle /\ EthTyped' => CallParts' /\ InTransit'
  BY DEF idle, CallParts, InTransit
<1>3. CASE UNCHANGED gatewayVars
  <2>1. eth' = eth /\ call' = call /\ reserves' = reserves /\ wallet' = wallet /\ now' = now
    BY <1>3 DEF gatewayVars, vars
  <2>2. EthTyped' /\ CallParts' /\ InTransit'
    BY <2>1 DEF Kept, EthTyped, CallParts, InTransit, holds, debtOf, stableDebtOf,
       variableDebtOf
  <2> QED
    BY <1>1, <1>3, <2>2 DEF Kept
<1>4. CASE call = idle /\ startCall
  BY <1>1, <1>4, StartTransit DEF Kept
<1>5. ASSUME call = idle, NEW u, NEW amount, approve(u, amount)
      PROVE  Kept'
  <2>1. call' = call /\ eth' = eth
    BY <1>5 DEF approve
  <2> QED
    BY <1>1, <1>2, <1>5, <2>1 DEF Kept, EthTyped
<1>6. ASSUME call = idle, NEW u \in People,
             \/ \E amount \in Gifts : sendToGateway(u, amount)
             \/ \E a \in Assets, amount \in Gifts \cup Amounts :
                  emergencyTokenTransfer(a, u, amount)
             \/ \E amount \in Gifts \cup Amounts : emergencyEtherTransfer(u, amount)
      PROVE  Kept'
  BY <1>1, <1>2, <1>6, GiftTyped DEF Kept
<1>7. CASE call = idle /\ poolStep
  <2>1. call' = call /\ eth' = eth
    BY <1>7 DEF poolStep
  <2> QED
    BY <1>1, <1>2, <1>7, <2>1 DEF Kept, EthTyped
<1>8. CASE continueCall
  BY <1>1, <1>8, ContinueTransit DEF Kept
<1> QED
  BY <1>3, <1>4, <1>5, <1>6, <1>7, <1>8, GatewayCases

\* Before its first call the gateway has nothing in transit.
LEMMA KeptStart == GatewayInit => Kept
<1>1. GatewayInit => EthTyped /\ CallParts /\ InTransit
  BY GatewayAssumption DEF GatewayInit, EthTyped, CallParts, InTransit, idle
<1> QED
  BY <1>1, CreditlessStart DEF Kept


-----------------------------------------------------------------------------
(* What the steps of a call find                                           *)

\* What stays as the first step of a call has found it or made it.
Ready ==
    /\ ~paused /\ (call.op # "none" => callable)
    /\ call.op = "repay" =>
         /\ call.value \in Values /\ call.amount \in Nat
         /\ call.pool = Pool =>
              call.payback = min(call.amount, debtOf(WETH, call.onBehalfOf, call.mode))
    /\ call.op = "withdraw" /\ call.pool = Pool /\ call.all =>
         \E q \in 0..reserves[WETH].l[Gateway] :
           call.amount = rayMul(q, getNormalizedIncome(reserves[WETH], now))

\* Steps that leave the pause and the flash loans alone.
LEMMA StillCallable ==
    ASSUME ~paused, UNCHANGED <<environment, flash>>
    PROVE  ~paused' /\ callable' = callable
  BY DEF environment, callable, inPhase

\* The whole balance of a user is, in the gateway, at least what was scaled up to it.
LEMMA TakenOver ==
    ASSUME Inv, NEW sender \in Users, sender # Gateway, NEW taken \in Nat,
           taken = lBalanceOf(reserves[WETH], sender, now),
           transfer(sender, WETH, Gateway, taken)
    PROVE  \E q \in 0..reserves'[WETH].l[Gateway] :
             taken = rayMul(q, getNormalizedIncome(reserves'[WETH], now'))
<1> DEFINE i == getNormalizedIncome(reserves[WETH], now)
           q == reserves[WETH].l[sender]
           l == reserves[WETH].l[Gateway]
<1>1. WETH \in Assets /\ Gateway \in Users
  BY GatewayAssumption
<1>2. Good(reserves[WETH], now) /\ now \in Nat
  BY <1>1, ReserveFacts
<1>3. q \in Nat /\ l \in Nat
  BY <1>1, <1>2 DEF Good, Market
<1>4. i \in Nat /\ RAY <= i
  <2>1. reserves[WETH].liquidityIndex \in Nat /\ RAY <= reserves[WETH].liquidityIndex
    BY <1>2 DEF Good, aboveRay, Market
  <2>2. i \in Nat /\ reserves[WETH].liquidityIndex <= i
    BY <1>2, NormalizedIncome
  <2> HIDE DEF i
  <2> QED
    BY <2>1, <2>2, RayAssumption
<1>5. taken = rayMul(q, i)
  BY DEF lBalanceOf
<1>6. /\ reserves'[WETH].l[Gateway] = l + rayDiv(taken, i)
      /\ getNormalizedIncome(reserves'[WETH], now') = i
  BY TransferLeaves
<1> HIDE DEF i, q, l
<1>7. rayDiv(taken, i) = q
  BY <1>3, <1>4, <1>5, RayDivUndoes
<1>8. q \in 0..reserves'[WETH].l[Gateway]
  BY <1>3, <1>6, <1>7
<1> QED
  BY <1>5, <1>6, <1>8

\* The first step leaves the next one what it needs to know.
LEMMA StartReady ==
    ASSUME GatewayInv, Ready, callable, startCall
    PROVE  Ready'
<1>1. /\ Values \subseteq Nat /\ Amounts \subseteq Nat /\ AmountArgs \subseteq Nat
      /\ Inv /\ ~paused
  BY StartCases DEF GatewayInv, Ready
<1>2. PICK pool \in {Pool} \cup OtherPools, sender \in People, other \in Users :
         /\ sender \in Users /\ sender # Gateway
         /\ \/ \E value \in Values : depositETH(pool, sender, value, other)
            \/ \E amount \in AmountArgs :
                 other # Gateway /\ withdrawETH(pool, sender, amount, other)
            \/ \E value \in Values, amount \in AmountArgs, mode \in DebtModes :
                 repayETH(pool, sender, value, amount, mode, other)
            \/ \E amount \in Amounts, mode \in DebtModes : borrowETH(pool, sender, amount, mode)
  BY StartCases
<1>3. UNCHANGED <<environment, flash>> => ~paused' /\ callable'
  BY <1>1, StillCallable
<1>4. ASSUME NEW value \in Values, depositETH(pool, sender, value, other)
      PROVE  Ready'
  <2>1. UNCHANGED <<environment, flash>> /\ call'.op = "deposit"
    BY <1>4 DEF depositETH, wrap
  <2> QED
    BY <1>3, <2>1 DEF Ready
<1>5. ASSUME NEW amount \in AmountArgs, withdrawETH(pool, sender, amount, other)
      PROVE  Ready'
  <2> DEFINE taken == amountToWithdraw(sender, WETH, amount)
  <2>1. /\ call'.op = "withdraw" /\ call'.amount = taken /\ call'.pool = pool
        /\ \/ transfer(sender, WETH, Gateway, taken) /\ call'.all = (amount = MaxUint)
           \/ pool # Pool /\ UNCHANGED vars
    BY <1>5 DEF withdrawETH
  <2>2. taken \in Nat
    BY <1>1, <1>2, TakenNat
  <2>3. amount = MaxUint => taken = lBalanceOf(reserves[WETH], sender, now)
    BY DEF amountToWithdraw
  <2> HIDE DEF taken
  <2>4. UNCHANGED <<environment, flash>>
    BY <2>1 DEF transfer, vars, environment
  <2>5. call'.pool = Pool /\ call'.all =>
          \E q \in 0..reserves'[WETH].l[Gateway] :
            call'.amount = rayMul(q, getNormalizedIncome(reserves'[WETH], now'))
    <3> SUFFICES ASSUME call'.pool = Pool, call'.all
                 PROVE  \E q \in 0..reserves'[WETH].l[Gateway] :
                          taken = rayMul(q, getNormalizedIncome(reserves'[WETH], now'))
      BY <2>1
    <3>1. transfer(sender, WETH, Gateway, taken) /\ amount = MaxUint
      BY <2>1
    <3> QED
      BY <1>1, <1>2, <2>2, <2>3, <3>1, TakenOver
  <2> QED
    BY <1>3, <2>1, <2>4, <2>5 DEF Ready
<1>6. ASSUME NEW value \in Values, NEW amount \in AmountArgs, NEW mode \in DebtModes,
             repayETH(pool, sender, value, amount, mode, other)
      PROVE  Ready'
  <2>1. PICK payback \in IF pool = Pool THEN {paybackAmount(amount, other, mode)}
                                        ELSE {0, amount} :
        /\ UNCHANGED <<environment, flash, reserves>>
        /\ call' = [op |-> "repay", pool |-> pool, held |-> holding,
                    sender |-> sender, value |-> value, amount |-> amount,
                    mode |-> mode, onBehalfOf |-> other, payback |-> payback]
    BY <1>6 DEF repayETH, wrap
  <2>2. /\ call'.op = "repay" /\ call'.value = value /\ call'.amount = amount
        /\ call'.mode = mode /\ call'.onBehalfOf = other /\ call'.payback = payback
        /\ call'.pool = pool
    BY <2>1
  <2>3. pool = Pool => payback = min(amount, debtOf(WETH, other, mode))
    BY <2>1 DEF paybackAmount
  <2>4. debtOf(WETH, call.onBehalfOf, call.mode)' = debtOf(WETH, other, mode)
    BY <2>1, <2>2 DEF environment, debtOf, stableDebtOf, variableDebtOf
  <2>5. call'.pool = Pool =>
          call'.payback = min(call'.amount, debtOf(WETH, call.onBehalfOf, call.mode)')
    BY <2>2, <2>3, <2>4
  <2>6. ~paused' /\ callable' /\ value \in Values /\ amount \in Nat
    BY <1>1, <1>3, <2>1
  <2> HIDE <2>1
  <2> QED
    BY <2>2, <2>5, <2>6 DEF Ready, min
<1>7. ASSUME NEW amount \in Amounts, NEW mode \in DebtModes,
             borrowETH(pool, sender, amount, mode)
      PROVE  Ready'
  <2>1. UNCHANGED <<environment, flash>> /\ call'.op = "unwrap"
    BY <1>7 DEF borrowETH, borrow, borrowing, otherPays, setGatewayWETH
  <2> QED
    BY <1>3, <2>1 DEF Ready
<1> QED
  BY <1>2, <1>4, <1>5, <1>6, <1>7

\* The steps that follow leave nothing behind that a later one would look at.
LEMMA ContinueReady ==
    ASSUME Ready, continueCall
    PROVE  Ready'
<1>1. ~paused /\ (call.op # "none" => callable)
  BY DEF Ready
<1>2. CASE depositWrapped
  <2>1. UNCHANGED environment /\ call' = idle
    BY <1>2 DEF depositWrapped, deposit, otherTakes, setGatewayWETH
  <2> QED
    BY <1>1, <2>1 DEF Ready, idle, environment
<1>3. CASE withdrawReceived
  <2>1. UNCHANGED <<environment, flash>> /\ call.op = "withdraw" /\ call'.op = "unwrap"
    BY <1>3 DEF withdrawReceived, withdraw, otherPays, setGatewayWETH
  <2> QED
    BY <1>1, <2>1, StillCallable DEF Ready
<1>4. CASE repayWrapped
  <2>1. /\ UNCHANGED <<environment, flash>> /\ call.op = "repay"
        /\ call'.op = "refund" \/ call' = idle
    BY <1>4 DEF repayWrapped, repay, otherTakes, setGatewayWETH
  <2> QED
    BY <1>1, <2>1, StillCallable DEF Ready, idle
<1>5. CASE refund \/ unwrapAndSend
  <2>1. UNCHANGED environment /\ call' = idle
    BY <1>5 DEF refund, unwrapAndSend, vars, environment
  <2> QED
    BY <1>1, <2>1 DEF Ready, idle, environment
<1> QED
  BY <1>2, <1>3, <1>4, <1>5 DEF continueCall

\* Every step of a call finds what the one before it made ready.
LEMMA ReadyStep ==
    ASSUME GatewayInv, Ready, [GatewayNext]_gatewayVars
    PROVE  Ready'
<1>1. call = idle /\ call' = idle /\ paused' = paused => Ready'
  BY DEF Ready, idle
<1>2. CASE UNCHANGED gatewayVars
  BY <1>2 DEF gatewayVars, vars, Ready, callable, inPhase, debtOf, stableDebtOf,
     variableDebtOf
<1>3. ASSUME NEW u, NEW amount, call = idle, approve(u, amount)
      PROVE  Ready'
  BY <1>1, <1>3 DEF approve, vars
<1>4. CASE call = idle /\ callable /\ startCall
  BY <1>4, StartReady
<1>5. CASE call = idle /\ poolStep
  BY <1>1, <1>5, PoolSteps, PauseKept
<1>6. CASE continueCall
  BY <1>6, ContinueReady
<1>7. ASSUME call = idle, NEW u \in People,
             \/ \E amount \in Gifts : sendToGateway(u, amount)
             \/ \E a \in Assets, amount \in Gifts \cup Amounts :
                  emergencyTokenTransfer(a, u, amount)
             \/ \E amount \in Gifts \cup Amounts : emergencyEtherTransfer(u, amount)
      PROVE  Ready'
  <2>1. call' = call /\ paused' = paused
    BY <1>7 DEF sendToGateway, emergencyTokenTransfer, emergencyEtherTransfer, sendToken,
       sendEther, transfer, vars, environment
  <2> QED
    BY <1>1, <1>7, <2>1
<1> QED
  BY <1>2, <1>3, <1>4, <1>5, <1>6, <1>7, GatewayCases

\* The pool is not paused at first.
LEMMA ReadyStart == GatewayInit => Ready
  BY DEF GatewayInit, Init, Ready, idle

-----------------------------------------------------------------------------
(* A call that was begun goes through                                      *)

\* withdraw() of what a part of the scaled balance is worth, by an account without
\* borrowing flags.
LEMMA PartGoesOut ==
    ASSUME Inv, IndexesFit, RatesFit, NEW u \in Users, NEW a \in Assets,
           whenNotPaused, config[a].active, usersConfig[u].borrowing = {},
           NEW q \in Nat, q <= reserves[a].l[u],
           NEW amount \in Nat, amount = rayMul(q, getNormalizedIncome(reserves[a], now)),
           amount # MaxUint, 0 < amount, amount <= reserves[a].avail
    PROVE  withdrawOK(u, a, amount)
<1> DEFINE m == reserves[a]
           balance == lBalanceOf(m, u, now)
           n == accrue(m, a)
           r == withRates(n, a, 0, amount)
           i == getNormalizedIncome(m, now)
<1>1. Good(m, now) /\ now \in Nat
  BY ReserveFacts
<1>2. m.avail \in Nat /\ m.l[u] \in Nat
  BY <1>1 DEF Good, Market
<1>3. balance = rayMul(m.l[u], i) /\ amount = rayMul(q, i)
  BY DEF lBalanceOf
<1>4. i \in Nat /\ RAY <= i
  <2>1. m.liquidityIndex \in Nat /\ RAY <= m.liquidityIndex
    BY <1>1 DEF Good, aboveRay, Market
  <2> HIDE DEF m
  <2> QED
    BY <1>1, <2>1, NormalizedIncome, RayAssumption
<1>5. /\ accrueOK(m, a) /\ Accrued(n, now)
      /\ n.avail = m.avail /\ n.sAvg = m.sAvg /\ n.liquidityIndex = i
      /\ m.l[u] <= n.l[u]
  BY AccrueSucceeds
<1>6. Good(n, now) /\ roomy(n.sAvg)
  BY <1>5 DEF Accrued, RatesFit
<1>7. amount <= n.avail + 0 /\ n.l[u] \in Nat
  BY <1>2, <1>5, <1>6 DEF Good, Market
<1>8. q <= m.l[u]
  OBVIOUS
<1> HIDE DEF n, balance, i
<1>9. ratesOK(n, a, 0, amount)
  BY <1>2, <1>6, <1>7, RatesGoThrough
<1>10. /\ Good(r, now) /\ sameClock(n, r) /\ r.avail = n.avail /\ r.l = n.l
  BY <1>2, <1>6, <1>9, RatesGood
<1>11. q # 0
  BY <1>3, <1>4, RayMulZero
<1> HIDE DEF r, m
<1>12. lBurnOK(r, u, amount, i)
  <2>1. q <= r.l[u] /\ rayMul(q, i) <= r.avail
    BY <1>2, <1>3, <1>5, <1>7, <1>8, <1>10
  <2>2. lBurnOK(r, u, rayMul(q, i), i)
    BY <1>1, <1>4, <1>10, <1>11, <2>1, WholeBalanceBurns
  <2> QED
    BY <1>3, <2>2
<1>13. r.liquidityIndex = i
  BY <1>5, <1>10 DEF sameClock
<1>14. lBurnOK(r, u, amount, r.liquidityIndex)
  BY <1>12, <1>13
<1>15. amount <= balance
  BY <1>2, <1>3, <1>4, <1>8, RayMulMonotone
<1>16. validateWithdraw(a, u, amount, balance)
  BY <1>15 DEF validateWithdraw, balanceDecreaseAllowed
<1>17. /\ amountToWithdraw(u, a, amount) = amount
       /\ reserveToWithdraw(a, amount) = r
       /\ lBalanceOf(reserves[a], u, now) = balance
       /\ accrueOK(reserves[a], a) /\ ratesOK(accrue(reserves[a], a), a, 0, amount)
  BY <1>5, <1>9 DEF amountToWithdraw, reserveToWithdraw, m, n, r, balance
<1> QED
  BY <1>14, <1>16, <1>17 DEF withdrawOK

\* What is sent is never the amount that stands for a whole debt.
ValuesFit == MaxUint \notin Values

\* repay() of the wrapped payback amount, when it covers the debt or is all that
\* was sent.
LEMMA PaybackGoesThrough ==
    ASSUME ValuesFit, GatewayInv, Kept, Ready,
           IndexesFit, RatesFit, PartAveragesFit, Earning, Burnable, config[WETH].active,
           call.op = "repay", call.pool = Pool, 0 < call.payback,
           \/ call.amount >= debtOf(WETH, call.onBehalfOf, call.mode)
           \/ call.amount = call.value
    PROVE  repayOK(Gateway, WETH, call.value, call.mode, call.onBehalfOf)
<1> DEFINE value == call.value
           mode  == call.mode
           w     == call.onBehalfOf
           debt  == debtOf(WETH, w, mode)
           p     == min(value, debt)
           had   == call.held.wrapped
<1>1. /\ Inv /\ WETH \in Assets /\ Gateway \in Users
      /\ value \in Nat /\ mode \in DebtModes /\ w \in Users
      /\ call.payback \in Nat /\ call.payback <= value /\ had \in Nat
      /\ wallet[WETH][Gateway] = had + call.payback
  BY GatewayAssumption DEF GatewayInv, CallTyped, Kept, CallParts, InTransit, holds
<1>2. /\ call.amount \in Nat /\ call.payback = min(call.amount, debt) /\ value \in Values
      /\ whenNotPaused
  BY DEF Ready, whenNotPaused
<1>3. debt \in Nat
  BY <1>1, DebtsNat
<1>4. value # MaxUint
  BY <1>2 DEF ValuesFit
<1>5. p = min(value, debt)
  OBVIOUS
<1>6. call.amount >= debt \/ call.amount = value
  OBVIOUS
<1> HIDE DEF value, mode, w, debt, p, had
<1>7. p = call.payback
  BY <1>1, <1>2, <1>3, <1>5, <1>6 DEF min
<1>8. p \in Nat /\ p > 0 /\ p <= wallet[WETH][Gateway] /\ p <= debt /\ value # 0
  <2>1. p \in Nat /\ p > 0 /\ p <= wallet[WETH][Gateway] /\ p <= value
    BY <1>1, <1>7
  <2>2. p <= debt
    BY <1>1, <1>3, <1>5 DEF min
  <2> QED
    BY <1>1, <2>1, <2>2
<1>9. mode = "stable" => roomy(reserveRepaid(WETH, w, p, "stable").sAvg)
  <2>1. mode = "stable" => debt = stableDebtOf(WETH, w)
    BY DEF debt, debtOf
  <2>2. mode = "stable" => p \in 1..stableDebtOf(WETH, w)
    BY <1>3, <1>8, <2>1
  <2> QED
    BY <1>1, <2>2 DEF PartAveragesFit
<1>10. rayDiv(p, newVariableBorrowIndex(reserves[WETH], now)) # 0
  <2> DEFINE i == newVariableBorrowIndex(reserves[WETH], now)
  <2>1. i \in Nat /\ i > 0
    <3>1. Good(reserves[WETH], now) /\ now \in Nat
      BY <1>1, ReserveFacts
    <3>2. i \in Nat /\ reserves[WETH].variableBorrowIndex <= i
      BY <3>1, NewIndexes
    <3>3. /\ reserves[WETH].variableBorrowIndex \in Nat
          /\ RAY <= reserves[WETH].variableBorrowIndex
      BY <3>1 DEF Good, aboveRay, Market
    <3> HIDE DEF i
    <3> QED
      BY <3>2, <3>3, RayAssumption
  <2>2. i <= 2 * RAY
    BY <1>1 DEF Burnable
  <2> HIDE DEF i
  <2>3. rayDiv(p, i) # 0
    BY <1>8, <2>1, <2>2, RayDivCounts
  <2> QED
    BY <2>3 DEF i
<1>11. repayOK(Gateway, WETH, value, mode, w)
  <2>1. p = min(value, debtOf(WETH, w, mode))
    BY <1>5 DEF debt
  <2> QED
    BY <1>1, <1>2, <1>4, <1>8, <1>9, <1>10, <2>1, PaymentGoesThrough
<1> QED
  BY <1>11 DEF value, mode, w

\* withdraw() of the whole balance that was taken over.
LEMMA TakenGoesOut ==
    ASSUME GatewayInv, Kept, Ready, IndexesFit, RatesFit, config[WETH].active,
           call.op = "withdraw", call.pool = Pool, call.all,
           call.amount \in 1..reserves[WETH].avail
    PROVE  withdrawOK(Gateway, WETH, call.amount)
<1>1. /\ Inv /\ WETH \in Assets /\ Gateway \in Users
      /\ call.amount \in Nat /\ call.amount # MaxUint
  BY GatewayAssumption DEF GatewayInv, CallTyped, Kept, InTransit
<1>2. PICK q \in 0..reserves[WETH].l[Gateway] :
         call.amount = rayMul(q, getNormalizedIncome(reserves[WETH], now))
  BY DEF Ready
<1>3. whenNotPaused /\ usersConfig[Gateway].borrowing = {}
  BY DEF Ready, Kept, Creditless, flagless, whenNotPaused
<1>4. 0 < call.amount /\ call.amount <= reserves[WETH].avail
  <2>1. reserves[WETH].avail \in Nat
    BY <1>1, ReserveFacts
  <2> QED
    BY <2>1
<1>5. q \in Nat /\ q <= reserves[WETH].l[Gateway]
  <2>1. reserves[WETH].l[Gateway] \in Nat
    BY <1>1, ReserveFacts DEF Good, Market
  <2> QED
    BY <2>1
<1> QED
  BY <1>1, <1>2, <1>3, <1>4, <1>5, PartGoesOut

-----------------------------------------------------------------------------
(* Who pays for a call                                                     *)

\* In n the user has no fewer lTokens than in m and owes no more.
spares(m, n, u) ==
    /\ m.l[u] <= n.l[u]
    /\ n.v[u] <= m.v[u]
    /\ sBalanceOf(n, u, now) <= sBalanceOf(m, u, now)

\* n has followed m in the same block, and spared u.
sparesOn(m, n, u) ==
    /\ Accrued(m, now) /\ Accrued(n, now) /\ spares(m, n, u)
    /\ n.liquidityIndex = m.liquidityIndex
    /\ n.variableBorrowIndex = m.variableBorrowIndex

\* Balances are numbers.
LEMMA SparesTyped ==
    ASSUME Inv, NEW m, Good(m, now), NEW u \in Users
    PROVE  m.l[u] \in Nat /\ m.v[u] \in Nat /\ sBalanceOf(m, u, now) \in Nat
  BY PoolTyped, Balances DEF Good, Market

\* Who is spared twice is spared.
LEMMA SparesTransitive ==
    ASSUME Inv, NEW m, NEW n, NEW k, NEW u \in Users, sparesOn(m, n, u), sparesOn(n, k, u)
    PROVE  sparesOn(m, k, u)
<1>1. /\ m.l[u] \in Nat /\ m.v[u] \in Nat /\ sBalanceOf(m, u, now) \in Nat
      /\ n.l[u] \in Nat /\ n.v[u] \in Nat /\ sBalanceOf(n, u, now) \in Nat
      /\ k.l[u] \in Nat /\ k.v[u] \in Nat /\ sBalanceOf(k, u, now) \in Nat
  BY SparesTyped DEF sparesOn, Accrued
<1>2. spares(m, k, u)
  BY <1>1 DEF sparesOn, spares
<1> QED
  BY <1>2 DEF sparesOn

\* New rates and liquidity that moves touch nobody.
LEMMA QuietlySpares ==
    ASSUME Inv, NEW a \in Assets, NEW m, Accrued(m, now), NEW added \in Nat, NEW taken \in Nat,
           NEW x \in Nat, NEW n, NEW u \in Users,
           \/ ratesOK(m, a, added, taken) /\ n = withRates(m, a, added, taken)
           \/ n = [m EXCEPT !.avail = x]
    PROVE  sparesOn(m, n, u)
<1>1. now \in Nat /\ Good(m, now) /\ m \in Market
  BY PoolTyped DEF Accrued, Good
<1>2. Good(n, now) /\ sameClock(m, n) /\ n.l = m.l
  BY <1>1, RatesGood, AvailGood
<1>3. keepsTokens(m, n)
  BY <1>1, TokensKept DEF withRates
<1>4. sBalanceOf(n, u, now) = sBalanceOf(m, u, now) /\ n.v = m.v
  BY <1>3, StableUnmoved DEF keepsTokens
<1>5. m.l[u] \in Nat /\ m.v[u] \in Nat /\ sBalanceOf(m, u, now) \in Nat
  BY <1>1, SparesTyped
<1> QED
  BY <1>2, <1>4, <1>5 DEF sparesOn, spares, sameClock, Accrued

\* A debt that is burnt is nobody's loss.
LEMMA BurnSpares ==
    ASSUME Inv, NEW m, Accrued(m, now), NEW w \in Users, NEW amount \in Nat,
           NEW mode \in DebtModes, burnDebtOK(m, w, amount, mode),
           NEW n, n = burnDebt(m, w, amount, mode), NEW u \in Users
    PROVE  sparesOn(m, n, u)
<1>1. now \in Nat /\ Good(m, now)
  BY PoolTyped DEF Accrued
<1>2. Accrued(n, now) /\ n.l = m.l
  BY BurnDebt
<1>3. m.variableBorrowIndex \in Nat /\ m.variableBorrowIndex > 0
  BY <1>1, IndexPositive
<1>4. /\ shrinks(m, n, now) /\ n.liquidityIndex = m.liquidityIndex
      /\ n.variableBorrowIndex = m.variableBorrowIndex
  <2>1. CASE mode = "stable"
    <3>1. sBurnOK(m, w, amount, now) /\ n = sBurn(m, w, amount, now)
      BY <2>1 DEF burnDebtOK, burnDebt
    <3>2. /\ Accrued(n, now) /\ n.liquidityIndex = m.liquidityIndex
          /\ n.variableBorrowIndex = m.variableBorrowIndex
      BY <1>1, <3>1, SBurn
    <3> QED
      BY <1>1, <3>1, <3>2, SBurnShrinks DEF Accrued
  <2>2. CASE mode # "stable"
    <3>1. /\ vBurnOK(m, w, amount, m.variableBorrowIndex)
          /\ n = vBurn(m, w, amount, m.variableBorrowIndex)
      BY <2>2 DEF burnDebtOK, burnDebt
    <3> QED
      BY <1>1, <1>3, <3>1, VBurn, VBurnShrinks DEF sameClock
  <2> QED
    BY <2>1, <2>2
<1>5. m.l[u] \in Nat
  BY <1>1, SparesTyped
<1> QED
  BY <1>2, <1>4, <1>5 DEF sparesOn, spares, shrinks

\* A debt that is minted is its debtor's.
LEMMA MintSpares ==
    ASSUME Inv, NEW m, Accrued(m, now), NEW w \in Users, NEW amount \in Nat,
           NEW mode \in DebtModes, mintDebtOK(m, w, amount, mode),
           NEW n, n = mintDebt(m, w, amount, mode), NEW u \in Users, u # w
    PROVE  sparesOn(m, n, u)
<1>1. now \in Nat /\ Good(m, now) /\ m \in Market
  BY PoolTyped DEF Accrued, Good
<1>2. Accrued(n, now) /\ n.l = m.l /\ n.v[u] = m.v[u]
  BY MintDebt DEF othersDebts
<1>3. /\ m.variableBorrowIndex \in Nat /\ m.variableBorrowIndex > 0
      /\ m.currentStableBorrowRate \in Nat
  BY <1>1, IndexPositive
<1>4. /\ sBalanceOf(n, u, now) = sBalanceOf(m, u, now)
      /\ n.liquidityIndex = m.liquidityIndex /\ n.variableBorrowIndex = m.variableBorrowIndex
  <2>1. CASE mode = "stable"
    <3>1. /\ sMintOK(m, w, amount, m.currentStableBorrowRate, now)
          /\ n = sMint(m, w, amount, m.currentStableBorrowRate, now)
      BY <2>1 DEF mintDebtOK, mintDebt
    <3>2. /\ Accrued(n, now) /\ n.liquidityIndex = m.liquidityIndex
          /\ n.variableBorrowIndex = m.variableBorrowIndex
      BY <1>1, <1>3, <3>1, SMint
    <3>3. sBalanceOf(n, u, now) = sBalanceOf(m, u, now)
      BY <1>1, <1>3, <3>1, SMintShown
    <3> QED
      BY <3>2, <3>3
  <2>2. CASE mode # "stable"
    <3>1. n = vMint(m, w, amount, m.variableBorrowIndex)
      BY <2>2 DEF mintDebt
    <3>2. sameStable(m, n)
      BY <1>1, <3>1 DEF vMint, sameStable, Market
    <3> QED
      BY <1>1, <1>3, <3>1, <3>2, VMint, StableUnmoved DEF sameClock
  <2> QED
    BY <2>1, <2>2
<1>5. m.l[u] \in Nat /\ m.v[u] \in Nat /\ sBalanceOf(m, u, now) \in Nat
  BY <1>1, SparesTyped
<1> QED
  BY <1>2, <1>4, <1>5 DEF sparesOn, spares

\* lTokens that are minted, or burnt of others.
LEMMA TokensSpare ==
    ASSUME Inv, NEW m, Accrued(m, now), NEW w \in Users, NEW amount \in Nat,
           NEW n, NEW u \in Users,
           \/ n = lMint(m, w, amount, m.liquidityIndex)
           \/ /\ u # w /\ lBurnOK(m, w, amount, m.liquidityIndex)
              /\ n = lBurn(m, w, amount, m.liquidityIndex)
    PROVE  sparesOn(m, n, u)
<1>1. now \in Nat /\ Good(m, now) /\ m \in Market
  BY PoolTyped DEF Accrued, Good
<1>2. m.liquidityIndex \in Nat /\ m.liquidityIndex > 0
  BY <1>1, RayAssumption DEF Good, aboveRay, Market
<1>3. m.l[u] \in Nat /\ m.v[u] \in Nat /\ sBalanceOf(m, u, now) \in Nat
  BY <1>1, SparesTyped
<1>4. rayDiv(amount, m.liquidityIndex) \in Nat
  BY <1>2, RayDivNat
<1>5. n \in Market /\ addsUp(n) /\ sameClock(m, n) /\ sameDebts(m, n) /\ m.l[u] <= n.l[u]
  <2>1. CASE n = lMint(m, w, amount, m.liquidityIndex)
    <3>1. /\ n \in Market /\ addsUp(n) /\ sameClock(m, n) /\ sameDebts(m, n)
          /\ n.l[w] = m.l[w] + rayDiv(amount, m.liquidityIndex)
          /\ \A x \in Users \ {w} : n.l[x] = m.l[x]
      BY <1>1, <1>2, <2>1, LMint
    <3>2. m.l[u] <= n.l[u]
      BY <1>3, <1>4, <3>1
    <3> QED
      BY <3>1, <3>2
  <2>2. CASE /\ u # w /\ lBurnOK(m, w, amount, m.liquidityIndex)
             /\ n = lBurn(m, w, amount, m.liquidityIndex)
    <3>1. /\ n \in Market /\ addsUp(n) /\ sameClock(m, n) /\ sameDebts(m, n)
          /\ \A x \in Users \ {w} : n.l[x] = m.l[x]
      BY <1>1, <1>2, <2>2, LBurn
    <3>2. m.l[u] <= n.l[u]
      BY <1>3, <2>2, <3>1
    <3> QED
      BY <3>1, <3>2
  <2> QED
    BY <2>1, <2>2
<1>6. sameStable(m, n)
  BY <1>1 DEF lMint, lBurn, sameStable, Market
<1>7. sBalanceOf(n, u, now) = sBalanceOf(m, u, now)
  BY <1>6, StableUnmoved
<1>8. Accrued(n, now)
  BY <1>1, <1>5, SameClockGood DEF Accrued, sameClock
<1> QED
  BY <1>3, <1>5, <1>7, <1>8 DEF sparesOn, spares, sameDebts, sameClock

\* The step leaves the user no poorer, by any rounding.
notPoorer(u) ==
    position(u) \in Int /\ position(u)' \in Int /\ position(u) <= position(u)'

\* A position is what is held less what is owed.
LEMMA PositionKept ==
    ASSUME Inv, Inv', NEW u \in Users, eth[u] \in Nat, eth'[u] \in Nat,
           eth[u] <= eth'[u], wallet[WETH][u] <= wallet'[WETH][u],
           lBalanceOf(reserves[WETH], u, now) <= lBalanceOf(reserves[WETH], u, now)',
           stableDebtOf(WETH, u)' <= stableDebtOf(WETH, u),
           variableDebtOf(WETH, u)' <= variableDebtOf(WETH, u)
    PROVE  notPoorer(u)
<1> DEFINE w == wallet[WETH][u]
           x == wallet'[WETH][u]
           d == lBalanceOf(reserves[WETH], u, now)
           e == lBalanceOf(reserves[WETH], u, now)'
           s == stableDebtOf(WETH, u)
           r == stableDebtOf(WETH, u)'
           v == variableDebtOf(WETH, u)
           z == variableDebtOf(WETH, u)'
<1>1. w \in Nat /\ x \in Nat
  BY GatewayAssumption DEF Inv, TypeOK
<1>2. d \in Nat /\ s \in Nat /\ v \in Nat
  BY GatewayAssumption, ReserveFacts, Balances DEF stableDebtOf, variableDebtOf
<1>3. e \in Nat /\ r \in Nat /\ z \in Nat
  <2>1. Good(reserves'[WETH], now') /\ now' \in Nat
    BY GatewayAssumption DEF Inv, ReservesGood, TypeOK, Good
  <2> QED
    BY <2>1, Balances DEF stableDebtOf, variableDebtOf
<1>4. /\ eth[u] + w + d - s - v \in Int /\ eth'[u] + x + e - r - z \in Int
      /\ eth[u] + w + d - s - v <= eth'[u] + x + e - r - z
  <2>1. w <= x /\ d <= e /\ r <= s /\ z <= v
    OBVIOUS
  <2> HIDE DEF w, x, d, e, s, r, v, z
  <2> QED
    BY <1>1, <1>2, <1>3, <2>1
<1> QED
  BY <1>4 DEF position, notPoorer

\* The accrual that every operation of the pool starts with, and what it does after
\* it, leave a user whose wallets are not emptied no poorer.
LEMMA SparedPosition ==
    ASSUME Inv, Inv', NEW u \in Users, eth[u] \in Nat, eth'[u] \in Nat,
           accrueOK(reserves[WETH], WETH),
           NEW n, sparesOn(accrue(reserves[WETH], WETH), n, u),
           reserves'[WETH] = n, now' = now,
           eth[u] <= eth'[u], wallet[WETH][u] <= wallet'[WETH][u]
    PROVE  notPoorer(u)
<1> DEFINE m == reserves[WETH]
           m1 == accrue(m, WETH)
           rise == getNormalizedIncome(m, now)
           up == getNormalizedDebt(m, now)
           down == newVariableBorrowIndex(m, now)
<1>1. now \in Nat /\ Good(m, now)
  BY GatewayAssumption, ReserveFacts
<1>2. /\ Accrued(m1, now) /\ sameDebts(m, m1) /\ sameStable(m, m1)
      /\ m1.liquidityIndex = rise /\ m1.variableBorrowIndex = down
      /\ \A w \in Users \ {Treasury} : m1.l[w] = m.l[w]
      /\ m.l[Treasury] <= m1.l[Treasury]
  BY <1>1, GatewayAssumption, AccrueGood
<1>3. /\ m.l[u] \in Nat /\ m.v[u] \in Nat
      /\ m1.l[u] \in Nat /\ m1.v[u] \in Nat /\ n.l[u] \in Nat /\ n.v[u] \in Nat
  BY <1>1, <1>2, SparesTyped DEF sparesOn, Accrued
<1>4. m.l[u] <= n.l[u] /\ n.v[u] <= m.v[u]
  <2>1. m.l[u] <= m1.l[u]
    <3>1. CASE u = Treasury
      BY <1>2, <3>1
    <3>2. CASE u # Treasury
      BY <1>2, <1>3, <3>2
    <3> QED
      BY <3>1, <3>2
  <2>2. m1.l[u] <= n.l[u] /\ n.v[u] <= m1.v[u] /\ m1.v[u] = m.v[u]
    BY <1>2 DEF sparesOn, spares, sameDebts
  <2> HIDE DEF m1
  <2> QED
    BY <1>3, <2>1, <2>2
<1>5. rise \in Nat /\ down \in Nat /\ up \in Nat /\ down <= up
  <2>1. rise \in Nat /\ down \in Nat /\ down <= up
    BY <1>1, NewIndexes
  <2>2. up \in Nat
    BY <1>1, NormalizedDebt
  <2> QED
    BY <2>1, <2>2
<1>6. n.lastUpdateTimestamp = now /\ n.liquidityIndex = rise /\ n.variableBorrowIndex = down
  BY <1>2 DEF sparesOn, Accrued
<1>7. lBalanceOf(m, u, now) <= lBalanceOf(reserves[WETH], u, now)'
  <2>1. rayMul(m.l[u], rise) <= rayMul(n.l[u], rise)
    <3> HIDE DEF rise, m
    <3> QED
      BY <1>3, <1>4, <1>5, RayMulMonotone
  <2>2. lBalanceOf(n, u, now) = rayMul(n.l[u], rise)
    BY <1>6 DEF lBalanceOf, getNormalizedIncome
  <2>3. lBalanceOf(reserves[WETH], u, now)' = lBalanceOf(n, u, now)
    OBVIOUS
  <2> QED
    BY <2>1, <2>2, <2>3 DEF lBalanceOf
<1>8. variableDebtOf(WETH, u)' <= variableDebtOf(WETH, u)
  <2>1. rayMul(n.v[u], down) <= rayMul(m.v[u], up)
    <3> HIDE DEF up, down, m
    <3> QED
      BY <1>3, <1>4, <1>5, RayMulMonotone
  <2>2. vBalanceOf(n, u, now) = rayMul(n.v[u], down)
    BY <1>6 DEF vBalanceOf, getNormalizedDebt
  <2>3. variableDebtOf(WETH, u)' = vBalanceOf(n, u, now)
    BY DEF variableDebtOf
  <2> QED
    BY <2>1, <2>2, <2>3 DEF variableDebtOf, vBalanceOf
<1>9. stableDebtOf(WETH, u)' <= stableDebtOf(WETH, u)
  <2>1. sBalanceOf(m1, u, now) = sBalanceOf(m, u, now)
    BY <1>2, StableUnmoved
  <2>2. sBalanceOf(n, u, now) <= sBalanceOf(m1, u, now)
    BY DEF sparesOn, spares
  <2>3. stableDebtOf(WETH, u)' = sBalanceOf(n, u, now)
    BY DEF stableDebtOf
  <2> QED
    BY <2>1, <2>2, <2>3 DEF stableDebtOf
<1> QED
  BY <1>7, <1>8, <1>9, PositionKept


\* The operation leaves the user's tokens of WETH as they were, but for the accrual.
poolSpares(u) ==
    /\ accrueOK(reserves[WETH], WETH) /\ now' = now
    /\ sparesOn(accrue(reserves[WETH], WETH), reserves'[WETH], u)

\* What an operation finds after the accrual.
LEMMA AccruedFacts ==
    ASSUME Inv, accrueOK(reserves[WETH], WETH)
    PROVE  /\ WETH \in Assets /\ now \in Nat
           /\ Accrued(accrue(reserves[WETH], WETH), now)
<1>1. WETH \in Assets
  BY GatewayAssumption
<1>2. now \in Nat /\ Good(reserves[WETH], now)
  BY <1>1, ReserveFacts
<1> QED
  BY <1>1, <1>2, AccrueGood

\* A deposit takes nothing from anybody's tokens.
LEMMA DepositSpares ==
    ASSUME Inv, NEW w \in Users, NEW b \in Users, NEW amount \in Nat,
           deposit(w, WETH, amount, b), NEW u \in Users
    PROVE  poolSpares(u)
<1> DEFINE m1 == accrue(reserves[WETH], WETH)
           r  == withRates(m1, WETH, amount, 0)
           m2 == [r EXCEPT !.avail = @ + amount]
           m3 == lMint(m2, b, amount, m2.liquidityIndex)
<1>1. /\ accrueOK(reserves[WETH], WETH) /\ ratesOK(m1, WETH, amount, 0)
      /\ reserves' = [reserves EXCEPT ![WETH] = m3] /\ now' = now
  BY DEF deposit, environment
<1>2. WETH \in Assets /\ now \in Nat /\ Accrued(m1, now)
  BY <1>1, AccruedFacts
<1>3. reserves'[WETH] = m3
  BY <1>1, <1>2 DEF Inv, TypeOK
<1>4. sparesOn(m1, r, u)
  <2> HIDE DEF m1
  <2> QED
    BY <1>1, <1>2, QuietlySpares
<1>5. sparesOn(r, m2, u)
  <2>1. Accrued(r, now) /\ r.avail + amount \in Nat
    BY <1>4 DEF sparesOn, Accrued, Good, Market
  <2> HIDE DEF r
  <2>2. m2 = [r EXCEPT !.avail = r.avail + amount]
    OBVIOUS
  <2> QED
    BY <1>2, <2>1, <2>2, QuietlySpares
<1>6. sparesOn(m2, m3, u)
  <2>1. Accrued(m2, now)
    BY <1>5 DEF sparesOn
  <2> HIDE DEF m2
  <2> QED
    BY <2>1, TokensSpare
<1>7. sparesOn(m1, m3, u)
  <2> HIDE DEF m1, r, m2, m3
  <2> QED
    BY <1>4, <1>5, <1>6, SparesTransitive
<1> QED
  BY <1>1, <1>3, <1>7 DEF poolSpares

\* A withdrawal takes lTokens from the withdrawer only.
LEMMA WithdrawSpares ==
    ASSUME Inv, NEW w \in Users, NEW amount \in Nat, NEW to,
           withdraw(w, WETH, amount, to), NEW u \in Users, u # w
    PROVE  poolSpares(u)
<1> DEFINE m1 == accrue(reserves[WETH], WETH)
           taken == amountToWithdraw(w, WETH, amount)
           r  == withRates(m1, WETH, 0, taken)
           m2 == lBurn(r, w, taken, r.liquidityIndex)
<1>1. /\ accrueOK(reserves[WETH], WETH) /\ ratesOK(m1, WETH, 0, taken)
      /\ lBurnOK(r, w, taken, r.liquidityIndex)
      /\ reserves' = [reserves EXCEPT ![WETH] = m2] /\ now' = now
  BY DEF withdraw, withdrawOK, reserveToWithdraw, environment
<1>2. WETH \in Assets /\ now \in Nat /\ Accrued(m1, now)
  BY <1>1, AccruedFacts
<1>3. reserves'[WETH] = m2
  BY <1>1, <1>2 DEF Inv, TypeOK
<1>4. taken \in Nat
  BY <1>2, ReserveFacts, Balances DEF amountToWithdraw
<1>5. sparesOn(m1, r, u)
  <2> HIDE DEF m1, taken
  <2> QED
    BY <1>1, <1>2, <1>4, QuietlySpares
<1>6. sparesOn(r, m2, u)
  <2>1. Accrued(r, now)
    BY <1>5 DEF sparesOn
  <2> HIDE DEF r, taken
  <2> QED
    BY <1>1, <1>4, <2>1, TokensSpare
<1>7. sparesOn(m1, m2, u)
  <2> HIDE DEF m1, r, m2
  <2> QED
    BY <1>5, <1>6, SparesTransitive
<1> QED
  BY <1>1, <1>3, <1>7 DEF poolSpares

\* A repayment takes nothing from anybody's tokens.
LEMMA RepaySpares ==
    ASSUME Inv, NEW w \in Users, NEW b \in Users, NEW amount \in Nat, NEW mode \in DebtModes,
           repay(w, WETH, amount, mode, b), NEW u \in Users
    PROVE  poolSpares(u)
<1> DEFINE m1 == accrue(reserves[WETH], WETH)
           paid == min(amount, debtOf(WETH, b, mode))
           m2 == burnDebt(m1, b, paid, mode)
           r  == withRates(m2, WETH, paid, 0)
           m3 == [r EXCEPT !.avail = @ + paid]
<1>1. /\ accrueOK(reserves[WETH], WETH) /\ burnDebtOK(m1, b, paid, mode)
      /\ ratesOK(m2, WETH, paid, 0)
      /\ reserves' = [reserves EXCEPT ![WETH] = m3] /\ now' = now
  BY DEF repay, repayOK, reserveRepaid, environment
<1>2. WETH \in Assets /\ now \in Nat /\ Accrued(m1, now)
  BY <1>1, AccruedFacts
<1>3. reserves'[WETH] = m3
  BY <1>1, <1>2 DEF Inv, TypeOK
<1>4. paid \in Nat
  BY <1>2, DebtsNat DEF min
<1>5. sparesOn(m1, m2, u)
  <2> HIDE DEF m1, paid
  <2> QED
    BY <1>1, <1>2, <1>4, BurnSpares
<1>6. sparesOn(m2, r, u)
  <2>1. Accrued(m2, now)
    BY <1>5 DEF sparesOn
  <2> HIDE DEF m2, paid
  <2> QED
    BY <1>1, <1>2, <1>4, <2>1, QuietlySpares
<1>7. sparesOn(r, m3, u)
  <2>1. Accrued(r, now) /\ r.avail + paid \in Nat
    BY <1>4, <1>6 DEF sparesOn, Accrued, Good, Market
  <2> HIDE DEF r, paid
  <2>2. m3 = [r EXCEPT !.avail = r.avail + paid]
    OBVIOUS
  <2> QED
    BY <1>2, <2>1, <2>2, QuietlySpares
<1>8. sparesOn(m1, m3, u)
  <2> HIDE DEF m1, m2, r, m3
  <2> QED
    BY <1>5, <1>6, <1>7, SparesTransitive
<1> QED
  BY <1>1, <1>3, <1>8 DEF poolSpares

\* A loan is the debt of the one it is taken for.
LEMMA BorrowSpares ==
    ASSUME Inv, NEW w \in Users, NEW b \in Users, NEW amount \in Nat, NEW mode \in DebtModes,
           borrow(w, WETH, amount, mode, b), NEW u \in Users, u # b
    PROVE  poolSpares(u)
<1> DEFINE m1 == accrue(reserves[WETH], WETH)
           m2 == mintDebt(m1, b, amount, mode)
           r  == withRates(m2, WETH, 0, amount)
           m3 == [r EXCEPT !.avail = @ - amount]
<1>1. /\ accrueOK(reserves[WETH], WETH) /\ mintDebtOK(m1, b, amount, mode)
      /\ ratesOK(m2, WETH, 0, amount)
      /\ reserves' = [reserves EXCEPT ![WETH] = m3] /\ now' = now
  BY DEF borrow, _executeBorrow, environment
<1>2. WETH \in Assets /\ now \in Nat /\ Accrued(m1, now)
  BY <1>1, AccruedFacts
<1>3. reserves'[WETH] = m3
  BY <1>1, <1>2 DEF Inv, TypeOK
<1>4. sparesOn(m1, m2, u)
  <2> HIDE DEF m1
  <2> QED
    BY <1>1, <1>2, MintSpares
<1>5. sparesOn(m2, r, u)
  <2>1. Accrued(m2, now)
    BY <1>4 DEF sparesOn
  <2> HIDE DEF m2
  <2> QED
    BY <1>1, <1>2, <2>1, QuietlySpares
<1>6. sparesOn(r, m3, u)
  <2>1. Accrued(r, now) /\ r.avail - amount \in Nat
    <3>1. Good(m2, now) /\ Accrued(m2, now) /\ Accrued(r, now)
      BY <1>4, <1>5 DEF sparesOn, Accrued
    <3>2. ASSUME NEW k, k = r
          PROVE  amount <= k.avail + 0
      <4> HIDE DEF m2
      <4> QED
        BY <1>1, <1>2, <3>1, <3>2, RatesGood
    <3>3. r.avail \in Nat
      BY <3>1 DEF Accrued, Good, Market
    <3> QED
      BY <3>1, <3>2, <3>3
  <2> HIDE DEF r
  <2>2. m3 = [r EXCEPT !.avail = r.avail - amount]
    OBVIOUS
  <2> QED
    BY <1>2, <2>1, <2>2, QuietlySpares
<1>7. sparesOn(m1, m3, u)
  <2> HIDE DEF m1, m2, r, m3
  <2> QED
    BY <1>4, <1>5, <1>6, SparesTransitive
<1> QED
  BY <1>1, <1>3, <1>7 DEF poolSpares


\* lTokens that others move are not the user's.
LEMMA TransferPosition ==
    ASSUME Inv, Inv', NEW w \in Users, NEW to \in Users, NEW amount \in Nat,
           transfer(w, WETH, to, amount), NEW u \in Users, u # w, u # to,
           eth[u] \in Nat, eth'[u] = eth[u]
    PROVE  notPoorer(u)
<1> DEFINE m == reserves[WETH]
           index == getNormalizedIncome(m, now)
           n == lTransfer(m, w, to, amount, index)
<1>1. /\ lTransferOK(m, w, amount, index) /\ wallet' = wallet /\ now' = now
      /\ reserves' = [reserves EXCEPT ![WETH] = n]
  BY DEF transfer, environment
<1>2. WETH \in Assets /\ now \in Nat /\ Good(m, now) /\ m \in Market
  BY GatewayAssumption, ReserveFacts DEF Good
<1>3. reserves'[WETH] = n
  BY <1>1, <1>2 DEF Inv, TypeOK
<1>4. index \in Nat /\ index > 0
  BY <1>2, NormalizedIncome, RayAssumption DEF Good, aboveRay, Market
<1>5. sameClock(m, n) /\ sameDebts(m, n) /\ sameRate(m, n) /\ keepsTokens(m, n)
  <2> HIDE DEF index, m
  <2> QED
    BY <1>1, <1>2, <1>4, LTransfer, TransferKeeps
<1>6. n.l[u] = m.l[u]
  <2>1. m.l \in [Users -> Nat]
    BY <1>2 DEF Market
  <2> QED
    BY <1>2, <2>1 DEF lTransfer, Market
<1>7. lBalanceOf(n, u, now) = lBalanceOf(m, u, now)
  BY <1>5, <1>6 DEF lBalanceOf, getNormalizedIncome, sameClock, sameRate
<1>8. vBalanceOf(n, u, now) = vBalanceOf(m, u, now)
  BY <1>5 DEF vBalanceOf, getNormalizedDebt, sameClock, sameRate, sameDebts
<1>9. sBalanceOf(n, u, now) = sBalanceOf(m, u, now)
  BY <1>5, StableUnmoved DEF keepsTokens
<1>10. lBalanceOf(m, u, now) \in Nat /\ vBalanceOf(m, u, now) \in Nat
       /\ sBalanceOf(m, u, now) \in Nat /\ wallet[WETH][u] \in Nat
  BY <1>2, Balances, PoolTyped
<1>11. /\ lBalanceOf(reserves[WETH], u, now) <= lBalanceOf(reserves[WETH], u, now)'
       /\ stableDebtOf(WETH, u)' <= stableDebtOf(WETH, u)
       /\ variableDebtOf(WETH, u)' <= variableDebtOf(WETH, u)
  <2>1. /\ lBalanceOf(reserves[WETH], u, now)' = lBalanceOf(n, u, now)
        /\ stableDebtOf(WETH, u)' = sBalanceOf(n, u, now)
        /\ variableDebtOf(WETH, u)' = vBalanceOf(n, u, now)
    BY <1>1, <1>3 DEF stableDebtOf, variableDebtOf
  <2> HIDE DEF n
  <2> QED
    BY <1>7, <1>8, <1>9, <1>10, <2>1 DEF stableDebtOf, variableDebtOf
<1>12. eth'[u] \in Nat /\ eth[u] <= eth'[u] /\ wallet[WETH][u] <= wallet'[WETH][u]
  BY <1>1, <1>10
<1> QED
  BY <1>11, <1>12, PositionKept

\* Currency that moves between others, in a pool that stands still.
LEMMA StandingPosition ==
    ASSUME Inv, Inv', NEW u \in Users, eth[u] \in Nat, eth'[u] \in Nat,
           reserves' = reserves, now' = now,
           eth[u] <= eth'[u], wallet[WETH][u] <= wallet'[WETH][u]
    PROVE  notPoorer(u)
<1>1. WETH \in Assets /\ now \in Nat /\ Good(reserves[WETH], now)
  BY GatewayAssumption, ReserveFacts
<1>2. /\ lBalanceOf(reserves[WETH], u, now) \in Nat
      /\ stableDebtOf(WETH, u) \in Nat /\ variableDebtOf(WETH, u) \in Nat
  BY <1>1, Balances DEF stableDebtOf, variableDebtOf
<1>3. /\ lBalanceOf(reserves[WETH], u, now)' = lBalanceOf(reserves[WETH], u, now)
      /\ stableDebtOf(WETH, u)' = stableDebtOf(WETH, u)
      /\ variableDebtOf(WETH, u)' = variableDebtOf(WETH, u)
  BY DEF stableDebtOf, variableDebtOf
<1> QED
  BY <1>2, <1>3, PositionKept

\* The other tokens of the gateway are in other accounts.
LEMMA WalletAside ==
    ASSUME Inv, NEW x, wallet' = [wallet EXCEPT ![WETH][Gateway] = x],
           NEW u \in Users, u # Gateway
    PROVE  wallet[WETH][u] <= wallet'[WETH][u]
<1>1. wallet[WETH][u] \in Nat /\ wallet'[WETH][u] = wallet[WETH][u]
  BY GatewayAssumption, PoolTyped
<1> QED
  BY <1>1

\* Native currency that a caller sends is not another's.
LEMMA WrapPosition ==
    ASSUME Inv, Inv', EthTyped, NEW sender \in Users, sender # Gateway, NEW value \in Nat,
           NEW amount \in Nat, wrap(sender, value, amount), NEW u \in People, u # sender
    PROVE  notPoorer(u)
<1>1. /\ u \in Users /\ u # Gateway /\ eth \in [Users -> Nat]
  BY DEF People, EthTyped
<1>2. /\ wallet' = [wallet EXCEPT ![WETH][Gateway] = wallet[WETH][Gateway] + amount]
      /\ reserves' = reserves /\ now' = now
  BY DEF wrap, environment
<1>3. eth[u] <= eth'[u] /\ eth' \in [Users -> Nat]
  BY <1>1, Wrapped DEF EthTyped
<1>4. wallet[WETH][u] <= wallet'[WETH][u]
  BY <1>1, <1>2, WalletAside
<1>5. eth[u] \in Nat /\ eth'[u] \in Nat
  BY <1>1, <1>3
<1> QED
  BY <1>1, <1>2, <1>3, <1>4, <1>5, StandingPosition

\* What another contract takes from the gateway or pays to it is not another's.
LEMMA OtherPosition ==
    ASSUME Inv, Inv', EthTyped, NEW amount, otherTakes(amount) \/ otherPays(amount),
           eth' = eth, NEW u \in People
    PROVE  notPoorer(u)
<1>1. u \in Users /\ u # Gateway /\ eth[u] \in Nat
  BY DEF People, EthTyped
<1>2. PICK x : /\ wallet' = [wallet EXCEPT ![WETH][Gateway] = x]
               /\ reserves' = reserves /\ now' = now
  BY DEF otherTakes, otherPays, setGatewayWETH, environment
<1>3. wallet[WETH][u] <= wallet'[WETH][u]
  BY <1>1, <1>2, WalletAside
<1> QED
  BY <1>1, <1>2, <1>3, StandingPosition

\* The first step of a call is paid by its sender.
LEMMA StartPaid ==
    ASSUME GatewayInv, GatewayInv', EthTyped, startCall, NEW u \in People, u # call'.sender
    PROVE  notPoorer(u)
<1>1. /\ WETH \in Assets /\ Gateway \in Users /\ Values \subseteq Nat
      /\ Amounts \subseteq Nat /\ AmountArgs \subseteq Nat
  BY StartCases
<1>2. /\ Inv /\ Inv' /\ u \in Users /\ u # Gateway /\ eth[u] \in Nat
  BY DEF GatewayInv, EthTyped, People
<1>3. PICK pool \in {Pool} \cup OtherPools, sender \in People, other \in Users :
         /\ sender \in Users /\ sender # Gateway
         /\ \/ \E value \in Values : depositETH(pool, sender, value, other)
            \/ \E amount \in AmountArgs :
                 other # Gateway /\ withdrawETH(pool, sender, amount, other)
            \/ \E value \in Values, amount \in AmountArgs, mode \in DebtModes :
                 repayETH(pool, sender, value, amount, mode, other)
            \/ \E amount \in Amounts, mode \in DebtModes : borrowETH(pool, sender, amount, mode)
  BY StartCases
<1>4. ASSUME NEW value \in Values, depositETH(pool, sender, value, other)
      PROVE  notPoorer(u)
  <2>1. wrap(sender, value, value) /\ call'.sender = sender /\ value \in Nat
    BY <1>1, <1>4 DEF depositETH
  <2> QED
    BY <1>2, <1>3, <2>1, WrapPosition
<1>5. ASSUME NEW amount \in AmountArgs, withdrawETH(pool, sender, amount, other)
      PROVE  notPoorer(u)
  <2> DEFINE taken == amountToWithdraw(sender, WETH, amount)
  <2>1. /\ call'.sender = sender /\ eth' = eth
        /\ transfer(sender, WETH, Gateway, taken) \/ UNCHANGED vars
    BY <1>5 DEF withdrawETH
  <2>2. taken \in Nat
    BY <1>1, <1>2, <1>3, TakenNat
  <2> HIDE DEF taken
  <2>3. u # sender /\ eth'[u] = eth[u]
    BY <2>1
  <2>4. CASE transfer(sender, WETH, Gateway, taken)
    BY <1>1, <1>2, <1>3, <2>2, <2>3, <2>4, TransferPosition
  <2>5. CASE UNCHANGED vars
    <3>1. reserves' = reserves /\ now' = now /\ wallet' = wallet
      BY <2>5 DEF vars
    <3>2. wallet[WETH][u] \in Nat
      BY <1>1, <1>2, PoolTyped
    <3> QED
      BY <1>2, <2>3, <3>1, <3>2, StandingPosition
  <2> QED
    BY <2>1, <2>4, <2>5
<1>6. ASSUME NEW value \in Values, NEW amount \in AmountArgs, NEW mode \in DebtModes,
             repayETH(pool, sender, value, amount, mode, other)
      PROVE  notPoorer(u)
  <2>1. PICK payback \in IF pool = Pool THEN {paybackAmount(amount, other, mode)}
                                        ELSE {0, amount} :
          wrap(sender, value, payback) /\ call'.sender = sender
    BY <1>6 DEF repayETH
  <2>2. paybackAmount(amount, other, mode) \in Nat /\ amount \in Nat /\ value \in Nat
    BY <1>1, <1>2, PaybackNat
  <2>3. payback \in Nat
    BY <2>1, <2>2
  <2> QED
    BY <1>2, <1>3, <2>1, <2>2, <2>3, WrapPosition
<1>7. ASSUME NEW amount \in Amounts, NEW mode \in DebtModes,
             borrowETH(pool, sender, amount, mode)
      PROVE  notPoorer(u)
  <2>1. /\ amount \in Nat /\ call'.sender = sender /\ eth' = eth
        /\ borrow(Gateway, WETH, amount, mode, sender) \/ otherPays(amount)
    BY <1>1, <1>7 DEF borrowETH, borrowing
  <2>2. CASE otherPays(amount)
    BY <1>2, <2>1, <2>2, OtherPosition
  <2>3. CASE borrow(Gateway, WETH, amount, mode, sender)
    <3>1. u # sender
      BY <2>1
    <3>2. poolSpares(u)
      BY <1>1, <1>2, <1>3, <2>1, <2>3, <3>1, BorrowSpares
    <3>3. wallet' = [wallet EXCEPT ![WETH][Gateway] = @ + amount]
      BY <2>3 DEF borrow, _executeBorrow
    <3>4. wallet[WETH][u] <= wallet'[WETH][u]
      BY <1>2, <3>3, WalletAside
    <3>5. eth[u] <= eth'[u] /\ eth'[u] \in Nat
      BY <1>2, <2>1
    <3> QED
      BY <1>2, <3>2, <3>4, <3>5, SparedPosition DEF poolSpares
  <2> QED
    BY <2>1, <2>2, <2>3
<1> QED
  BY <1>3, <1>4, <1>5, <1>6, <1>7

\* The other steps of a call are paid by nobody but the gateway.
LEMMA ContinuePaid ==
    ASSUME GatewayInv, GatewayInv', Kept, continueCall, NEW u \in People
    PROVE  notPoorer(u)
<1>1. /\ Inv /\ Inv' /\ CallTyped /\ CallParts /\ EthTyped /\ eth \in [Users -> Nat]
      /\ Gateway \in Users /\ WETH \in Assets
      /\ u \in Users /\ u # Gateway /\ eth[u] \in Nat
  BY GatewayAssumption DEF GatewayInv, Kept, EthTyped, People
<1>2. ASSUME poolSpares(u), NEW x, wallet' = [wallet EXCEPT ![WETH][Gateway] = x], eth' = eth
      PROVE  notPoorer(u)
  <2>1. wallet[WETH][u] <= wallet'[WETH][u]
    BY <1>1, <1>2, WalletAside
  <2>2. eth[u] <= eth'[u] /\ eth'[u] \in Nat
    BY <1>1, <1>2
  <2> QED
    BY <1>1, <1>2, <2>1, <2>2, SparedPosition DEF poolSpares
<1>3. ASSUME NEW amount, otherTakes(amount) \/ otherPays(amount), eth' = eth
      PROVE  notPoorer(u)
  BY <1>1, <1>3, OtherPosition
<1>4. CASE depositWrapped
  <2>1. /\ eth' = eth /\ call.amount \in Nat /\ call.onBehalfOf \in Users
        /\ \/ deposit(Gateway, WETH, call.amount, call.onBehalfOf)
           \/ otherTakes(call.amount)
    BY <1>1, <1>4 DEF depositWrapped, CallTyped
  <2>2. CASE deposit(Gateway, WETH, call.amount, call.onBehalfOf)
    <3>1. wallet' = [wallet EXCEPT ![WETH][Gateway] = @ - call.amount]
      BY <2>2 DEF deposit
    <3>2. poolSpares(u)
      BY <1>1, <2>1, <2>2, DepositSpares
    <3> QED
      BY <1>2, <2>1, <3>1, <3>2
  <2> QED
    BY <1>3, <2>1, <2>2
<1>5. CASE withdrawReceived
  <2>1. /\ eth' = eth /\ call.amount \in Nat
        /\ withdraw(Gateway, WETH, call.amount, Gateway) \/ otherPays(call.amount)
    BY <1>1, <1>5 DEF withdrawReceived, CallTyped
  <2>2. CASE withdraw(Gateway, WETH, call.amount, Gateway)
    <3>1. wallet' = [wallet EXCEPT ![WETH][Gateway] =
                       @ + amountToWithdraw(Gateway, WETH, call.amount)]
      BY <2>2 DEF withdraw
    <3>2. poolSpares(u)
      BY <1>1, <2>1, <2>2, WithdrawSpares
    <3> QED
      BY <1>2, <2>1, <3>1, <3>2
  <2> QED
    BY <1>3, <2>1, <2>2
<1>6. CASE repayWrapped
  <2>1. /\ eth' = eth
        /\ call.value \in Nat /\ call.mode \in DebtModes /\ call.onBehalfOf \in Users
        /\ \/ repay(Gateway, WETH, call.value, call.mode, call.onBehalfOf)
           \/ \E amount : otherTakes(amount)
    BY <1>1, <1>6 DEF repayWrapped, CallTyped
  <2>2. CASE repay(Gateway, WETH, call.value, call.mode, call.onBehalfOf)
    <3>1. wallet' = [wallet EXCEPT ![WETH][Gateway] =
                       @ - min(call.value, debtOf(WETH, call.onBehalfOf, call.mode))]
      BY <2>2 DEF repay
    <3>2. poolSpares(u)
      BY <1>1, <2>1, <2>2, RepaySpares
    <3> QED
      BY <1>2, <2>1, <3>1, <3>2
  <2> QED
    BY <1>3, <2>1, <2>2
<1>7. CASE refund
  <2> DEFINE less == eth[Gateway] - call.amount
             more == eth[call.sender] + call.amount
  <2>1. /\ eth' = [eth EXCEPT ![Gateway] = less, ![call.sender] = more]
        /\ reserves' = reserves /\ now' = now /\ wallet' = wallet
        /\ call.amount <= eth[Gateway]
    BY <1>7 DEF refund, vars
  <2>2. call.sender \in Users /\ call.sender # Gateway /\ call.amount \in Nat
    BY <1>1, <1>7 DEF refund, CallParts, People
  <2>3. less \in Nat /\ more \in Nat /\ eth[call.sender] <= more
    BY <1>1, <2>1, <2>2
  <2> HIDE DEF less, more
  <2>4. eth' \in [Users -> Nat] /\ eth[u] <= eth'[u]
    BY <1>1, <2>1, <2>2, <2>3, OneRises
  <2>5. wallet[WETH][u] <= wallet'[WETH][u] /\ eth'[u] \in Nat
    <3>1. wallet[WETH][u] \in Nat
      BY <1>1, PoolTyped
    <3> QED
      BY <1>1, <2>1, <2>4, <3>1
  <2> QED
    BY <1>1, <2>1, <2>4, <2>5, StandingPosition
<1>8. CASE unwrapAndSend
  <2>1. /\ eth' = [eth EXCEPT ![call.to] = @ + call.amount]
        /\ wallet' = [wallet EXCEPT ![WETH][Gateway] = @ - call.amount]
        /\ reserves' = reserves /\ now' = now
        /\ call.to \in Users /\ call.amount \in Nat
    BY <1>1, <1>8 DEF unwrapAndSend, environment, CallTyped
  <2>2. eth'[u] \in Nat /\ eth[u] <= eth'[u]
    <3>1. CASE u = call.to
      BY <1>1, <2>1, <3>1
    <3>2. CASE u # call.to
      BY <1>1, <2>1, <3>2
    <3> QED
      BY <3>1, <3>2
  <2>3. wallet[WETH][u] <= wallet'[WETH][u]
    BY <1>1, <2>1, WalletAside
  <2> QED
    BY <1>1, <2>1, <2>2, <2>3, StandingPosition
<1> QED
  BY <1>4, <1>5, <1>6, <1>7, <1>8 DEF continueCall

\* Whoever does not start a call loses nothing by it.
LEMMA CallPaid ==
    ASSUME GatewayInv, GatewayInv', Kept, GatewayNext, call # idle \/ call' # idle,
           NEW u \in People
    PROVE  (call = idle /\ u = call'.sender) \/ notPoorer(u)
<1>1. ASSUME NEW w, NEW amount, call = idle, approve(w, amount)
      PROVE  FALSE
  BY <1>1 DEF approve
<1>2. CASE call = idle /\ startCall
  BY <1>2, StartPaid DEF Kept
<1>3. CASE call = idle /\ poolStep
  BY <1>3 DEF poolStep
<1>4. CASE continueCall
  BY <1>4, ContinuePaid
<1>5. ASSUME call = idle, NEW w \in People,
             \/ \E amount \in Gifts : sendToGateway(w, amount)
             \/ \E a \in Assets, amount \in Gifts \cup Amounts :
                  emergencyTokenTransfer(a, w, amount)
             \/ \E amount \in Gifts \cup Amounts : emergencyEtherTransfer(w, amount)
      PROVE  FALSE
  <2>1. call' = call
    BY <1>5 DEF sendToGateway, emergencyTokenTransfer, emergencyEtherTransfer
  <2> QED
    BY <1>5, <2>1
<1> QED
  BY <1>1, <1>2, <1>3, <1>4, <1>5, GatewayCases

-----------------------------------------------------------------------------
(* The theorems                                                            *)

\* Before its first call the gateway is idle.
LEMMA GatewayStart == GatewayInit => GatewayInv
<1>1. GatewayInit => Init
  BY DEF GatewayInit
<1>2. GatewayInit => CallTyped
  BY DEF GatewayInit, idle, CallTyped
<1> QED
  BY <1>1, <1>2, InvInit DEF GatewayInv

\* The invariant is inductive for the composition.
LEMMA GatewayInvariance == GatewaySpec => []GatewayInv
<1>1. GatewayInv /\ [GatewayNext]_gatewayVars => GatewayInv'
  BY GatewayStep
<1> QED
  BY GatewayStart, <1>1, PTL DEF GatewaySpec

(* The pool keeps its types under every mixture of direct calls and calls  *)
(* of the gateway: what the gateway computes and passes on is an amount.   *)
THEOREM GatewayTypeCorrect == GatewaySpec => []TypeOK
<1>1. GatewayInv => TypeOK
  BY DEF GatewayInv, Inv
<1> QED
  BY GatewayInvariance, <1>1, PTL

(* The gateway borrows for its caller only, within the credit the caller   *)
(* approved: no mixture of direct calls and calls of the gateway puts a    *)
(* debt on anybody else.                                                   *)
THEOREM GatewayDebtsTaken == GatewaySpec => DebtConsented
<1>1. GatewayInv /\ [GatewayNext]_gatewayVars =>
        \A a \in Assets, u \in Users, mode \in DebtModes :
          debtGrows(a, u, mode) => Consent(a, u, mode)
  BY GatewayStep DEF DebtsConsented
<1> QED
  BY GatewayInvariance, <1>1, PTL DEF GatewaySpec, DebtConsented

(* Nor does a call of the gateway take a depositor's income.               *)
THEOREM GatewayDepositsKept == GatewaySpec => DepositsNeverShrink
<1>1. GatewayInv /\ [GatewayNext]_gatewayVars =>
        \A a \in Assets, u \in Users :
          reserves[a].l[u] > 0 /\ reserves'[a].l[u] = reserves[a].l[u] =>
            lBalanceOf(reserves[a], u, now) <= lBalanceOf(reserves'[a], u, now')
  BY GatewayStep, DepositKept DEF GatewayInv
<1> QED
  BY GatewayInvariance, <1>1, PTL DEF GatewaySpec, DepositsNeverShrink

(* The scaled supplies stay the sums of the scaled balances when the       *)
(* gateway deposits, withdraws, borrows and repays for its callers.        *)
THEOREM GatewaySupplies == GatewaySpec => []SuppliesAddUp
<1>1. GatewayInv => SuppliesAddUp
  BY GoodAddsUp DEF GatewayInv, Inv
<1> QED
  BY GatewayInvariance, <1>1, PTL

\* The gateway owes nothing.
Debtless == reserves[WETH].s[Gateway] = 0 /\ reserves[WETH].v[Gateway] = 0

(* The gateway never owes anything, since no operation of others in the    *)
(* pool makes it a debtor; and what a call through the pool leaves with it *)
(* is what was there before. Each step of a call takes out of the gateway  *)
(* exactly what the step before put there, although the pool computes on   *)
(* its own what it takes for a repayment and how much of the scaled        *)
(* balance a withdrawal burns, whatever else the gateway holds: tokens     *)
(* sent to it, or left by calls that went to another contract. Only a      *)
(* repayment may take more, as GatewayKeepsNothing says.                   *)
THEOREM GatewayEmpty == GatewaySpec => GatewayKeepsNothing
<1>1. GatewayInit => GatewayInv /\ Kept
  BY GatewayStart, KeptStart
<1>2. (GatewayInv /\ Kept) /\ [GatewayNext]_gatewayVars => (GatewayInv /\ Kept)'
  BY GatewayStep, KeptStep
<1>3. GatewayInv /\ Kept => Debtless
  BY NoDebts DEF GatewayInv, Kept, Debtless
<1>4. (GatewayInv /\ Kept)' => Debtless'
  BY <1>3, PTL
<1>5. (GatewayInv /\ Kept) /\ (GatewayInv /\ Kept)' /\ [GatewayNext]_gatewayVars
      => [ LET m  == reserves'[WETH]
               h  == call.held
           IN  /\ m.s[Gateway] = 0 /\ m.v[Gateway] = 0
               /\ call # idle /\ call' = idle /\ call.pool = Pool =>
                    /\ eth'[Gateway] = h.native
                    /\ \/ m.l[Gateway] = h.scaled
                       \/ call.op = "deposit" /\ call.onBehalfOf = Gateway
                    /\ \/ wallet'[WETH][Gateway] = h.wrapped
                       \/ /\ call.op = "refund" /\ ~call.whole
                          /\ wallet'[WETH][Gateway] < h.wrapped ]_gatewayVars
  BY <1>4, KeptStep DEF leavesNothing, Debtless
<1> QED
  BY <1>1, <1>2, <1>5, PTL DEF GatewaySpec, GatewayKeepsNothing

(* What a call of the gateway has begun goes through in the pool: a        *)
(* repayment that covers the debt or is all that was sent, and the         *)
(* withdrawal of a whole balance. The pool reads the debt that the gateway *)
(* has read, the lTokens a user had are worth the same in the gateway,     *)
(* nothing pauses the pool or leaves a flash loan half lent in between,    *)
(* and the gateway has no debt that its collateral would have to cover.    *)
(* Besides the width of the numbers, what is sent must not be the amount   *)
(* that stands for everything, and the debt shown must be booked.          *)
THEOREM GatewayCallsGoThrough ==
    ValuesFit /\ GatewaySpec =>
      [](IndexesFit /\ RatesFit /\ PartAveragesFit /\ Earning /\ Burnable /\ config[WETH].active
           => CallsGoThrough)
<1>1. GatewayInit => GatewayInv /\ Kept /\ Ready
  BY GatewayStart, KeptStart, ReadyStart
<1>2. (GatewayInv /\ Kept /\ Ready) /\ [GatewayNext]_gatewayVars
        => (GatewayInv /\ Kept /\ Ready)'
  BY GatewayStep, KeptStep, ReadyStep
<1>3. ValuesFit /\ GatewayInv /\ Kept /\ Ready =>
        (IndexesFit /\ RatesFit /\ PartAveragesFit /\ Earning /\ Burnable /\ config[WETH].active
           => CallsGoThrough)
  BY PaybackGoesThrough, TakenGoesOut DEF CallsGoThrough
<1>4. ValuesFit /\ GatewaySpec => []ValuesFit
  <2>1. ValuesFit => ValuesFit'
    BY DEF ValuesFit
  <2> QED
    BY <2>1, PTL
<1> QED
  BY <1>1, <1>2, <1>3, <1>4, PTL DEF GatewaySpec

\* A call leaves nobody but its caller poorer, and not even by rounding.
OnlyCallerPays ==
    [][call # idle \/ call' # idle =>
         \A u \in People : (call = idle /\ u = call'.sender) \/ notPoorer(u)]_gatewayVars

\* Calls of the gateway are paid by their callers: depositETH, repayETH and
\* withdrawETH for somebody else, and borrowETH on the credit of its caller, leave
\* everybody else with as much as before.
THEOREM GatewayCallerPays == GatewaySpec => OnlyCallerPays /\ CallerPays
<1>1. GatewayInit => GatewayInv /\ Kept
  BY GatewayStart, KeptStart
<1>2. GatewayInv /\ Kept /\ [GatewayNext]_gatewayVars => (GatewayInv /\ Kept)'
  BY GatewayStep, KeptStep
<1>3. GatewayInv /\ GatewayInv' /\ Kept /\ [GatewayNext]_gatewayVars
      => [call # idle \/ call' # idle =>
            \A u \in People : (call = idle /\ u = call'.sender) \/ notPoorer(u)]_gatewayVars
  BY CallPaid
<1>4. GatewayInv /\ GatewayInv' /\ Kept /\ [GatewayNext]_gatewayVars
      => [call # idle \/ call' # idle =>
            \A u \in People : \/ call = idle /\ u = call'.sender
                              \/ position(u) <= position(u)' + Dust]_gatewayVars
  <2>1. ASSUME NEW u \in People, notPoorer(u)
        PROVE  position(u) <= position(u)' + Dust
    <3> DEFINE p == position(u)
               q == position(u)'
    <3>1. p \in Int /\ q \in Int /\ p <= q /\ Dust \in Nat
      BY <2>1, DustAssumption DEF notPoorer
    <3> HIDE DEF p, q
    <3>2. p <= q + Dust
      BY <3>1
    <3> QED
      BY <3>2 DEF p, q
  <2> QED
    BY <1>3, <2>1
<1> QED
  BY <1>1, <1>2, <1>3, <1>4, PTL DEF GatewaySpec, OnlyCallerPays, CallerPays
=============================================================================
