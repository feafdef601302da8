------------------------------- MODULE Lease -------------------------------
(***************************************************************************)
(* The life of one lease, protocol/contracts/lease: opening, repayment,    *)
(* the watch on the position's debt, liquidation, the customer's closing   *)
(* and the end.  Each contract call is one action: the messages it sends   *)
(* to the pool, the profit, the reserve and the alarm contracts execute    *)
(* within the same transaction, or all of it reverts.                      *)
(*                                                                         *)
(* A swap on the remote network is a pair of actions, its start and its    *)
(* finish, and anything may happen in between; module Dex models how it    *)
(* gets from the one to the other.  The pool's loan is the arithmetic of   *)
(* module LppLoan.                                                         *)
(***************************************************************************)
EXTENDS Position

CONSTANTS
    LoanRate,           \* Percent, the pool's annual rate of the loan
    Downpayments,       \* amounts in LPN
    MaxLtds,            \* max_ltd of the forms, 0 for None
    Payments,           \* LPN amounts of repayments
    SwapPayments,       \* LPN worth of repayments in other currencies
    CloseAmounts,       \* asset amounts of partial closings
    Policies,           \* close policies a customer may set
    Donations,          \* LPN somebody sends to the lease's account
    Yields,             \* permilles of its value that a swap may yield
    Prices,             \* of one asset unit, in LPN
    ReserveFunds,       \* LPN the reserve starts with
    MaxTime             \* bound: the last moment of the model

VARIABLES
    state,              \* the contract's state and the amount being sold
    position,           \* the position, held by the lease's dex account
    loan,               \* the pool's loan, the pool's copy
    margin_paid_by,     \* LoanDTO::margin_paid_by
    account,            \* LPN balance of the lease's account
    alarms,             \* what the oracle and the timealarms keep for the lease
    reserve,            \* LPN balance of the reserve
    sent,               \* LPN the last transaction sent to the pool and the profit
    price,              \* the oracle's price
    now                 \* block time

vars == <<state, position, loan, margin_paid_by, account, alarms, reserve,
          sent, price, now>>

ASSUME LeaseAssumption ==
    /\ LoanRate \in Nat
    /\ \A amounts \in {Downpayments, Payments, SwapPayments, CloseAmounts,
                       Donations} : amounts \subseteq Nat \ {0}
    /\ MaxLtds \subseteq Nat
    /\ Policies \subseteq [take_profit : Nat, stop_loss : Nat]
    /\ Yields \subseteq 1 .. HUNDRED
    /\ Prices \subseteq [amount : Nat \ {0}, quote : Nat \ {0}]
    /\ ReserveFunds \in Nat
    /\ MaxTime \in Nat

NoAlarms == [below |-> NoPrice, above |-> NoCeiling, time |-> Never,
             set_at |-> Never]

SaleStates == {"PartialLiquidation", "FullLiquidation", "PartialClose",
               "FullClose"}

FinalStates == {"Closed", "Liquidated"}

\* An opened lease, with or without a swap in progress
OpenedStates == SaleStates \cup {"OpenedActive", "BuyLpn"}

States == OpenedStates \cup FinalStates
              \cup {"Init", "BuyAsset", "PaidActive", "ClosingTransferIn"}

At(name) == [at |-> name, amount |-> 0]

\* The due of the loan as the pool has it
Due == LoanState(loan, margin_paid_by, now)

\* Lease::check_close_policy at this moment
Status == CheckClosePolicy(position, Due, loan.annual_interest_rate, price)

\* mutant: no time alarm is set
AlarmsOfNoTime(pos, due, rate) ==
    LET steadiness == Steadiness(pos, due, rate, price)
    IN  [below |-> steadiness.below, above |-> steadiness.above,
         time |-> Never, set_at |-> now]

\* Steadiness::try_into_alarms: one time alarm and one price alarm replace
\* the earlier ones
AlarmsOf(pos, due, rate) ==
    LET steadiness == Steadiness(pos, due, rate, price)
    IN  [below |-> steadiness.below, above |-> steadiness.above,
         time |-> now + steadiness.for, set_at |-> now]

PriceLt(p, q) == p.quote * q.amount < q.quote * p.amount

\* The oracle has the alarm to deliver; external
PriceAlarmDue ==
    PriceLt(price, alarms.below) \/ ~PriceLt(price, alarms.above)

\* The timealarms contract has the alarm to deliver; external
TimeAlarmDue == alarms.time # Never /\ alarms.time <= now

----------------------------------------------------------------------------
Init ==
    /\ state = At("Init")
    /\ position = [amount |-> 0, policy |-> NoPolicy]
    /\ loan = NoLoan
    /\ margin_paid_by = 0
    /\ account = 0
    /\ alarms = NoAlarms
    /\ reserve = ReserveFunds
    /\ sent = 0
    /\ price \in Prices
    /\ now = 0

(***************************************************************************)
(* RequestLoan: instantiation and, in the same transaction, the reply of   *)
(* the pool with the loan.  The downpayment and the principal leave for    *)
(* the dex to buy the asset.  The margin is due since this moment,         *)
(* `start_opening_at`.                                                     *)
(***************************************************************************)
Open(downpayment, max_ltd) ==
    LET borrow == CalcBorrowAmount(downpayment, max_ltd)
    IN  /\ state.at = "Init"
        /\ borrow > 0
        /\ loan' = Loan(borrow, LoanRate, now)
        /\ margin_paid_by' = now
        /\ state' = [at |-> "BuyAsset", amount |-> downpayment + borrow]
        /\ sent' = 0
        /\ UNCHANGED <<position, account, alarms, reserve, price, now>>

\* SellAsset's start: liquidation::start and customer_close::start
StartSale(kind, amount) == state' = [at |-> kind, amount |-> amount]

LiquidationState(status) ==
    IF status.kind = "Full" THEN "FullLiquidation" ELSE "PartialLiquidation"

\* Closable::amount: a full one sells all of the position
LiquidationAmount(status, pos) ==
    IF status.kind = "Full" THEN pos.amount ELSE status.amount

\* LeaseFactory::exec: the position of that amount and its status
OpenLease(amount) ==
    LET pos == [amount |-> amount, policy |-> NoPolicy]
    IN  [position |-> pos,
         status   |-> CheckClosePolicy(pos, Due, loan.annual_interest_rate, price)]

(***************************************************************************)
(* BuyAsset::finish: the bought asset makes the position; its debt is      *)
(* checked at once, at the price of that moment.                           *)
(***************************************************************************)
FinishBuyAsset(yield) ==
    LET opened == OpenLease(PercentOf(yield, ToAssets(state.amount, price)))
        pos    == opened.position
        status == opened.status
    IN  /\ state.at = "BuyAsset"
        /\ pos.amount > 0
        /\ position' = pos
        /\ \/ /\ status.kind = "None"
              /\ state' = At("OpenedActive")
              /\ alarms' = AlarmsOf(pos, Due, loan.annual_interest_rate)
           \/ /\ status.kind \in {"Partial", "Full"}
              /\ StartSale(LiquidationState(status),
                           LiquidationAmount(status, pos))
              /\ UNCHANGED alarms
        /\ sent' = 0
        /\ UNCHANGED <<loan, margin_paid_by, account, reserve, price,
                       now>>

----------------------------------------------------------------------------
(* Repayment *)

(***************************************************************************)
(* Repay::check_close_with_init: a take profit triggered by the payment is *)
(* given up and the check is repeated.                                     *)
(***************************************************************************)
CheckCloseWithInit(pos, due, rate) ==
    LET first == CheckClosePolicy(pos, due, rate, price)
        reset == [pos EXCEPT !.policy.take_profit = 0]
    IN  IF first.kind = "TakeProfit"
        THEN [status   |-> CheckClosePolicy(reset, due, rate, price),
              position |-> reset]
        ELSE [status |-> first, position |-> pos]

(***************************************************************************)
(* Repayable::try_repay: repay with the payment, `incoming` of which comes *)
(* into the account with this very call, then go by the position's status. *)
(* The status is computed from the lease's copy of the updated loan.  The  *)
(* pool and the profit get their shares with messages of the response.  A  *)
(* stop loss that is triggered starts the closing with a response of its   *)
(* own, customer_close::auto_start, so these messages are not sent.        *)
(***************************************************************************)
Repaid(receipt, payment, incoming, pos) ==
    LET paid    == payment - receipt.change
        due     == LoanState(receipt.lpp.loan, receipt.margin_paid_by, now)
        rate    == loan.annual_interest_rate
        check   == CheckCloseWithInit(pos, due, rate)
        status  == check.status
    IN  /\ position' = check.position
        /\ margin_paid_by' = receipt.margin_paid_by
        /\ \/ /\ status.kind = "StopLoss"
              /\ StartSale("FullClose", check.position.amount)
              /\ account' = account + incoming
              /\ sent' = 0
              /\ UNCHANGED <<loan, alarms>>
           \/ /\ status.kind # "StopLoss"
              /\ loan' = receipt.lpp.loan
              /\ sent' = paid
              /\ account' = account + incoming - paid
              /\ \/ /\ status.kind = "Paid"
                    /\ state' = At("PaidActive")
                    /\ UNCHANGED alarms
                 \/ /\ status.kind = "None"
                    /\ state' = At("OpenedActive")
                    /\ alarms' = AlarmsOf(check.position, due, rate)
                 \/ /\ status.kind \in {"Partial", "Full"}
                    /\ StartSale(LiquidationState(status),
                           LiquidationAmount(status, check.position))
                    /\ UNCHANGED alarms
        /\ UNCHANGED <<reserve, price, now>>

TryRepay(payment, incoming, pos) ==
    Repaid(LoanRepay(loan, margin_paid_by, payment, now), payment, incoming, pos)

\* Active::try_repay with LPN
Repay(payment) ==
    /\ state.at = "OpenedActive"
    /\ TryRepay(payment, payment, position)

\* ObtainPayment, of a payment in another currency worth so much
ValidatePayment(payment) == ValidTransaction(payment, Identity)

\* Active::start_swap: the payment in another currency leaves for the dex
RepayOther(payment) ==
    /\ state.at = "OpenedActive"
    /\ ValidatePayment(payment)
    /\ state' = [at |-> "BuyLpn", amount |-> payment]
    /\ sent' = 0
    /\ UNCHANGED <<position, loan, margin_paid_by, account, alarms, reserve, price, now>>

\* BuyLpn::finish
FinishBuyLpn(yield) ==
    LET payment == PercentOf(yield, state.amount)
    IN  /\ state.at = "BuyLpn"
        /\ TryRepay(payment, payment, position)

\* Active::heal: whatever LPN the account holds repays the loan
HealOpened ==
    /\ state.at = "OpenedActive"
    /\ account > 0
    /\ TryRepay(account, 0, position)

----------------------------------------------------------------------------
(* Alarms *)

\* Active::try_on_alarm, past the delivery that has removed the alarm
TryOnAlarm(removed) ==
    LET status == Status
    IN  /\ \/ /\ status.kind = "None"
              /\ alarms' = AlarmsOf(position, Due, loan.annual_interest_rate)
              /\ UNCHANGED state
           \/ /\ status.kind \in {"Partial", "Full"}
              /\ StartSale(LiquidationState(status),
                           LiquidationAmount(status, position))
              /\ alarms' = removed
           \/ /\ status.kind \in {"StopLoss", "TakeProfit"}
              /\ StartSale("FullClose", position.amount)
              /\ alarms' = removed
        /\ sent' = 0
        /\ UNCHANGED <<position, loan, margin_paid_by, account, reserve, price, now>>

NoPriceAlarm == [below |-> NoPrice, above |-> NoCeiling,
                 time |-> alarms.time, set_at |-> alarms.set_at]

NoTimeAlarm == [alarms EXCEPT !.time = Never]

PriceAlarm ==
    /\ state.at = "OpenedActive"
    /\ PriceAlarmDue
    /\ TryOnAlarm(NoPriceAlarm)

TimeAlarm ==
    /\ state.at = "OpenedActive"
    /\ TimeAlarmDue
    /\ TryOnAlarm(NoTimeAlarm)

(***************************************************************************)
(* A price alarm is consumed and ignored in any other state.  So is a time *)
(* alarm once the loan is paid; the states of a swap use it (module Dex).  *)
(***************************************************************************)
IgnoreAlarm ==
    /\ \/ /\ state.at # "OpenedActive"
          /\ PriceAlarmDue
          /\ alarms' = NoPriceAlarm
       \/ /\ state.at \in FinalStates \cup {"PaidActive"}
          /\ TimeAlarmDue
          /\ alarms' = NoTimeAlarm
    /\ sent' = 0
    /\ UNCHANGED <<state, position, loan, margin_paid_by, account, reserve, price, now>>

----------------------------------------------------------------------------
(* The customer's policies and closing *)

(***************************************************************************)
(* Active::change_close_policy.  A policy that would close the position is *)
(* refused.  A position that is to be liquidated stops the transaction at  *)
(* `unimplemented!`.                                                       *)
(***************************************************************************)
ChangeClosePolicy(policy) ==
    LET changed == [position EXCEPT !.policy = policy]
    IN  /\ state.at = "OpenedActive"
        /\ MayChangePolicy(position, policy, Due, price)
        /\ CheckClosePolicy(changed, Due, loan.annual_interest_rate,
                            price).kind = "None"
        /\ position' = changed
        /\ alarms' = AlarmsOf(changed, Due, loan.annual_interest_rate)
        /\ sent' = 0
        /\ UNCHANGED <<state, loan, margin_paid_by, account, reserve,
                       price, now>>

ValidateClose(amount) ==
    ValidateCloseAmount(position.amount, amount, price) = "Ok"

\* Active::close_position, PartialClose
ClosePartially(amount) ==
    /\ state.at = "OpenedActive"
    /\ ValidateClose(amount)
    /\ StartSale("PartialClose", amount)
    /\ sent' = 0
    /\ UNCHANGED <<position, loan, margin_paid_by, account, alarms, reserve, price, now>>

\* Active::close_position, FullClose
CloseFully ==
    /\ state.at = "OpenedActive"
    /\ StartSale("FullClose", position.amount)
    /\ sent' = 0
    /\ UNCHANGED <<position, loan, margin_paid_by, account, alarms, reserve, price, now>>

\* What the asset in sale turns into
Proceeds(yield) == PercentOf(yield, Total(state.amount, price))

\* SellAsset::finish of the partial ones, Lease::close_partial
FinishPartialSale(yield) ==
    /\ state.at \in {"PartialLiquidation", "PartialClose"}
    /\ TryRepay(Proceeds(yield), Proceeds(yield),
                Reduced(position, state.amount))

\* The reserve's CoverLiquidationLosses: all of the losses, or an error
CoverLosses(losses) ==
    /\ losses <= reserve
    /\ reserve' = reserve - losses

\* mutant: the reserve is not asked to cover the losses
FinishFullSaleNoCover(yield) ==
    LET receipt == LoanRepay(loan, margin_paid_by, Proceeds(yield), now)
    IN  /\ state.at \in {"FullLiquidation", "FullClose"}
        /\ loan' = receipt.lpp.loan
        /\ margin_paid_by' = receipt.margin_paid_by
        /\ sent' = Proceeds(yield) - receipt.change
        /\ position' = [position EXCEPT !.amount = 0]
        /\ state' = At(IF state.at = "FullLiquidation" THEN "Liquidated"
                       ELSE "Closed")
        /\ UNCHANGED <<account, alarms, reserve, price, now>>

\* Lease::close_full: what the reserve has to cover, and the receipt of all
\* of the due; the change goes to the customer, or to the profit on a
\* liquidation
CloseFull(payment) ==
    LET total_due == TotalDue(Due)
    IN  [losses  |-> MaxOf(total_due - payment, 0),
         receipt |-> LoanRepay(loan, margin_paid_by, MaxOf(total_due, payment),
                               now)]

(***************************************************************************)
(* SellAsset::finish of the full ones, cmd::Close: the reserve covers what *)
(* the proceeds do not, first of all messages, or the transaction reverts  *)
(* when it has not enough.                                                 *)
(***************************************************************************)
FinishFullSale(yield) ==
    LET closed  == CloseFull(Proceeds(yield))
        receipt == closed.receipt
    IN  /\ state.at \in {"FullLiquidation", "FullClose"}
        /\ CoverLosses(closed.losses)
        /\ loan' = receipt.lpp.loan
        /\ margin_paid_by' = receipt.margin_paid_by
        /\ sent' = TotalDue(Due)
        /\ position' = [position EXCEPT !.amount = 0]
        /\ state' = At(IF state.at = "FullLiquidation" THEN "Liquidated"
                       ELSE "Closed")
        /\ UNCHANGED <<account, alarms, price, now>>

----------------------------------------------------------------------------
(* The end *)

\* paid::Active::close: the asset starts its way to the lease's account
Close ==
    /\ state.at = "PaidActive"
    /\ state' = At("ClosingTransferIn")
    /\ sent' = 0
    /\ UNCHANGED <<position, loan, margin_paid_by, account, alarms, reserve, price, now>>

\* mutant: the LPN left is not sent along with the asset
FinishTransferInKeepsSurplus ==
    /\ state.at = "ClosingTransferIn"
    /\ state' = At("Closed")
    /\ position' = [position EXCEPT !.amount = 0]
    /\ sent' = 0
    /\ UNCHANGED <<loan, margin_paid_by, account, alarms, reserve, price, now>>

\* TransferIn::finish: the customer gets the asset and any LPN left
FinishTransferIn ==
    /\ state.at = "ClosingTransferIn"
    /\ state' = At("Closed")
    /\ account' = 0
    /\ position' = [position EXCEPT !.amount = 0]
    /\ sent' = 0
    /\ UNCHANGED <<loan, margin_paid_by, alarms, reserve, price, now>>

\* DrainAll::drain
HealFinal ==
    /\ state.at \in FinalStates
    /\ account > 0
    /\ account' = 0
    /\ sent' = 0
    /\ UNCHANGED <<state, position, loan, margin_paid_by, alarms, reserve, price, now>>

----------------------------------------------------------------------------
(* The environment *)

\* Anybody may send LPN to the lease's address; external
Donate(amount) ==
    /\ state.at \in {"OpenedActive", "BuyLpn", "FullClose"}
    /\ account = 0
    /\ account' = amount
    /\ sent' = 0
    /\ UNCHANGED <<state, position, loan, margin_paid_by, alarms, reserve, price, now>>

\* The states whose steps look at the price or the time
Watching == OpenedStates \cup {"BuyAsset"}

\* The oracle's price; external
PriceMove(new_price) ==
    /\ state.at \in Watching
    /\ price' = new_price
    /\ sent' = 0
    /\ UNCHANGED <<state, position, loan, margin_paid_by, account, alarms,
                   reserve, now>>

\* Block time; external
Tick ==
    /\ state.at \in Watching
    /\ now < MaxTime
    /\ now' = now + 1
    /\ sent' = 0
    /\ UNCHANGED <<state, position, loan, margin_paid_by, account, alarms,
                   reserve, price>>

Next ==
    \/ \E d \in Downpayments, ltd \in MaxLtds : Open(d, ltd)
    \/ \E y \in Yields : FinishBuyAsset(y)
    \/ \E p \in Payments : Repay(p)
    \/ \E p \in SwapPayments : RepayOther(p)
    \/ \E y \in Yields : FinishBuyLpn(y)
    \/ HealOpened
    \/ PriceAlarm
    \/ TimeAlarm
    \/ IgnoreAlarm
    \/ \E p \in Policies : ChangeClosePolicy(p)
    \/ \E a \in CloseAmounts : ClosePartially(a)
    \/ CloseFully
    \/ \E y \in Yields : FinishPartialSale(y)
    \/ \E y \in Yields : FinishFullSale(y)
    \/ Close
    \/ FinishTransferIn
    \/ HealFinal
    \/ \E a \in Donations : Donate(a)
    \/ \E p \in Prices : PriceMove(p)
    \/ Tick

Spec == Init /\ [][Next]_vars

(***************************************************************************)
(* Block time goes on and the oracle and the timealarms keep dispatching   *)
(* the alarms that are due; the customer and the dex may do nothing.       *)
(***************************************************************************)
FairSpec == Spec /\ WF_vars(Tick) /\ WF_vars(PriceAlarm) /\ WF_vars(TimeAlarm)

----------------------------------------------------------------------------
(* Properties *)

\* A policy set by the customer, perhaps past the reset of its take profit
KnownPolicies ==
    Policies \cup {NoPolicy}
        \cup {[p EXCEPT !.take_profit = 0] : p \in Policies}

\* Types.  The margin is never paid beyond the present, what `repay` and
\* `state` assert with debug_check_start_due_before, and an opened lease has
\* a position, what Position::new and Position::close assert.
TypeOK ==
    /\ state \in [at : States, amount : Nat]
    /\ position \in [amount : Nat, policy : KnownPolicies]
    /\ state.at \in OpenedStates => position.amount > 0
    /\ state.at \in SaleStates => state.amount \in 1 .. position.amount
    /\ loan \in LoanType
    /\ loan.interest_paid <= now
    /\ margin_paid_by \in 0 .. now
    /\ account \in Nat
    /\ alarms.time \in Nat \cup {Never}
    /\ reserve \in Nat
    /\ sent \in Nat
    /\ price \in Prices
    /\ now \in 0 .. MaxTime

\* No step makes the debt smaller by more than what the pool and the profit
\* get, whichever way it is repaid: by the customer, by a partial or a full
\* sale, with the reserve's cover.  So a payment that does not reach them
\* does not count, and no rounding of the periods it pays for favours the
\* customer.
DebtNeverForgiven ==
    [][TotalDue(Due)' + sent' >= TotalDue(Due)]_vars

\* The end of a lease is never reached with an unpaid loan: a lease gets
\* Paid, Closed or Liquidated only once the pool has closed its loan.
SettledMeansRepaid ==
    state.at \in FinalStates \cup {"PaidActive", "ClosingTransferIn"}
        => loan = NoLoan

\* An opened lease always has some due amount, so that neither an alarm nor
\* a change of the policy meets CloseStatusDTO::Paid, where the code stops
\* at `unimplemented!`.
OpenedHasDebt ==
    state.at \in OpenedStates => TotalDue(Due) > 0 /\ Status.kind # "Paid"

\* At the moment the alarms are set, as far as the debt goes, any price that
\* puts the position in need of an action makes an alarm due.  The one
\* exception, when the price meets exactly the lower bound, is a note in the
\* code (Steadiness::try_into_alarms).
TroubleRaisesAlarm ==
    (/\ state.at = "OpenedActive"
     /\ alarms.set_at = now
     /\ PriceLt(price, alarms.below) \/ PriceLt(alarms.below, price))
        => (Status.kind # "None" => PriceAlarmDue \/ TimeAlarmDue)

\* The lease splits a payment and the pool splits its part of it again,
\* Loan::repay of the one and of the other: whatever is paid they agree on
\* the interest and on the principal, and nothing is in excess.
SharesAgree ==
    state.at \in OpenedStates =>
        \A payment \in 0 .. TotalDue(Due) + 1 :
            LET receipt == LoanRepay(loan, margin_paid_by, payment, now)
            IN  /\ receipt.lpp.interest = receipt.interest_paid
                /\ receipt.lpp.principal = receipt.principal_paid
                /\ receipt.lpp.excess = 0

\* The LPN of a lease is never left behind: besides what somebody has sent to
\* it out of order the account is empty while the lease is opened and once it
\* has come to its end.  Only a paid lease keeps the change of its payment.
NothingStranded ==
    state.at \in OpenedStates \cup FinalStates => account \in Donations \cup {0}

\* A partial liquidation is enough: asked because the LTV has got to the
\* maximum, and sold at the price it is asked for, it leaves the position
\* healthy, up to the unit each of its three roundings may lose, the worth of
\* an LPN being one of them (Liability::amount_to_liquidate, Post-assert).
PartialLiquidationHeals ==
    (/\ state.at = "OpenedActive"
     /\ Status.kind = "Partial"
     /\ AmountToLiquidate(position.amount, ToAssets(TotalDue(Due), price)) > 0) =>
        LET left    == position.amount - Status.amount
            receipt == LoanRepay(loan, margin_paid_by,
                                 Total(Status.amount, price), now)
            due     == LoanState(receipt.lpp.loan, receipt.margin_paid_by, now)
        IN  ToAssets(TotalDue(due), price)
                <= PercentOf(liability.healthy, left) + 3 + ToAssets(1, price)

\* The position needs an action
Trouble == state.at = "OpenedActive" /\ Status.kind # "None"

\* A position in need of a liquidation or a close does not stay so for good:
\* within the recalculation time an alarm reaches the lease, unless a payment
\* or the price makes up for it.
TroubleHandled ==
    (Trouble /\ now + liability.recalc_time <= MaxTime) ~> ~Trouble
=============================================================================
