------------------------------ MODULE Position ------------------------------
(***************************************************************************)
(* The position of a lease and the policies that watch it:                 *)
(* protocol/contracts/lease/src/position/ and finance's liability and      *)
(* range.  Everything here is a function of the position, the loan's due   *)
(* and the price of the asset in the pool's currency, LPN.                 *)
(***************************************************************************)
EXTENDS LeaseLoan

CONSTANTS
    liability,          \* Liability: the LTV levels and recalc_time
    min_asset,          \* LPN
    min_transaction     \* LPN

\* Liability::invariant_held
InvariantHeld(levels) ==
    /\ \A level \in {"initial", "healthy", "first_liq_warn",
                     "second_liq_warn", "third_liq_warn", "max"} :
           levels[level] \in 1 .. HUNDRED
    /\ levels.initial <= levels.healthy
    /\ levels.healthy < levels.first_liq_warn
    /\ levels.first_liq_warn < levels.second_liq_warn
    /\ levels.second_liq_warn < levels.third_liq_warn
    /\ levels.third_liq_warn < levels.max
    /\ levels.recalc_time \in Nat \ {0}

\* With the debug assertions of Spec::new
ASSUME PositionAssumption ==
    /\ InvariantHeld(liability)
    /\ min_asset \in Nat \ {0}
    /\ min_transaction \in Nat \ {0}

\* Position::close, of a part
Reduced(position, asset) == [position EXCEPT !.amount = @ - asset]

\* Spec::to_assets
ToAssets(lpn, price) == Total(lpn, Inv(price))

----------------------------------------------------------------------------
(* The close policy.  A None is 0, which is not a valid level. *)

NoPolicy == [take_profit |-> 0, stop_loss |-> 0]

\* Policy::may_trigger: a stop loss comes before a take profit
MayTrigger(policy, asset, due_assets) ==
    IF policy.stop_loss # 0 /\ PercentOf(policy.stop_loss, asset) <= due_assets
    THEN "StopLoss"
    ELSE IF policy.take_profit # 0
            /\ PercentOf(policy.take_profit, asset) > due_assets
    THEN "TakeProfit"
    ELSE "None"

\* Policy::liquidation_check
LiquidationCheck(policy) ==
    policy.take_profit < liability.max /\ policy.stop_loss < liability.max

(***************************************************************************)
(* Ranges of LTVs, right-open, `from` = 0 when left-unbound.  cut_to and   *)
(* cut_from clamp the new end into the range.                              *)
(***************************************************************************)
CutTo(range, to) ==
    [range EXCEPT !.from = MinOf(MaxOf(to, range.from), range.to)]

CutFrom(range, from) ==
    [range EXCEPT !.to = MaxOf(MinOf(from, range.to), range.from)]

\* mutant: the take profit does not narrow the range
NoCloseNoTakeProfit(policy, range) ==
    IF policy.stop_loss = 0 THEN range ELSE CutFrom(range, policy.stop_loss)

\* Policy::no_close
NoClose(policy, range) ==
    LET tp_cut == IF policy.take_profit = 0 THEN range
                  ELSE CutTo(range, policy.take_profit)
    IN  IF policy.stop_loss = 0 THEN tp_cut
        ELSE CutFrom(tp_cut, policy.stop_loss)

----------------------------------------------------------------------------
(* Liability *)

\* Liability::cap_to_zone
CapToZone(ltv) == MinOf(ltv, liability.max - 1)

\* Liability::zone_of and Zone::range
ZoneOf(ltv) ==
    CASE ltv < liability.first_liq_warn ->
            [from |-> 0, to |-> liability.first_liq_warn]
      [] ltv >= liability.first_liq_warn /\ ltv < liability.second_liq_warn ->
            [from |-> liability.first_liq_warn, to |-> liability.second_liq_warn]
      [] ltv >= liability.second_liq_warn /\ ltv < liability.third_liq_warn ->
            [from |-> liability.second_liq_warn, to |-> liability.third_liq_warn]
      [] OTHER ->
            [from |-> liability.third_liq_warn, to |-> liability.max]

\* Liability::init_borrow_amount, max_ltd = 0 for None
InitBorrowAmount(downpayment, max_ltd) ==
    LET default == SafeMul(downpayment, liability.initial,
                           HUNDRED - liability.initial)
    IN  IF max_ltd = 0 THEN default
        ELSE MinOf(PercentOf(max_ltd, downpayment), default)

\* mutant: selling reduces the asset as well, which is left out
AmountToLiquidateNoMultiplier(asset, due_assets) ==
    IF due_assets < PercentOf(liability.max, asset) THEN 0
    ELSE IF asset <= due_assets THEN asset
    ELSE due_assets - MinOf(due_assets, PercentOf(liability.healthy, asset))

\* Liability::amount_to_liquidate
AmountToLiquidate(asset, due_assets) ==
    IF due_assets < PercentOf(liability.max, asset) THEN 0
    ELSE IF asset <= due_assets THEN asset
    ELSE SafeMul(due_assets
                     - MinOf(due_assets, PercentOf(liability.healthy, asset)),
                 HUNDRED, HUNDRED - liability.healthy)

----------------------------------------------------------------------------
(* Spec *)

ValidTransaction(amount, price) == Total(amount, price) >= min_transaction

ValidAsset(amount, price) == Total(amount, price) >= min_asset

\* Spec::calc_borrow_amount, 0 for the errors
CalcBorrowAmount(downpayment, max_ltd) ==
    LET borrow == InitBorrowAmount(downpayment, max_ltd)
    IN  IF /\ ValidTransaction(downpayment, Identity)
           /\ ValidTransaction(borrow, Identity)
           /\ ValidAsset(downpayment + borrow, Identity)
        THEN borrow ELSE 0

\* Spec::validate_close_amount
ValidateCloseAmount(asset, amount, price) ==
    IF ~ValidTransaction(amount, price) THEN "TooSmall"
    ELSE IF ~ValidAsset(MaxOf(asset - amount, 0), price) THEN "TooBig"
    ELSE "Ok"

NoLiquidation == [kind |-> "None", amount |-> 0]

\* Spec::may_ask_liquidation; a full one carries no amount
MayAskLiquidation(asset, amount, price) ==
    CASE ValidateCloseAmount(asset, amount, price) = "TooSmall" ->
            NoLiquidation
      [] ValidateCloseAmount(asset, amount, price) = "TooBig" ->
            [kind |-> "Full", amount |-> 0]
      [] OTHER ->
            [kind |-> "Partial", amount |-> amount]

\* Ord::max over Option<Liquidation>: None < Partial, by amount < Full
Worse(a, b) ==
    IF \/ a.kind = "Full"
       \/ b.kind = "None"
       \/ a.kind = "Partial" /\ b.kind = "Partial" /\ a.amount >= b.amount
    THEN a ELSE b

\* The overdue collection of a loan's due, Spec::overdue_collection
CollectOverdue(due, annual_interest) ==
    OverdueCollection(due, annual_interest, min_transaction)

\* Spec::may_ask_liquidation_liability
LiquidationForLiability(asset, due, price) ==
    MayAskLiquidation(asset,
        AmountToLiquidate(asset, ToAssets(TotalDue(due), price)), price)

\* Spec::may_ask_liquidation_overdue
LiquidationForOverdue(asset, due, annual_interest, price) ==
    MayAskLiquidation(asset,
        ToAssets(CollectOverdue(due, annual_interest).amount, price), price)

\* The liquidation that Spec::debt asks for
AskLiquidation(asset, due, annual_interest, price) ==
    Worse(LiquidationForLiability(asset, due, price),
          LiquidationForOverdue(asset, due, annual_interest, price))

\* The price at which the due makes that LTV: price::total_of(..).is(..)
PriceAt(ltv, asset, due) == Price(PercentOf(ltv, asset), TotalDue(due))

\* None of an optional upper price: no price gets that high
NoCeiling == Price(0, 1)

(***************************************************************************)
(* Spec::no_liquidation: for how long and within which prices the position *)
(* would need no attention.  Steadiness::try_into_alarms makes the end of  *)
(* the period a time alarm and the range a price alarm, below the lower    *)
(* bound and above or equal to the upper one.                              *)
(***************************************************************************)
Steadiness(position, due, annual_interest, price) ==
    LET asset == position.amount
        ltv   == CapToZone(FromRatio(ToAssets(TotalDue(due), price), asset))
        range == NoClose(position.policy, ZoneOf(ltv))
        in    == CollectOverdue(due, annual_interest).start_in
    IN  [for   |-> IF in = Never THEN liability.recalc_time
                   ELSE MinOf(in, liability.recalc_time),
         below |-> PriceAt(range.to, asset, due),
         above |-> IF range.from = 0 THEN NoCeiling
                   ELSE PriceAt(range.from, asset, due)]

(***************************************************************************)
(* Lease::check_close_policy: a triggered close policy first, then the bad *)
(* debt.  "Paid" and "None" are CloseStatus::Paid and ::None, and a "Paid" *)
(* is reached only past the checks of the policy.                          *)
(***************************************************************************)
CheckClosePolicy(position, due, annual_interest, price) ==
    LET due_assets  == ToAssets(TotalDue(due), price)
        strategy    == MayTrigger(position.policy, position.amount, due_assets)
        liquidation == AskLiquidation(position.amount, due, annual_interest,
                                      price)
    IN  CASE strategy # "None" ->
                [kind |-> strategy, amount |-> 0]
          [] strategy = "None" /\ liquidation # NoLiquidation ->
                liquidation
          [] strategy = "None" /\ liquidation = NoLiquidation ->
                [kind   |-> IF TotalDue(due) = 0 THEN "Paid" ELSE "None",
                 amount |-> 0]

(***************************************************************************)
(* Spec::change_close_policy: a policy is accepted if it does not conflict *)
(* with the liquidation level and does not trigger a close.                *)
(***************************************************************************)
MayChangePolicy(position, policy, due, price) ==
    /\ LiquidationCheck(policy)
    /\ MayTrigger(policy, position.amount, ToAssets(TotalDue(due), price))
           = "None"
=============================================================================
