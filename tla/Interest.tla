----------------------------- MODULE Interest ------------------------------
(***************************************************************************)
(* Simple interest over a period of time, finance/src/interest.rs and      *)
(* finance/src/duration.rs.                                                *)
(***************************************************************************)
EXTENDS Finance

CONSTANT YEAR           \* Duration::YEAR in the model's units of time

ASSUME YearAssumption == YEAR \in Nat \ {0}

(***************************************************************************)
(* interest::interest, the per-year interest first and then its slice over *)
(* the period, each step rounding down.  perYear is rate.of(principal).    *)
(***************************************************************************)
InterestOver(perYear, period) == SafeMul(perYear, period, YEAR)

(***************************************************************************)
(* interest::pay: the interest due over the period is paid first; the      *)
(* payment covers a proportional part of the period.                       *)
(***************************************************************************)
PayInterest(due, payment, period) ==
    LET repayment == IF due <= payment THEN due ELSE payment
    IN  IF due = 0
        THEN [paid_for |-> 0, change |-> payment]
        ELSE [paid_for |-> SafeMul(period, repayment, due),
              change   |-> payment - repayment]
=============================================================================
