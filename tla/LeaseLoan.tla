----------------------------- MODULE LeaseLoan -----------------------------
(***************************************************************************)
(* The loan as the lease sees it: protocol/contracts/lease/src/loan/ and   *)
(* lease/src/lease/due.rs.  On top of the interest of the pool's loan the  *)
(* lease owes a margin to the profit contract.  The pool's loan keeps the  *)
(* time its interest is paid by; the lease keeps `margin_paid_by`.         *)
(* Interest older than `due_period` is overdue.                            *)
(***************************************************************************)
EXTENDS LppLoan

CONSTANTS
    due_period,         \* Duration
    margin_interest     \* Percent, annual

ASSUME LeaseLoanAssumption ==
    /\ due_period \in Nat \ {0}
    /\ margin_interest \in Nat

\* Ord::min
MinOf(a, b) == IF a <= b THEN a ELSE b

MaxOf(a, b) == IF a >= b THEN a ELSE b

\* interest::interest of the margin over a period
MarginOver(principal, period) ==
    InterestOver(PercentOf(margin_interest, principal), period)

\* None of an alarm's time, and Duration::MAX: no block gets that far
Never == -1

(***************************************************************************)
(* Overdue::new.  The length of the period the margin is due for decides;  *)
(* the pool's interest is overdue by the same moment, whatever time that   *)
(* interest is paid by.                                                    *)
(***************************************************************************)
Overdue(lpp_loan, paid_by, now) ==
    LET length == now - paid_by
    IN  IF length < due_period
        THEN [start_in |-> due_period - length, interest |-> 0, margin |-> 0]
        ELSE [start_in |-> 0,
              interest |-> LoanInterestDue(lpp_loan, now - due_period),
              margin   |-> MarginOver(lpp_loan.principal_due,
                                      length - due_period)]

\* mutant: the overdue interest is counted in the due one, too
LoanStateDoubleCount(lpp_loan, paid_by, now) ==
    LET overdue == Overdue(lpp_loan, paid_by, now)
    IN  [principal_due       |-> lpp_loan.principal_due,
         due_interest        |-> LoanInterestDue(lpp_loan, now),
         due_margin_interest |-> MarginOver(lpp_loan.principal_due,
                                            now - paid_by) - overdue.margin,
         overdue             |-> overdue]

\* Loan::state
LoanState(lpp_loan, paid_by, now) ==
    LET overdue == Overdue(lpp_loan, paid_by, now)
    IN  [principal_due       |-> lpp_loan.principal_due,
         due_interest        |-> LoanInterestDue(lpp_loan, now)
                                     - overdue.interest,
         due_margin_interest |-> MarginOver(lpp_loan.principal_due,
                                            now - paid_by) - overdue.margin,
         overdue             |-> overdue]

\* State::total_due_interest
TotalDueInterest(due) ==
    due.due_interest + due.due_margin_interest
        + due.overdue.interest + due.overdue.margin

\* <State as Due>::total_due
TotalDue(due) == due.principal_due + TotalDueInterest(due)

(***************************************************************************)
(* <State as Due>::overdue_collection: in how much time, Never if it never *)
(* happens, at least min_amount of interest becomes collectable, and how   *)
(* much is collectable now.                                                *)
(***************************************************************************)
OverdueCollection(due, annual_interest, min_amount) ==
    LET interest == TotalDueInterest(due)
        a_year   == PercentOf(annual_interest + margin_interest,
                              due.principal_due)
        accrue   == IF interest >= min_amount THEN 0
                    ELSE SafeMul(YEAR, min_amount - interest, a_year)
        never    == interest < min_amount /\ a_year = 0
        start_in == IF never THEN Never ELSE MaxOf(due.overdue.start_in, accrue)
    IN  [start_in |-> start_in,
         amount   |-> IF start_in = 0 THEN interest ELSE 0]

\* mutant: the principal is paid before the margin
LoanRepayMarginLast(lpp_loan, paid_by, payment, by) ==
    LET due            == LoanState(lpp_loan, paid_by, by)
        interest_paid  == MinOf(due.overdue.interest + due.due_interest, payment)
        principal_paid == MinOf(due.principal_due, payment - interest_paid)
        margin_due     == MarginOver(due.principal_due, by - paid_by)
        margin_paid    == MinOf(margin_due,
                                payment - interest_paid - principal_paid)
        margin         == PayInterest(margin_due, margin_paid, by - paid_by)
    IN  [interest_paid  |-> interest_paid,
         margin_paid    |-> margin_paid,
         principal_paid |-> principal_paid,
         change         |-> payment - interest_paid - margin_paid
                                - principal_paid,
         close          |-> principal_paid = due.principal_due,
         margin_paid_by |-> paid_by + margin.paid_for,
         lpp            |-> RepayShares(lpp_loan, by,
                                        interest_paid + principal_paid)]

(***************************************************************************)
(* Loan::repay: the overdue interest and margin first, then the due ones,  *)
(* then the principal.  The interest and the principal go to the pool with *)
(* one message, the margin to the profit contract with another, the change *)
(* stays with the lease.  `lpp` holds the shares the pool's arithmetic     *)
(* finds in the pool's part and its updated loan.                          *)
(***************************************************************************)
RepayDue(due, lpp_loan, paid_by, payment, by) ==
    LET overdue_interest == MinOf(due.overdue.interest, payment)
        overdue_margin   == MinOf(due.overdue.margin,
                                  payment - overdue_interest)
        due_interest     == MinOf(due.due_interest,
                                  payment - overdue_interest - overdue_margin)
        due_margin       == MinOf(due.due_margin_interest,
                                  payment - overdue_interest - overdue_margin
                                      - due_interest)
        interest_paid    == overdue_interest + due_interest
        margin_paid      == overdue_margin + due_margin
        principal_paid   == MinOf(due.principal_due,
                                  payment - interest_paid - margin_paid)
        margin           == PayInterest(
                                MarginOver(due.principal_due, by - paid_by),
                                margin_paid, by - paid_by)
    IN  [interest_paid  |-> interest_paid,
         margin_paid    |-> margin_paid,
         principal_paid |-> principal_paid,
         change         |-> payment - interest_paid - margin_paid
                                - principal_paid,
         close          |-> principal_paid = due.principal_due,
         margin_paid_by |-> paid_by + margin.paid_for,
         lpp            |-> RepayShares(lpp_loan, by,
                                        interest_paid + principal_paid)]

LoanRepay(lpp_loan, paid_by, payment, by) ==
    RepayDue(LoanState(lpp_loan, paid_by, by), lpp_loan, paid_by, payment, by)
=============================================================================
