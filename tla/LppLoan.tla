------------------------------ MODULE LppLoan ------------------------------
(***************************************************************************)
(* A loan of the pool, protocol/contracts/lpp/src/loan.rs.  The pool keeps *)
(* it; the lease that took it does the same arithmetic over a copy of it   *)
(* (lpp/src/stub/loan.rs) before it sends the repayment.                   *)
(***************************************************************************)
EXTENDS Interest

NoLoan == [principal_due |-> 0, annual_interest_rate |-> 0, interest_paid |-> 0]

\* The values of a loan, and of what takes its place once it is repaid
LoanType ==
    [principal_due : Nat, annual_interest_rate : Nat, interest_paid : Nat]

Loan(principal, rate, time) ==
    [principal_due |-> principal, annual_interest_rate |-> rate,
     interest_paid |-> time]

DuePeriod(loan, by) ==
    IF by > loan.interest_paid THEN by - loan.interest_paid ELSE 0

LoanInterestDue(loan, by) ==
    InterestOver(PercentOf(loan.annual_interest_rate, loan.principal_due),
                 DuePeriod(loan, by))

(***************************************************************************)
(* Loan::repay: the interest first, then the principal; the rest is an     *)
(* excess.  The updated loan is `loan`; Repo::save removes a loan with no  *)
(* principal left.                                                         *)
(***************************************************************************)
RepayShares(loan, by, repayment) ==
    LET paid == PayInterest(LoanInterestDue(loan, by), repayment,
                            DuePeriod(loan, by))
        principal == IF paid.change <= loan.principal_due
                     THEN paid.change ELSE loan.principal_due
    IN  [interest  |-> repayment - paid.change,
         principal |-> principal,
         excess    |-> paid.change - principal,
         loan      |-> IF principal = loan.principal_due
                       THEN NoLoan
                       ELSE Loan(loan.principal_due - principal,
                                 loan.annual_interest_rate,
                                 loan.interest_paid + paid.paid_for)]
=============================================================================
