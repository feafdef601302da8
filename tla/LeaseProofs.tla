---------------------------- MODULE LeaseProofs ----------------------------
(* Theorems about the lease, for every value of its constants. *)
EXTENDS Lease, FinanceProofs

(***************************************************************************)
(* The margin over a period is a natural that grows with the period.       *)
(***************************************************************************)
LEMMA MarginNat ==
    ASSUME NEW principal \in Nat, NEW period \in Nat
    PROVE  /\ PercentOf(margin_interest, principal) \in Nat
           /\ MarginOver(principal, period) \in Nat
<1>1. PercentOf(margin_interest, principal) \in Nat
  BY PercentOfNat, LeaseLoanAssumption
<1> QED
  BY <1>1, SafeMulNat, YearAssumption DEF MarginOver, InterestOver

(***************************************************************************)
(* The margin interest does not decrease with the period it is due for.    *)
(***************************************************************************)
LEMMA MarginGrows ==
    ASSUME NEW principal \in Nat, NEW x \in Nat, NEW y \in Nat, x <= y
    PROVE  MarginOver(principal, x) <= MarginOver(principal, y)
<1>1. PercentOf(margin_interest, principal) \in Nat
  BY PercentOfNat, LeaseLoanAssumption
<1> QED
  BY <1>1, SafeMulMonotone, YearAssumption DEF MarginOver, InterestOver

(***************************************************************************)
(* Loan::state splits each of the two interests into an overdue and a due  *)
(* part; together they are the interest since it was last paid.            *)
(***************************************************************************)
LEMMA DueParts ==
    ASSUME NEW ln \in LoanType, NEW pb \in Nat, NEW t \in Nat, pb <= t
    PROVE  LET due == LoanState(ln, pb, t)
               I   == LoanInterestDue(ln, t)
               M   == MarginOver(ln.principal_due, t - pb)
           IN  /\ I \in Nat /\ M \in Nat
               /\ due.principal_due = ln.principal_due
               /\ due.overdue.start_in \in Nat
               /\ due.overdue.interest \in Nat /\ due.overdue.interest <= I
               /\ due.overdue.margin \in Nat /\ due.overdue.margin <= M
               /\ due.due_interest = I - due.overdue.interest
               /\ due.due_margin_interest = M - due.overdue.margin
               /\ TotalDueInterest(due) = I + M
               /\ TotalDue(due) = ln.principal_due + I + M
<1> DEFINE due == LoanState(ln, pb, t)
           I == LoanInterestDue(ln, t)
           M == MarginOver(ln.principal_due, t - pb)
           od == Overdue(ln, pb, t)
<1>1. ln.principal_due \in Nat
  BY DEF LoanType
<1>2. t - pb \in Nat
  OBVIOUS
<1>3. I \in Nat /\ M \in Nat
  BY <1>1, <1>2, LoanInterestNat, MarginNat
<1>4. /\ od.start_in \in Nat
      /\ od.interest \in Nat /\ od.interest <= I
      /\ od.margin \in Nat /\ od.margin <= M
  <2>0. due_period \in Nat
    BY LeaseLoanAssumption
  <2>1. CASE t - pb < due_period
    BY <1>3, <2>0, <2>1 DEF Overdue
  <2>2. CASE ~(t - pb < due_period)
    <3>1. /\ t - due_period \in Nat /\ t - due_period <= t
          /\ (t - pb) - due_period \in Nat
          /\ (t - pb) - due_period <= t - pb
      BY <2>0, <2>2
    <3>2. /\ LoanInterestDue(ln, t - due_period) \in Nat
          /\ LoanInterestDue(ln, t - due_period) <= I
      BY <3>1, LoanInterestNat, LoanInterestGrows
    <3>3. /\ MarginOver(ln.principal_due, (t - pb) - due_period) \in Nat
          /\ MarginOver(ln.principal_due, (t - pb) - due_period) <= M
      BY <1>1, <1>2, <3>1, MarginNat, MarginGrows
    <3>4. od = [start_in |-> 0,
                interest |-> LoanInterestDue(ln, t - due_period),
                margin   |-> MarginOver(ln.principal_due,
                                        (t - pb) - due_period)]
      BY <2>2 DEF Overdue
    <3> QED
      BY <3>2, <3>3, <3>4
  <2> QED
    BY <2>1, <2>2
<1>5. due = [principal_due |-> ln.principal_due, due_interest |-> I - od.interest,
             due_margin_interest |-> M - od.margin, overdue |-> od]
  BY DEF LoanState
<1> HIDE DEF due, I, M, od
<1>6. TotalDueInterest(due) = I + M
  BY <1>3, <1>4, <1>5 DEF TotalDueInterest
<1>7. TotalDue(due) = ln.principal_due + I + M
  BY <1>1, <1>3, <1>5, <1>6 DEF TotalDue
<1> QED
  BY <1>3, <1>4, <1>5, <1>6, <1>7 DEF due, I, M

(***************************************************************************)
(* The total due is the principal and the two interests, whichever part of *)
(* them is overdue.                                                        *)
(***************************************************************************)
LEMMA TotalDueIs ==
    ASSUME NEW ln \in LoanType, NEW pb \in Nat, NEW t \in Nat, pb <= t
    PROVE  /\ ln.principal_due \in Nat /\ LoanInterestDue(ln, t) \in Nat
           /\ MarginOver(ln.principal_due, t - pb) \in Nat
           /\ TotalDue(LoanState(ln, pb, t)) =
                 ln.principal_due + LoanInterestDue(ln, t)
                     + MarginOver(ln.principal_due, t - pb)
BY DueParts DEF LoanType

(***************************************************************************)
(* Nothing is due on a repaid loan, whatever the time.                     *)
(***************************************************************************)
LEMMA NothingDueOnNoLoan ==
    ASSUME NEW pb \in Nat, NEW t \in Nat, pb <= t
    PROVE  NoLoan \in LoanType /\ TotalDue(LoanState(NoLoan, pb, t)) = 0
<1>1. /\ NoLoan \in LoanType /\ NoLoan.principal_due = 0
      /\ NoLoan.annual_interest_rate = 0
  BY DEF NoLoan, LoanType
<1>2. /\ PercentOf(0, 0) = 0 /\ PercentOf(margin_interest, 0) = 0
  BY LeaseLoanAssumption DEF PercentOf, SafeMul, HUNDRED
<1>3. DuePeriod(NoLoan, t) \in Nat /\ t - pb \in Nat
  BY <1>1, LoanInterestNat
<1>4. \A p \in Nat : SafeMul(0, p, YEAR) = 0
  BY YearAssumption DEF SafeMul
<1>5. LoanInterestDue(NoLoan, t) = 0 /\ MarginOver(0, t - pb) = 0
  BY <1>1, <1>2, <1>3, <1>4 DEF LoanInterestDue, MarginOver, InterestOver
<1>6. TotalDue(LoanState(NoLoan, pb, t)) =
        NoLoan.principal_due + LoanInterestDue(NoLoan, t)
            + MarginOver(NoLoan.principal_due, t - pb)
  BY <1>1, DueParts
<1> QED
  BY <1>1, <1>5, <1>6

(***************************************************************************)
(* Loan::repay.  Interest, margin and principal are paid in this order, so *)
(* the principal is touched only once the others are paid, and a change    *)
(* is left only when everything is.                                        *)
(***************************************************************************)
LEMMA RepaySplit ==
    ASSUME NEW ln \in LoanType, NEW pb \in Nat, NEW t \in Nat, pb <= t,
           NEW payment \in Nat
    PROVE  LET r == LoanRepay(ln, pb, payment, t)
               P == ln.principal_due
               I == LoanInterestDue(ln, t)
               M == MarginOver(ln.principal_due, t - pb)
           IN  /\ r.interest_paid \in Nat /\ r.interest_paid <= I
               /\ r.margin_paid \in Nat /\ r.margin_paid <= M
               /\ r.principal_paid \in Nat /\ r.principal_paid <= P
               /\ r.change \in Nat
               /\ r.interest_paid + r.margin_paid + r.principal_paid + r.change
                      = payment
               /\ r.interest_paid < I => r.principal_paid = 0
               /\ r.margin_paid < M => r.principal_paid = 0
               /\ r.principal_paid < P => r.change = 0
               /\ P + I + M <= payment => r.principal_paid = P
               /\ r.margin_paid_by =
                      pb + PayInterest(M, r.margin_paid, t - pb).paid_for
               /\ r.lpp = RepayShares(ln, t, r.interest_paid + r.principal_paid)
<1> DEFINE due == LoanState(ln, pb, t)
           P == ln.principal_due
           I == LoanInterestDue(ln, t)
           M == MarginOver(ln.principal_due, t - pb)
           OI == due.overdue.interest
           OM == due.overdue.margin
           oi == MinOf(OI, payment)
           om == MinOf(OM, payment - oi)
           di == MinOf(due.due_interest, payment - oi - om)
           dm == MinOf(due.due_margin_interest, payment - oi - om - di)
           ip == oi + di
           mp == om + dm
           pp == MinOf(P, payment - ip - mp)
<1>1. /\ I \in Nat /\ M \in Nat /\ OI \in Nat /\ OI <= I
      /\ OM \in Nat /\ OM <= M
      /\ due.due_interest = I - OI /\ due.due_margin_interest = M - OM
      /\ due.principal_due = P
  BY DueParts
<1>2. P \in Nat
  BY DEF LoanType
<1>3. LoanRepay(ln, pb, payment, t) =
        [interest_paid |-> ip, margin_paid |-> mp, principal_paid |-> pp,
         change |-> payment - ip - mp - pp, close |-> pp = due.principal_due,
         margin_paid_by |-> pb + PayInterest(M, mp, t - pb).paid_for,
         lpp |-> RepayShares(ln, t, ip + pp)]
  BY <1>1 DEF LoanRepay, RepayDue
<1> HIDE DEF due, I, M, OI, OM, P
<1>4. oi \in Nat /\ oi <= payment /\ oi <= OI /\ (oi < OI => oi = payment)
  BY <1>1 DEF MinOf
<1> HIDE DEF oi
<1>5. /\ om \in Nat /\ om <= payment - oi /\ om <= OM
      /\ (om < OM => om = payment - oi)
  BY <1>1, <1>4 DEF MinOf
<1> HIDE DEF om
<1>6. /\ di \in Nat /\ di <= payment - oi - om /\ di <= I - OI
      /\ (di < I - OI => di = payment - oi - om)
  BY <1>1, <1>4, <1>5 DEF MinOf
<1> HIDE DEF di
<1>7. /\ dm \in Nat /\ dm <= payment - oi - om - di /\ dm <= M - OM
      /\ (dm < M - OM => dm = payment - oi - om - di)
  BY <1>1, <1>4, <1>5, <1>6 DEF MinOf
<1> HIDE DEF dm
<1>8. /\ pp \in Nat /\ pp <= payment - ip - mp /\ pp <= P
      /\ (pp < P => pp = payment - ip - mp)
  BY <1>1, <1>2, <1>4, <1>5, <1>6, <1>7 DEF MinOf
<1> HIDE DEF pp
<1>9. /\ ip \in Nat /\ ip <= I /\ mp \in Nat /\ mp <= M
      /\ payment - ip - mp - pp \in Nat
      /\ ip + mp + pp + (payment - ip - mp - pp) = payment
  BY <1>1, <1>2, <1>4, <1>5, <1>6, <1>7, <1>8
<1>10. (ip < I => pp = 0) /\ (mp < M => pp = 0)
  BY <1>1, <1>2, <1>4, <1>5, <1>6, <1>7, <1>8
<1>11. P + I + M <= payment => pp = P
  BY <1>1, <1>2, <1>8, <1>9
<1>12. pp < P => payment - ip - mp - pp = 0
  BY <1>8, <1>9
<1> HIDE DEF ip, mp
<1> QED
  BY <1>3, <1>8, <1>9, <1>10, <1>11, <1>12 DEF P, I, M

(***************************************************************************)
(* The pool finds the same shares in its part of the payment as the lease, *)
(* and updates the loan accordingly.                                       *)
(***************************************************************************)
LEMMA PoolAgrees ==
    ASSUME NEW ln \in LoanType, NEW pb \in Nat, NEW t \in Nat, pb <= t,
           NEW payment \in Nat
    PROVE  LET r == LoanRepay(ln, pb, payment, t)
               paid == PayInterest(LoanInterestDue(ln, t),
                                   r.interest_paid + r.principal_paid,
                                   DuePeriod(ln, t))
           IN  /\ r.lpp.interest = r.interest_paid
               /\ r.lpp.principal = r.principal_paid
               /\ r.lpp.excess = 0
               /\ r.lpp.loan = IF r.principal_paid = ln.principal_due THEN NoLoan
                               ELSE Loan(ln.principal_due - r.principal_paid,
                                         ln.annual_interest_rate,
                                         ln.interest_paid + paid.paid_for)
<1> DEFINE r == LoanRepay(ln, pb, payment, t)
           P == ln.principal_due
           I == LoanInterestDue(ln, t)
           ip == r.interest_paid
           pp == r.principal_paid
           period == DuePeriod(ln, t)
           paid == PayInterest(I, ip + pp, period)
<1>1. /\ ip \in Nat /\ ip <= I /\ pp \in Nat /\ pp <= P
      /\ (ip < I => pp = 0)
      /\ r.lpp = RepayShares(ln, t, ip + pp)
  BY RepaySplit
<1>2. I \in Nat /\ period \in Nat /\ P \in Nat
  BY LoanInterestNat DEF LoanType
<1> HIDE DEF r, ip, pp, I, period, P
<1>3. paid.change = (ip + pp) - (IF I <= ip + pp THEN I ELSE ip + pp)
  <2>1. ip + pp \in Nat
    BY <1>1
  <2> HIDE DEF paid
  <2> QED
    BY <1>2, <2>1, PayInterestSplit DEF paid
<1>4. paid.change = pp
  BY <1>1, <1>2, <1>3
<1> HIDE DEF paid
<1>5. RepayShares(ln, t, ip + pp) =
        [interest |-> (ip + pp) - pp, principal |-> pp, excess |-> pp - pp,
         loan |-> IF pp = P THEN NoLoan
                  ELSE Loan(P - pp, ln.annual_interest_rate,
                            ln.interest_paid + paid.paid_for)]
  BY <1>1, <1>2, <1>4 DEF RepayShares, paid, I, period, P
<1>6. (ip + pp) - pp = ip /\ pp - pp = 0
  BY <1>1
<1> QED
  BY <1>1, <1>5, <1>6 DEF r, ip, pp, I, period, paid, P

(***************************************************************************)
(* Past a repayment the loan and the time the margin is paid by are typed  *)
(* and neither is paid for the future; a loan with principal left has it   *)
(* reduced by the payment, a loan without is none.                         *)
(***************************************************************************)
LEMMA RepayTyped ==
    ASSUME NEW ln \in LoanType, NEW pb \in Nat, NEW t \in Nat, pb <= t,
           ln.interest_paid <= t, NEW payment \in Nat
    PROVE  LET r == LoanRepay(ln, pb, payment, t)
           IN  /\ r.lpp.loan \in LoanType
               /\ r.lpp.loan.interest_paid <= t
               /\ r.lpp.loan.principal_due = ln.principal_due - r.principal_paid
               /\ r.lpp.loan.principal_due = 0 => r.lpp.loan = NoLoan
               /\ r.margin_paid_by \in Nat /\ pb <= r.margin_paid_by
               /\ r.margin_paid_by <= t
<1> DEFINE r == LoanRepay(ln, pb, payment, t)
           P == ln.principal_due
           I == LoanInterestDue(ln, t)
           M == MarginOver(ln.principal_due, t - pb)
           period == DuePeriod(ln, t)
           q == PayInterest(I, r.interest_paid + r.principal_paid, period).paid_for
           mq == PayInterest(M, r.margin_paid, t - pb).paid_for
<1>1. /\ P \in Nat /\ ln.annual_interest_rate \in Nat
      /\ ln.interest_paid \in Nat
  BY DEF LoanType
<1>2. I \in Nat /\ M \in Nat /\ period \in Nat /\ t - pb \in Nat
  <2>1. t - pb \in Nat
    OBVIOUS
  <2> QED
    BY <1>1, <2>1, LoanInterestNat, MarginNat
<1>3. /\ r.interest_paid \in Nat /\ r.margin_paid \in Nat
      /\ r.principal_paid \in Nat /\ r.principal_paid <= P
      /\ r.margin_paid_by = pb + mq
  BY RepaySplit
<1>4. r.lpp.loan = IF r.principal_paid = P THEN NoLoan
                   ELSE Loan(P - r.principal_paid, ln.annual_interest_rate,
                             ln.interest_paid + q)
  BY PoolAgrees
<1>5. period = t - ln.interest_paid
  BY <1>1 DEF DuePeriod
<1> HIDE DEF r, P, I, M, period
<1>6. q \in Nat /\ q <= period
  <2>1. r.interest_paid + r.principal_paid \in Nat
    BY <1>3
  <2> QED
    BY <1>2, <2>1, PayInterestSplit
<1>7. mq \in Nat /\ mq <= t - pb
  BY <1>2, <1>3, PayInterestSplit
<1> HIDE DEF q, mq
<1>8. CASE r.principal_paid = P
  BY <1>1, <1>3, <1>4, <1>7, <1>8 DEF NoLoan, LoanType, r, P
<1>9. CASE r.principal_paid # P
  <2>1. r.lpp.loan = [principal_due |-> P - r.principal_paid,
                      annual_interest_rate |-> ln.annual_interest_rate,
                      interest_paid |-> ln.interest_paid + q]
    BY <1>4, <1>9 DEF Loan
  <2>2. P - r.principal_paid \in Nat \ {0} /\ ln.interest_paid + q \in Nat
        /\ ln.interest_paid + q <= t
    BY <1>1, <1>3, <1>5, <1>6, <1>9
  <2> QED
    BY <1>1, <1>3, <1>7, <2>1, <2>2 DEF LoanType, r, P
<1> QED
  BY <1>8, <1>9

(***************************************************************************)
(* A repayment reduces the debt by what it brings to the creditors and by  *)
(* nothing more.                                                           *)
(***************************************************************************)
LEMMA RepayForgivesNothing ==
    ASSUME NEW ln \in LoanType, NEW pb \in Nat, NEW t \in Nat, pb <= t,
           ln.interest_paid <= t, NEW payment \in Nat
    PROVE  LET r == LoanRepay(ln, pb, payment, t)
           IN  TotalDue(LoanState(r.lpp.loan, r.margin_paid_by, t))
                   + (payment - r.change) >= TotalDue(LoanState(ln, pb, t))
<1> DEFINE r == LoanRepay(ln, pb, payment, t)
           P == ln.principal_due
           I == LoanInterestDue(ln, t)
           M == MarginOver(ln.principal_due, t - pb)
           ip == r.interest_paid
           mp == r.margin_paid
           pp == r.principal_paid
           period == DuePeriod(ln, t)
           perYear == PercentOf(ln.annual_interest_rate, P)
           q == PayInterest(I, ip + pp, period).paid_for
           mq == PayInterest(M, mp, t - pb).paid_for
           nl == r.lpp.loan
           npb == r.margin_paid_by
           NI == LoanInterestDue(nl, t)
           NM == MarginOver(nl.principal_due, t - npb)
<1>1. /\ ip \in Nat /\ ip <= I /\ mp \in Nat /\ mp <= M
      /\ pp \in Nat /\ pp <= P /\ r.change \in Nat
      /\ ip + mp + pp + r.change = payment
      /\ (ip < I => pp = 0) /\ (mp < M => pp = 0)
      /\ npb = pb + mq
  BY RepaySplit
<1>2. /\ nl \in LoanType /\ nl.interest_paid <= t /\ nl.principal_due = P - pp
      /\ npb \in Nat /\ npb <= t
      /\ nl.principal_due = 0 => nl = NoLoan
  BY RepayTyped
<1>3. TotalDue(LoanState(ln, pb, t)) = P + I + M /\ I \in Nat /\ M \in Nat
  BY DueParts
<1>4. /\ TotalDue(LoanState(nl, npb, t)) = nl.principal_due + NI + NM
      /\ NI \in Nat /\ NM \in Nat
  <2> HIDE DEF nl, npb
  <2> QED
    BY <1>2, DueParts
<1>5. P \in Nat /\ period \in Nat /\ perYear \in Nat /\ t - pb \in Nat
      /\ ln.interest_paid \in Nat
  BY LoanInterestNat DEF LoanType
<1>6. nl = IF pp = P THEN NoLoan
           ELSE Loan(P - pp, ln.annual_interest_rate, ln.interest_paid + q)
  BY PoolAgrees
<1>7. I = InterestOver(perYear, period)
  BY DEF LoanInterestDue
<1>8. period = t - ln.interest_paid
  BY <1>5 DEF DuePeriod
<1>9. CASE pp > 0
  <2>1. ip = I /\ mp = M
    BY <1>1, <1>3, <1>9
  <2> HIDE DEF r, P, I, M, ip, mp, pp, nl, npb, NI, NM
  <2>2. payment - r.change = I + M + pp
    BY <1>1, <1>3, <2>1
  <2> QED
    BY <1>1, <1>2, <1>3, <1>4, <1>5, <2>2 DEF r, nl, npb
<1>10. CASE pp = 0 /\ P # 0
  <2> HIDE DEF r, P, I, M, ip, mp, pp, nl, npb, NI, NM, perYear, period, q, mq
  <2>1. nl = Loan(P, ln.annual_interest_rate, ln.interest_paid + q)
    BY <1>5, <1>6, <1>10
  <2>2. /\ nl.principal_due = P /\ nl.annual_interest_rate = ln.annual_interest_rate
        /\ nl.interest_paid = ln.interest_paid + q
    BY <2>1 DEF Loan
  <2>3. ip + pp = ip
    BY <1>1, <1>10
  <2>4. q \in Nat /\ q <= period
    BY <1>1, <1>3, <1>5, <2>3, PayInterestSplit DEF q
  <2>5. DuePeriod(nl, t) = period - q
    BY <1>5, <1>8, <2>2, <2>4 DEF DuePeriod
  <2>6. NI = InterestOver(perYear, period - q)
    BY <2>2, <2>5 DEF NI, LoanInterestDue, perYear, P
  <2>7. InterestOver(perYear, period - PayInterest(I, ip, period).paid_for)
            >= I - ip
    BY <1>1, <1>5, <1>7, YearAssumption, RestOfInterest
  <2>8. NI >= I - ip
    BY <2>3, <2>6, <2>7 DEF q
  <2>9. M = InterestOver(PercentOf(margin_interest, P), t - pb)
    BY DEF M, MarginOver, P
  <2>10. PercentOf(margin_interest, P) \in Nat
    BY <1>5, MarginNat
  <2>11. InterestOver(PercentOf(margin_interest, P),
                      (t - pb) - PayInterest(M, mp, t - pb).paid_for)
             >= M - mp
    BY <1>1, <1>5, <2>9, <2>10, YearAssumption, RestOfInterest
  <2>12. mq \in Nat /\ t - npb = (t - pb) - mq
    <3>1. mq \in Nat
      BY <1>1, <1>3, <1>5, PayInterestSplit DEF mq
    <3> QED
      BY <1>1, <3>1
  <2>13. NM >= M - mp
    BY <2>2, <2>11, <2>12 DEF NM, MarginOver, mq
  <2>14. payment - r.change = ip + mp
    BY <1>1, <1>10
  <2> QED
    BY <1>1, <1>3, <1>4, <1>5, <2>2, <2>8, <2>13, <2>14 DEF r, nl, npb
<1>11. CASE P = 0
  <2>1. I = 0 /\ M = 0
    <3>1. PercentOf(margin_interest, 0) = 0 /\ perYear = 0
      BY <1>11, LeaseLoanAssumption DEF PercentOf, SafeMul, HUNDRED, LoanType
    <3>2. \A p \in Nat : InterestOver(0, p) = 0
      BY YearAssumption DEF SafeMul, InterestOver
    <3> QED
      BY <1>5, <1>7, <1>11, <3>1, <3>2 DEF MarginOver
  <2> HIDE DEF r, P, I, M, ip, mp, pp, nl, npb, NI, NM
  <2> QED
    BY <1>1, <1>2, <1>3, <1>4, <1>5, <1>11, <2>1 DEF r, nl, npb
<1> QED
  BY <1>1, <1>5, <1>9, <1>10, <1>11

-----------------------------------------------------------------------------
(* The position *)

PriceValue == [amount : Nat \ {0}, quote : Nat \ {0}]

(***************************************************************************)
(* Converting an amount at a price gives an amount, and nothing for        *)
(* nothing.                                                                *)
(***************************************************************************)
LEMMA ConvertNat ==
    ASSUME NEW p \in PriceValue, NEW a \in Nat
    PROVE  /\ Total(a, p) \in Nat /\ ToAssets(a, p) \in Nat
           /\ Total(0, p) = 0 /\ ToAssets(0, p) = 0
<1>1. /\ p.amount \in Nat \ {0} /\ p.quote \in Nat \ {0}
      /\ p.amount \in Nat /\ p.quote \in Nat
  BY DEF PriceValue
<1>2. /\ SafeMul(p.quote, a, p.amount) \in Nat
      /\ SafeMul(p.amount, a, p.quote) \in Nat
      /\ SafeMul(p.quote, 0, p.amount) = 0
      /\ SafeMul(p.amount, 0, p.quote) = 0
  BY <1>1, SafeMulNat, SafeMulWhole
<1> QED
  BY <1>2 DEF Total, ToAssets, Inv, Price

(***************************************************************************)
(* A partial liquidation is a proper part of the position.                 *)
(***************************************************************************)
LEMMA LiquidationIsPart ==
    ASSUME NEW asset \in Nat \ {0}, NEW amount \in Int, amount >= 0,
           NEW p \in PriceValue
    PROVE  LET l == MayAskLiquidation(asset, amount, p)
           IN  /\ l.kind \in {"None", "Partial", "Full"}
               /\ l.kind = "None" => l = NoLiquidation
               /\ l.kind = "Partial" =>
                      l.amount \in Nat /\ l.amount > 0 /\ l.amount < asset
               /\ amount = 0 => l = NoLiquidation
<1> DEFINE v == ValidateCloseAmount(asset, amount, p)
           left == MaxOf(asset - amount, 0)
<1>1. min_transaction \in Nat \ {0} /\ min_asset \in Nat \ {0}
  BY PositionAssumption DEF InvariantHeld
<1>2. amount \in Nat /\ left \in Nat
  BY DEF MaxOf
<1>3. v \in {"Ok", "TooSmall", "TooBig"}
  BY DEF ValidateCloseAmount
<1>4. amount = 0 => v = "TooSmall"
  BY <1>1, ConvertNat DEF ValidateCloseAmount, ValidTransaction
<1>5. v = "Ok" => left # 0
  BY <1>1, ConvertNat DEF ValidateCloseAmount, ValidAsset
<1>6. left # 0 => amount < asset
  BY <1>2 DEF MaxOf
<1> HIDE DEF v, left
<1>7. MayAskLiquidation(asset, amount, p) =
        CASE v = "TooSmall" -> NoLiquidation
          [] v = "TooBig" -> [kind |-> "Full", amount |-> 0]
          [] OTHER -> [kind |-> "Partial", amount |-> amount]
  BY DEF MayAskLiquidation, v
<1>8. CASE v = "TooSmall"
  BY <1>7, <1>8 DEF NoLiquidation
<1>9. CASE v = "TooBig"
  BY <1>4, <1>7, <1>9 DEF NoLiquidation
<1>10. CASE v = "Ok"
  BY <1>2, <1>4, <1>5, <1>6, <1>7, <1>10
<1> QED
  BY <1>3, <1>8, <1>9, <1>10

(***************************************************************************)
(* What Lease::check_close_policy may find.  A debt of nothing is Paid     *)
(* unless a policy closes the position first.                              *)
(***************************************************************************)
DueValue(due) ==
    /\ TotalDue(due) \in Nat /\ TotalDueInterest(due) \in Nat
    /\ TotalDue(due) = 0 => TotalDueInterest(due) = 0
    /\ due.principal_due \in Nat
    /\ due.overdue.start_in \in Nat

(***************************************************************************)
(* The due of a loan, as Loan::state computes it, consists of amounts.     *)
(***************************************************************************)
LEMMA DueIsValue ==
    ASSUME NEW ln \in LoanType, NEW pb \in Nat, NEW t \in Nat, pb <= t
    PROVE  DueValue(LoanState(ln, pb, t))
<1> DEFINE due == LoanState(ln, pb, t)
           I == LoanInterestDue(ln, t)
           M == MarginOver(ln.principal_due, t - pb)
<1>1. /\ I \in Nat /\ M \in Nat /\ due.principal_due = ln.principal_due
      /\ due.overdue.start_in \in Nat /\ TotalDueInterest(due) = I + M
      /\ TotalDue(due) = ln.principal_due + I + M
  BY DueParts
<1>2. ln.principal_due \in Nat
  BY DEF LoanType
<1> HIDE DEF due, I, M
<1>3. DueValue(due)
  BY <1>1, <1>2 DEF DueValue
<1> QED
  BY <1>3 DEF due

(***************************************************************************)
(* What an overdue collection asks for is an amount.                       *)
(***************************************************************************)
LEMMA CollectionNat ==
    ASSUME NEW due, DueValue(due), NEW rate \in Nat
    PROVE  /\ CollectOverdue(due, rate).start_in \in Nat \cup {Never}
           /\ CollectOverdue(due, rate).amount \in {0, TotalDueInterest(due)}
<1> DEFINE interest == TotalDueInterest(due)
           a_year == PercentOf(rate + margin_interest, due.principal_due)
           accrue == IF interest >= min_transaction THEN 0
                     ELSE SafeMul(YEAR, min_transaction - interest, a_year)
           never == interest < min_transaction /\ a_year = 0
           start_in == IF never THEN Never
                       ELSE MaxOf(due.overdue.start_in, accrue)
<1>1. /\ min_transaction \in Nat /\ interest \in Nat
      /\ due.overdue.start_in \in Nat /\ YEAR \in Nat
  BY PositionAssumption, YearAssumption DEF DueValue, InvariantHeld
<1>2. a_year \in Nat
  <2>1. rate + margin_interest \in Nat /\ due.principal_due \in Nat
    BY LeaseLoanAssumption DEF DueValue
  <2> QED
    BY <2>1, PercentOfNat
<1> HIDE DEF interest, a_year
<1>3. ~never => accrue \in Nat
  <2>1. CASE interest >= min_transaction
    BY <2>1
  <2>2. CASE ~(interest >= min_transaction) /\ a_year # 0
    <3>1. min_transaction - interest \in Nat
      BY <1>1, <2>2
    <3> QED
      BY <1>1, <1>2, <2>2, <3>1, SafeMulNat
  <2> QED
    BY <1>1, <2>1, <2>2
<1> HIDE DEF accrue, never
<1>4. start_in \in Nat \cup {Never}
  BY <1>1, <1>3 DEF MaxOf
<1> HIDE DEF start_in
<1>5. CollectOverdue(due, rate) =
        [start_in |-> start_in, amount |-> IF start_in = 0 THEN interest ELSE 0]
  BY DEF CollectOverdue, OverdueCollection, start_in, never, accrue, interest,
         a_year
<1> QED
  BY <1>4, <1>5 DEF interest

(***************************************************************************)
(* Liability::amount_to_liquidate is an amount.                            *)
(***************************************************************************)
LEMMA ToLiquidateNat ==
    ASSUME NEW asset \in Nat \ {0}, NEW dues \in Nat
    PROVE  /\ AmountToLiquidate(asset, dues) \in Int
           /\ AmountToLiquidate(asset, dues) >= 0
           /\ dues = 0 => AmountToLiquidate(asset, dues) = 0
<1> DEFINE h == PercentOf(liability.healthy, asset)
           over == dues - MinOf(dues, h)
<1>1. /\ liability.healthy \in Nat /\ HUNDRED \in Nat
      /\ HUNDRED - liability.healthy \in Nat \ {0}
  <2>1. HUNDRED \in Nat
    BY DEF HUNDRED
  <2>2. /\ liability.healthy \in 1 .. HUNDRED
        /\ liability.first_liq_warn \in 1 .. HUNDRED
        /\ liability.healthy < liability.first_liq_warn
    BY PositionAssumption DEF InvariantHeld
  <2> QED
    BY <2>1, <2>2
<1>2. h \in Nat
  BY <1>1, PercentOfNat
<1> HIDE DEF h
<1>3. over \in Nat /\ (dues = 0 => over = 0)
  BY <1>2 DEF MinOf
<1> HIDE DEF over
<1>4. /\ SafeMul(over, HUNDRED, HUNDRED - liability.healthy) \in Nat
  BY <1>1, <1>3, SafeMulNat
<1>5. SafeMul(0, HUNDRED, HUNDRED - liability.healthy) = 0
  BY <1>1 DEF SafeMul
<1> QED
  BY <1>1, <1>3, <1>4, <1>5 DEF AmountToLiquidate, over, h

PolicyValue == [take_profit : Nat, stop_loss : Nat]

PositionValue == [amount : Nat, policy : PolicyValue]

(***************************************************************************)
(* check_close_policy has one of six answers, Paid only when nothing is    *)
(* due; a partial liquidation takes an actual part of the position.        *)
(***************************************************************************)
LEMMA StatusIs ==
    ASSUME NEW pos \in PositionValue, pos.amount > 0, NEW due, DueValue(due),
           NEW rate \in Nat, NEW p \in PriceValue
    PROVE  LET s == CheckClosePolicy(pos, due, rate, p)
           IN  /\ s.kind \in {"StopLoss", "TakeProfit", "Partial", "Full",
                              "Paid", "None"}
               /\ s.kind = "Partial" =>
                      s.amount \in Nat /\ s.amount > 0 /\ s.amount < pos.amount
               /\ s.kind = "Paid" => TotalDue(due) = 0
               /\ TotalDue(due) = 0 => s.kind \notin {"Partial", "Full", "None"}
               /\ pos.policy.take_profit = 0 => s.kind # "TakeProfit"
               /\ pos.policy.stop_loss = 0 => s.kind # "StopLoss"
<1> DEFINE dues == ToAssets(TotalDue(due), p)
           strategy == MayTrigger(pos.policy, pos.amount, dues)
           a == LiquidationForLiability(pos.amount, due, p)
           b == LiquidationForOverdue(pos.amount, due, rate, p)
           liquidation == AskLiquidation(pos.amount, due, rate, p)
           s == CheckClosePolicy(pos, due, rate, p)
<1>1. pos.amount \in Nat \ {0}
  BY DEF PositionValue
<1>2. dues \in Nat /\ (TotalDue(due) = 0 => dues = 0)
  BY ConvertNat DEF DueValue
<1>3. /\ strategy \in {"StopLoss", "TakeProfit", "None"}
      /\ pos.policy.take_profit = 0 => strategy # "TakeProfit"
      /\ pos.policy.stop_loss = 0 => strategy # "StopLoss"
  BY DEF MayTrigger
<1>4. /\ a.kind \in {"None", "Partial", "Full"}
      /\ a.kind = "None" => a = NoLiquidation
      /\ a.kind = "Partial" =>
             a.amount \in Nat /\ a.amount > 0 /\ a.amount < pos.amount
      /\ TotalDue(due) = 0 => a = NoLiquidation
  <2> DEFINE x == AmountToLiquidate(pos.amount, dues)
  <2>1. x \in Int /\ x >= 0 /\ (dues = 0 => x = 0)
    BY <1>1, <1>2, ToLiquidateNat
  <2>2. a = MayAskLiquidation(pos.amount, x, p)
    BY DEF LiquidationForLiability
  <2> HIDE DEF x, a
  <2> QED
    BY <1>1, <1>2, <2>1, <2>2, LiquidationIsPart
<1>5. /\ b.kind \in {"None", "Partial", "Full"}
      /\ b.kind = "None" => b = NoLiquidation
      /\ b.kind = "Partial" =>
             b.amount \in Nat /\ b.amount > 0 /\ b.amount < pos.amount
      /\ TotalDue(due) = 0 => b = NoLiquidation
  <2> DEFINE c == CollectOverdue(due, rate).amount
             x == ToAssets(c, p)
  <2>1. c \in {0, TotalDueInterest(due)}
    BY CollectionNat
  <2>2. c \in Nat /\ (TotalDue(due) = 0 => c = 0)
    BY <2>1 DEF DueValue
  <2> HIDE DEF c
  <2>3. x \in Nat /\ x \in Int /\ x >= 0 /\ (c = 0 => x = 0)
    BY <2>2, ConvertNat
  <2>4. b = MayAskLiquidation(pos.amount, x, p)
    BY DEF LiquidationForOverdue, c
  <2> HIDE DEF x, b
  <2> QED
    BY <1>1, <2>2, <2>3, <2>4, LiquidationIsPart
<1>6. liquidation \in {a, b}
  BY DEF AskLiquidation, Worse
<1> HIDE DEF a, b
<1>7. /\ liquidation.kind \in {"None", "Partial", "Full"}
      /\ liquidation.kind = "None" => liquidation = NoLiquidation
      /\ liquidation.kind = "Partial" =>
             /\ liquidation.amount \in Nat /\ liquidation.amount > 0
             /\ liquidation.amount < pos.amount
      /\ TotalDue(due) = 0 => liquidation = NoLiquidation
  BY <1>4, <1>5, <1>6
<1>8. s = CASE strategy # "None" -> [kind |-> strategy, amount |-> 0]
            [] strategy = "None" /\ liquidation # NoLiquidation -> liquidation
            [] strategy = "None" /\ liquidation = NoLiquidation ->
                 [kind |-> IF TotalDue(due) = 0 THEN "Paid" ELSE "None",
                  amount |-> 0]
  BY DEF CheckClosePolicy
<1> HIDE DEF strategy, liquidation, s
<1>9. CASE strategy # "None"
  BY <1>3, <1>8, <1>9 DEF s
<1>10. CASE strategy = "None" /\ liquidation # NoLiquidation
  <2>1. s = liquidation
    BY <1>8, <1>10
  <2> QED
    BY <1>7, <1>10, <2>1 DEF s
<1>11. CASE strategy = "None" /\ liquidation = NoLiquidation
  BY <1>8, <1>11 DEF s
<1> QED
  BY <1>9, <1>10, <1>11

(***************************************************************************)
(* The alarms have a time to come.                                         *)
(***************************************************************************)
AlarmsValue(a) ==
    /\ a = [below |-> a.below, above |-> a.above, time |-> a.time,
            set_at |-> a.set_at]
    /\ a.time \in Nat \cup {Never}

(***************************************************************************)
(* The alarms set past a check are a price range and a time, of their      *)
(* types.                                                                  *)
(***************************************************************************)
LEMMA AlarmsOfValue ==
    ASSUME NEW pos, NEW due, DueValue(due), NEW rate \in Nat, now \in Nat
    PROVE  AlarmsValue(AlarmsOf(pos, due, rate))
<1> DEFINE in == CollectOverdue(due, rate).start_in
           st == Steadiness(pos, due, rate, price)
<1>1. in \in Nat \cup {Never} /\ liability.recalc_time \in Nat
  BY CollectionNat, PositionAssumption DEF InvariantHeld
<1>2. st.for = IF in = Never THEN liability.recalc_time
               ELSE MinOf(in, liability.recalc_time)
  BY DEF Steadiness
<1> HIDE DEF in
<1>3. st.for \in Nat
  BY <1>1, <1>2 DEF MinOf
<1>4. AlarmsOf(pos, due, rate) =
        [below |-> st.below, above |-> st.above, time |-> now + st.for,
         set_at |-> now]
  BY DEF AlarmsOf
<1> HIDE DEF st
<1>5. now + st.for \in Nat
  BY <1>3
<1> QED
  BY <1>4, <1>5 DEF AlarmsValue

-----------------------------------------------------------------------------
(* The inductive invariant *)

(***************************************************************************)
(* Types; a partial sale leaves a part of the position; a lease that buys  *)
(* its asset or is opened owes some principal and one that has come to its *)
(* end owes none.                                                          *)
(***************************************************************************)
LeaseInv ==
    /\ TypeOK
    /\ AlarmsValue(alarms)
    /\ state.at \in {"PartialLiquidation", "PartialClose"} =>
          state.amount < position.amount
    /\ state.at \in OpenedStates \cup {"BuyAsset"} => loan.principal_due > 0
    /\ SettledMeansRepaid
    /\ state.at = "Init" => loan = NoLoan

(***************************************************************************)
(* A policy the lease keeps is one set by the customer, perhaps with its   *)
(* take profit reset.                                                      *)
(***************************************************************************)
LEMMA PolicyKnown ==
    /\ KnownPolicies \subseteq PolicyValue
    /\ \A p \in KnownPolicies : [p EXCEPT !.take_profit = 0] \in KnownPolicies
    /\ (\A p \in Policies : p.stop_loss = 0) =>
          \A p \in KnownPolicies : p.stop_loss = 0
<1>1. Policies \subseteq PolicyValue
  BY LeaseAssumption DEF PolicyValue
<1>2. ASSUME NEW p \in KnownPolicies
      PROVE  \/ p \in Policies
             \/ p = NoPolicy
             \/ \E o \in Policies : p = [o EXCEPT !.take_profit = 0]
  BY DEF KnownPolicies
<1>3. \A o \in PolicyValue :
        /\ [o EXCEPT !.take_profit = 0] \in PolicyValue
        /\ [o EXCEPT !.take_profit = 0].stop_loss = o.stop_loss
        /\ [[o EXCEPT !.take_profit = 0] EXCEPT !.take_profit = 0]
              = [o EXCEPT !.take_profit = 0]
  BY DEF PolicyValue
<1>4. /\ NoPolicy \in PolicyValue /\ NoPolicy.stop_loss = 0
      /\ [NoPolicy EXCEPT !.take_profit = 0] = NoPolicy
  BY DEF NoPolicy, PolicyValue
<1>5. KnownPolicies \subseteq PolicyValue
  BY <1>1, <1>2, <1>3, <1>4
<1>6. ASSUME NEW p \in KnownPolicies
      PROVE  [p EXCEPT !.take_profit = 0] \in KnownPolicies
  <2>1. CASE p \in Policies
    BY <2>1 DEF KnownPolicies
  <2>2. CASE p = NoPolicy
    BY <1>4, <2>2 DEF KnownPolicies
  <2>3. CASE \E o \in Policies : p = [o EXCEPT !.take_profit = 0]
    <3>1. PICK o \in Policies : p = [o EXCEPT !.take_profit = 0]
      BY <2>3
    <3>2. [p EXCEPT !.take_profit = 0] = p
      BY <1>1, <1>3, <3>1
    <3> QED
      BY <1>6, <3>2
  <2> QED
    BY <1>2, <2>1, <2>2, <2>3
<1>7. ASSUME \A p \in Policies : p.stop_loss = 0, NEW p \in KnownPolicies
      PROVE  p.stop_loss = 0
  <2>1. CASE p \in Policies \/ p = NoPolicy
    BY <1>4, <1>7, <2>1
  <2>2. CASE \E o \in Policies : p = [o EXCEPT !.take_profit = 0]
    <3>1. PICK o \in Policies : p = [o EXCEPT !.take_profit = 0]
      BY <2>2
    <3>2. p.stop_loss = o.stop_loss
      BY <1>1, <1>3, <3>1
    <3> QED
      BY <1>7, <3>2
  <2> QED
    BY <1>2, <2>1, <2>2
<1> QED
  BY <1>5, <1>6, <1>7

(***************************************************************************)
(* What the invariant says of the loan's due and of the position.          *)
(***************************************************************************)
LEMMA Facts ==
    ASSUME LeaseInv
    PROVE  /\ loan \in LoanType /\ loan.interest_paid <= now
           /\ loan.annual_interest_rate \in Nat /\ loan.principal_due \in Nat
           /\ margin_paid_by \in Nat /\ margin_paid_by <= now /\ now \in Nat
           /\ DueValue(Due)
           /\ position \in PositionValue
           /\ price \in PriceValue
           /\ state.amount \in Nat
           /\ account \in Nat /\ reserve \in Nat
<1>1. /\ loan \in LoanType /\ loan.interest_paid <= now
      /\ margin_paid_by \in 0 .. now /\ now \in 0 .. MaxTime
      /\ position \in [amount : Nat, policy : KnownPolicies]
      /\ price \in Prices /\ state \in [at : States, amount : Nat]
      /\ account \in Nat /\ reserve \in Nat
  BY DEF LeaseInv, TypeOK
<1>2. now \in Nat /\ margin_paid_by \in Nat /\ margin_paid_by <= now
  BY <1>1, LeaseAssumption
<1>3. DueValue(Due)
  BY <1>1, <1>2, DueIsValue DEF Due
<1>4. position \in PositionValue
  BY <1>1, PolicyKnown DEF PositionValue
<1>5. price \in PriceValue
  BY <1>1, LeaseAssumption DEF PriceValue
<1>6. loan.annual_interest_rate \in Nat /\ loan.principal_due \in Nat
  BY <1>1 DEF LoanType
<1> QED
  BY <1>1, <1>2, <1>3, <1>4, <1>5, <1>6

NoStopLoss == \A p \in Policies : p.stop_loss = 0

KeepsDebt == TotalDue(Due)' + sent' >= TotalDue(Due)

(***************************************************************************)
(* The due in the next state is the one of the next state's loan.          *)
(***************************************************************************)
LEMMA DuePrimed ==
    TotalDue(Due)' = TotalDue(LoanState(loan', margin_paid_by', now'))
BY DEF Due

(***************************************************************************)
(* A step that leaves the loan alone keeps the debt.                       *)
(***************************************************************************)
LEMMA SameLoanKeepsDebt ==
    ASSUME LeaseInv, UNCHANGED <<loan, margin_paid_by, now>>, sent' \in Nat
    PROVE  KeepsDebt
<1>1. TotalDue(Due)' = TotalDue(Due)
  BY DuePrimed DEF Due
<1>2. TotalDue(Due) \in Nat
  BY Facts DEF DueValue
<1> QED
  BY <1>1, <1>2 DEF KeepsDebt

(***************************************************************************)
(* Repay::check_close_with_init gives up a take profit, and so never       *)
(* returns one; the position stays what it is apart from that.             *)
(***************************************************************************)
LEMMA CheckIs ==
    ASSUME LeaseInv, NEW pos \in [amount : Nat, policy : KnownPolicies],
           pos.amount > 0, NEW due, DueValue(due), NEW rate \in Nat
    PROVE  LET check == CheckCloseWithInit(pos, due, rate)
               s == check.status
           IN  /\ check.position \in [amount : Nat, policy : KnownPolicies]
               /\ check.position.amount = pos.amount
               /\ s.kind \in {"StopLoss", "Partial", "Full", "Paid", "None"}
               /\ s.kind = "Partial" =>
                      s.amount \in Nat /\ s.amount > 0 /\ s.amount < pos.amount
               /\ s.kind = "Paid" => TotalDue(due) = 0
               /\ TotalDue(due) = 0 => s.kind \notin {"Partial", "Full", "None"}
               /\ NoStopLoss => s.kind # "StopLoss"
<1> DEFINE first == CheckClosePolicy(pos, due, rate, price)
           reset == [pos EXCEPT !.policy.take_profit = 0]
           second == CheckClosePolicy(reset, due, rate, price)
           check == CheckCloseWithInit(pos, due, rate)
<1>1. pos \in PositionValue /\ price \in PriceValue
  BY PolicyKnown, Facts DEF PositionValue
<1>2. /\ reset.amount = pos.amount
      /\ reset.policy = [pos.policy EXCEPT !.take_profit = 0]
      /\ reset \in [amount : Nat, policy : KnownPolicies]
      /\ reset \in PositionValue
  <2>1. [pos.policy EXCEPT !.take_profit = 0] \in KnownPolicies
    BY PolicyKnown
  <2>2. reset = [amount |-> pos.amount,
                 policy |-> [pos.policy EXCEPT !.take_profit = 0]]
    OBVIOUS
  <2> HIDE DEF reset
  <2>3. reset \in [amount : Nat, policy : KnownPolicies]
    BY <2>1, <2>2
  <2> QED
    BY <2>2, <2>3, PolicyKnown DEF PositionValue
<1>3. reset.policy.take_profit = 0
  BY <1>1, <1>2 DEF PositionValue, PolicyValue
<1>4. NoStopLoss => pos.policy.stop_loss = 0 /\ reset.policy.stop_loss = 0
  BY <1>2, PolicyKnown DEF NoStopLoss
<1>5. check = IF first.kind = "TakeProfit"
              THEN [status |-> second, position |-> reset]
              ELSE [status |-> first, position |-> pos]
  BY DEF CheckCloseWithInit
<1> HIDE DEF reset, check
<1>6. /\ first.kind \in {"StopLoss", "TakeProfit", "Partial", "Full",
                         "Paid", "None"}
      /\ first.kind = "Partial" =>
             first.amount \in Nat /\ first.amount > 0 /\ first.amount < pos.amount
      /\ first.kind = "Paid" => TotalDue(due) = 0
      /\ TotalDue(due) = 0 => first.kind \notin {"Partial", "Full", "None"}
      /\ pos.policy.stop_loss = 0 => first.kind # "StopLoss"
  BY <1>1, StatusIs
<1>7. /\ second.kind \in {"StopLoss", "TakeProfit", "Partial", "Full",
                          "Paid", "None"}
      /\ second.kind = "Partial" =>
             second.amount \in Nat /\ second.amount > 0 /\ second.amount < pos.amount
      /\ second.kind = "Paid" => TotalDue(due) = 0
      /\ TotalDue(due) = 0 => second.kind \notin {"Partial", "Full", "None"}
      /\ second.kind # "TakeProfit"
      /\ reset.policy.stop_loss = 0 => second.kind # "StopLoss"
  BY <1>1, <1>2, <1>3, StatusIs
<1> HIDE DEF first, second
<1>8. CASE first.kind = "TakeProfit"
  BY <1>2, <1>4, <1>5, <1>7, <1>8 DEF check
<1>9. CASE first.kind # "TakeProfit"
  BY <1>4, <1>5, <1>6, <1>9 DEF check
<1> QED
  BY <1>8, <1>9

(***************************************************************************)
(* What a payment of any amount makes of the loan and of the margin.       *)
(***************************************************************************)
LEMMA RepayOutcome ==
    ASSUME LeaseInv, NEW amount \in Nat,
           NEW r, r = LoanRepay(loan, margin_paid_by, amount, now)
    PROVE  /\ r.lpp.loan \in LoanType /\ r.lpp.loan.interest_paid <= now
           /\ r.lpp.loan.principal_due = loan.principal_due - r.principal_paid
           /\ r.lpp.loan.principal_due = 0 => r.lpp.loan = NoLoan
           /\ r.margin_paid_by \in Nat /\ r.margin_paid_by <= now
<1>1. /\ loan \in LoanType /\ loan.interest_paid <= now
      /\ margin_paid_by \in Nat /\ margin_paid_by <= now /\ now \in Nat
      /\ amount \in Nat
  BY Facts
<1> QED
  BY <1>1, RepayTyped, Zenon

(***************************************************************************)
(* One step per action.  First the repayment, which four of them share.    *)
(***************************************************************************)
LEMMA TryRepayStep ==
    ASSUME LeaseInv, state.at \in OpenedStates,
           NEW payment \in Nat, NEW incoming \in Nat,
           payment <= account + incoming,
           NEW pos \in [amount : Nat, policy : KnownPolicies], pos.amount > 0,
           TryRepay(payment, incoming, pos)
    PROVE  LeaseInv' /\ (NoStopLoss => KeepsDebt)
<1> DEFINE r == LoanRepay(loan, margin_paid_by, payment, now)
           paid == payment - r.change
           due == LoanState(r.lpp.loan, r.margin_paid_by, now)
           rate == loan.annual_interest_rate
           check == CheckCloseWithInit(pos, due, rate)
           s == check.status
<1>1. /\ loan \in LoanType /\ loan.interest_paid <= now
      /\ rate \in Nat /\ loan.principal_due \in Nat /\ loan.principal_due > 0
      /\ margin_paid_by \in Nat /\ margin_paid_by <= now /\ now \in Nat
      /\ account \in Nat /\ reserve \in Nat
  BY Facts DEF LeaseInv
<1>2. /\ r.lpp.loan \in LoanType /\ r.lpp.loan.interest_paid <= now
      /\ r.lpp.loan.principal_due = 0 => r.lpp.loan = NoLoan
      /\ r.margin_paid_by \in Nat /\ r.margin_paid_by <= now
  BY RepayOutcome, Zenon
<1>3. r.change \in Nat /\ r.change <= payment
  <2>1. /\ r.interest_paid \in Nat /\ r.margin_paid \in Nat
        /\ r.principal_paid \in Nat /\ r.change \in Nat
        /\ r.interest_paid + r.margin_paid + r.principal_paid + r.change = payment
    BY <1>1, RepaySplit
  <2> HIDE DEF r
  <2> QED
    BY <2>1
<1>4. TotalDue(due) + paid >= TotalDue(Due)
  BY <1>1, RepayForgivesNothing DEF Due
<1> HIDE DEF r
<1>5. /\ DueValue(due)
      /\ TotalDue(due) \in Nat /\ r.lpp.loan.principal_due \in Nat
      /\ TotalDue(due) = 0 => r.lpp.loan.principal_due = 0
      /\ r.lpp.loan = NoLoan => TotalDue(due) = 0
  <2> DEFINE nl == r.lpp.loan
             npb == r.margin_paid_by
  <2>1. /\ nl \in LoanType /\ npb \in Nat /\ npb <= now
    BY <1>2
  <2> HIDE DEF nl, npb
  <2>2. DueValue(LoanState(nl, npb, now))
    BY <1>1, <2>1, DueIsValue
  <2>3. /\ LoanInterestDue(nl, now) \in Nat
        /\ MarginOver(nl.principal_due, now - npb) \in Nat
        /\ TotalDue(LoanState(nl, npb, now)) =
              nl.principal_due + LoanInterestDue(nl, now)
                  + MarginOver(nl.principal_due, now - npb)
    BY <1>1, <2>1, TotalDueIs
  <2>4. nl.principal_due \in Nat
    BY <2>1 DEF LoanType
  <2>5. nl = NoLoan => TotalDue(LoanState(nl, npb, now)) = 0
    BY <1>1, <2>1, NothingDueOnNoLoan
  <2> QED
    BY <2>2, <2>3, <2>4, <2>5 DEF nl, npb, DueValue
<1> HIDE DEF due
<1>6. /\ check.position \in [amount : Nat, policy : KnownPolicies]
      /\ check.position.amount = pos.amount
      /\ s.kind \in {"StopLoss", "Partial", "Full", "Paid", "None"}
      /\ s.kind = "Partial" =>
             s.amount \in Nat /\ s.amount > 0 /\ s.amount < pos.amount
      /\ s.kind = "Paid" => TotalDue(due) = 0
      /\ TotalDue(due) = 0 => s.kind \notin {"Partial", "Full", "None"}
      /\ NoStopLoss => s.kind # "StopLoss"
  BY <1>1, <1>5, CheckIs
<1>7. AlarmsValue(AlarmsOf(check.position, due, rate))
  BY <1>1, <1>5, AlarmsOfValue
<1>8. /\ position' = check.position
      /\ margin_paid_by' = r.margin_paid_by
      /\ UNCHANGED <<reserve, price, now>>
      /\ \/ /\ s.kind = "StopLoss"
            /\ state' = [at |-> "FullClose", amount |-> check.position.amount]
            /\ account' = account + incoming
            /\ sent' = 0
            /\ UNCHANGED <<loan, alarms>>
         \/ /\ s.kind # "StopLoss"
            /\ loan' = r.lpp.loan
            /\ sent' = paid
            /\ account' = account + incoming - paid
            /\ \/ /\ s.kind = "Paid"
                  /\ state' = [at |-> "PaidActive", amount |-> 0]
                  /\ UNCHANGED alarms
               \/ /\ s.kind = "None"
                  /\ state' = [at |-> "OpenedActive", amount |-> 0]
                  /\ alarms' = AlarmsOf(check.position, due, rate)
               \/ /\ s.kind \in {"Partial", "Full"}
                  /\ state' = [at |-> LiquidationState(s),
                               amount |-> LiquidationAmount(s, check.position)]
                  /\ UNCHANGED alarms
  BY DEF TryRepay, Repaid, StartSale, At, r, due
<1> HIDE DEF check, s
<1>9. pos.amount \in Nat /\ paid \in Nat /\ paid <= payment
  BY <1>3
<1>10. /\ loan' \in LoanType /\ loan'.interest_paid <= now'
       /\ margin_paid_by' \in 0 .. now'
       /\ account' \in Nat /\ sent' \in Nat
  BY <1>1, <1>2, <1>8, <1>9
<1> HIDE DEF paid
<1>11. /\ AlarmsValue(alarms)' /\ alarms'.time \in Nat \cup {Never}
  <2>1. AlarmsValue(alarms')
    BY <1>7, <1>8 DEF LeaseInv
  <2> QED
    BY <2>1 DEF AlarmsValue
<1>12. /\ state' \in [at : States, amount : Nat]
       /\ state'.at \in OpenedStates \/ (state'.at = "PaidActive" /\ s.kind = "Paid")
       /\ state'.at \in SaleStates => state'.amount \in 1 .. pos.amount
       /\ state'.at \in {"PartialLiquidation", "PartialClose"} =>
             state'.amount < pos.amount
  <2>1. CASE s.kind = "StopLoss"
    BY <1>6, <1>8, <1>9, <2>1 DEF States, OpenedStates, SaleStates, FinalStates
  <2>2. CASE s.kind \in {"Paid", "None"}
    BY <1>8, <2>2 DEF States, OpenedStates, SaleStates, FinalStates
  <2>3. CASE s.kind = "Partial"
    BY <1>6, <1>8, <1>9, <2>3
    DEF States, OpenedStates, SaleStates, FinalStates, LiquidationState,
        LiquidationAmount
  <2>4. CASE s.kind = "Full"
    BY <1>6, <1>8, <1>9, <2>4
    DEF States, OpenedStates, SaleStates, FinalStates, LiquidationState,
        LiquidationAmount
  <2> QED
    BY <1>6, <2>1, <2>2, <2>3, <2>4
<1>13. TypeOK'
  <2>1. reserve' \in Nat /\ price' \in Prices /\ now' \in 0 .. MaxTime
    BY <1>8 DEF LeaseInv, TypeOK
  <2> QED
    BY <1>6, <1>8, <1>9, <1>10, <1>11, <1>12, <2>1 DEF TypeOK
<1>14. state'.at \in OpenedStates \cup {"BuyAsset"} => loan'.principal_due > 0
  <2>1. CASE s.kind = "StopLoss"
    BY <1>1, <1>8, <2>1
  <2>2. CASE s.kind = "Paid"
    BY <1>8, <2>2 DEF OpenedStates, SaleStates
  <2>3. CASE s.kind \in {"None", "Partial", "Full"}
    BY <1>2, <1>5, <1>6, <1>8, <2>3
  <2> QED
    BY <1>6, <2>1, <2>2, <2>3
<1>15. SettledMeansRepaid'
  <2>1. CASE s.kind = "Paid"
    BY <1>2, <1>5, <1>6, <1>8, <2>1 DEF SettledMeansRepaid
  <2>2. CASE s.kind # "Paid"
    BY <1>12, <2>2
    DEF SettledMeansRepaid, OpenedStates, SaleStates, FinalStates
  <2> QED
    BY <2>1, <2>2
<1>16. state'.at # "Init"
  BY <1>12 DEF OpenedStates, SaleStates
<1>17. LeaseInv'
  BY <1>6, <1>8, <1>11, <1>12, <1>13, <1>14, <1>15, <1>16 DEF LeaseInv
<1>18. ASSUME NoStopLoss PROVE KeepsDebt
  <2>1. loan' = r.lpp.loan /\ sent' = paid /\ margin_paid_by' = r.margin_paid_by
        /\ now' = now
    BY <1>6, <1>8, <1>18
  <2>2. TotalDue(Due)' = TotalDue(due)
    BY <2>1, DuePrimed DEF due
  <2> QED
    BY <1>4, <2>1, <2>2 DEF KeepsDebt
<1> QED
  BY <1>17, <1>18

(***************************************************************************)
(* A payment in LPN by the customer keeps the invariant.                   *)
(***************************************************************************)
LEMMA RepayStep ==
    ASSUME LeaseInv, NEW payment \in Payments, Repay(payment)
    PROVE  LeaseInv' /\ (NoStopLoss => KeepsDebt)
<1>1. payment \in Nat /\ account \in Nat
  BY LeaseAssumption, Facts
<1>2. payment <= account + payment
  BY <1>1
<1>3. /\ state.at \in OpenedStates /\ position.amount > 0
      /\ position \in [amount : Nat, policy : KnownPolicies]
  BY DEF Repay, OpenedStates, LeaseInv, TypeOK
<1>4. TryRepay(payment, payment, position)
  BY DEF Repay
<1> QED
  BY <1>1, <1>2, <1>3, <1>4, TryRepayStep

(***************************************************************************)
(* A payment in another currency, once swapped, keeps the invariant.       *)
(***************************************************************************)
LEMMA FinishBuyLpnStep ==
    ASSUME LeaseInv, NEW yield \in Yields, FinishBuyLpn(yield)
    PROVE  LeaseInv' /\ (NoStopLoss => KeepsDebt)
<1> DEFINE payment == PercentOf(yield, state.amount)
<1>1. payment \in Nat /\ account \in Nat
  <2>1. yield \in Nat
    BY LeaseAssumption
  <2> QED
    BY <2>1, Facts, PercentOfNat
<1>2. /\ state.at \in OpenedStates /\ position.amount > 0
      /\ position \in [amount : Nat, policy : KnownPolicies]
  BY DEF FinishBuyLpn, OpenedStates, LeaseInv, TypeOK
<1>3. TryRepay(payment, payment, position)
  BY DEF FinishBuyLpn
<1> HIDE DEF payment
<1>4. payment <= account + payment
  BY <1>1
<1> QED
  BY <1>1, <1>2, <1>3, <1>4, TryRepayStep

(***************************************************************************)
(* Healing an opened lease, a repayment with what its account holds, keeps *)
(* the invariant.                                                          *)
(***************************************************************************)
LEMMA HealOpenedStep ==
    ASSUME LeaseInv, HealOpened
    PROVE  LeaseInv' /\ (NoStopLoss => KeepsDebt)
<1>1. account \in Nat /\ account <= account + 0 /\ 0 \in Nat
  BY Facts
<1>2. /\ state.at \in OpenedStates /\ position.amount > 0
      /\ position \in [amount : Nat, policy : KnownPolicies]
  BY DEF HealOpened, OpenedStates, LeaseInv, TypeOK
<1>3. TryRepay(account, 0, position)
  BY DEF HealOpened
<1> QED
  BY <1>1, <1>2, <1>3, TryRepayStep

(***************************************************************************)
(* The proceeds of a sale are an amount.                                   *)
(***************************************************************************)
LEMMA ProceedsNat ==
    ASSUME LeaseInv, NEW yield \in Yields
    PROVE  Proceeds(yield) \in Nat
<1>1. yield \in Nat
  BY LeaseAssumption
<1>2. Total(state.amount, price) \in Nat
  BY Facts, ConvertNat
<1> QED
  BY <1>1, <1>2, PercentOfNat DEF Proceeds

(***************************************************************************)
(* The end of a partial sale, a repayment out of its proceeds, keeps the   *)
(* invariant.                                                              *)
(***************************************************************************)
LEMMA FinishPartialSaleStep ==
    ASSUME LeaseInv, NEW yield \in Yields, FinishPartialSale(yield)
    PROVE  LeaseInv' /\ (NoStopLoss => KeepsDebt)
<1> DEFINE payment == Proceeds(yield)
           pos == [position EXCEPT !.amount = @ - state.amount]
<1>1. payment \in Nat /\ account \in Nat
  BY Facts, ProceedsNat
<1>2. state.at \in OpenedStates
  BY DEF FinishPartialSale, OpenedStates, SaleStates
<1>3. /\ position \in [amount : Nat, policy : KnownPolicies]
      /\ state.amount < position.amount /\ state.amount \in Nat
  BY Facts DEF FinishPartialSale, LeaseInv, TypeOK
<1>4. pos \in [amount : Nat, policy : KnownPolicies] /\ pos.amount > 0
  BY <1>3
<1>5. TryRepay(payment, payment, pos)
  BY DEF FinishPartialSale, Reduced
<1> HIDE DEF payment, pos
<1>6. payment <= account + payment
  BY <1>1
<1> QED
  BY <1>1, <1>2, <1>4, <1>5, <1>6, TryRepayStep

(***************************************************************************)
(* Most of the other actions leave the loan as it is.                      *)
(***************************************************************************)
SettledStates == FinalStates \cup {"PaidActive", "ClosingTransferIn"}

(***************************************************************************)
(* A step that leaves the loan and the position alone, and starts no       *)
(* partial sale of everything, keeps the invariant.                        *)
(***************************************************************************)
LEMMA QuietStep ==
    ASSUME LeaseInv, UNCHANGED <<loan, margin_paid_by, reserve, now>>,
           sent' = 0,
           state' \in [at : States, amount : Nat],
           position' \in [amount : Nat, policy : KnownPolicies],
           account' \in Nat, AlarmsValue(alarms'), price' \in Prices,
           state'.at \in OpenedStates => position'.amount > 0,
           state'.at \in SaleStates => state'.amount \in 1 .. position'.amount,
           state'.at \in {"PartialLiquidation", "PartialClose"} =>
               state'.amount < position'.amount,
           \/ state'.at = state.at
           \/ /\ state.at \in OpenedStates \cup {"BuyAsset"}
              /\ state'.at \in OpenedStates
           \/ state.at \in SettledStates /\ state'.at \in SettledStates
    PROVE  LeaseInv' /\ (NoStopLoss => KeepsDebt)
<1>1. TypeOK'
  BY DEF TypeOK, LeaseInv, AlarmsValue
<1>2. /\ state'.at \in OpenedStates \cup {"BuyAsset"} => loan'.principal_due > 0
      /\ state'.at = "Init" => loan' = NoLoan
      /\ SettledMeansRepaid'
  BY DEF LeaseInv, SettledMeansRepaid, SettledStates, OpenedStates, SaleStates,
         FinalStates
<1>3. AlarmsValue(alarms)'
  BY DEF AlarmsValue
<1>4. LeaseInv'
  BY <1>1, <1>2, <1>3 DEF LeaseInv
<1>5. KeepsDebt
  <2>1. sent' \in Nat
    OBVIOUS
  <2> QED
    BY <2>1, SameLoanKeepsDebt
<1> QED
  BY <1>4, <1>5

(***************************************************************************)
(* Starting the swap of a payment keeps the invariant.                     *)
(***************************************************************************)
LEMMA RepayOtherStep ==
    ASSUME LeaseInv, NEW payment \in SwapPayments, RepayOther(payment)
    PROVE  LeaseInv' /\ (NoStopLoss => KeepsDebt)
<1>1. payment \in Nat
  BY LeaseAssumption
<1>2. /\ state.at = "OpenedActive"
      /\ state' = [at |-> "BuyLpn", amount |-> payment]
      /\ sent' = 0
      /\ UNCHANGED <<position, loan, margin_paid_by, account, alarms, reserve,
                     price, now>>
  BY DEF RepayOther
<1> QED
  BY <1>1, <1>2, QuietStep
  DEF LeaseInv, TypeOK, States, OpenedStates, SaleStates, FinalStates

(***************************************************************************)
(* Handling an alarm keeps the invariant: it starts a sale of a part, or   *)
(* of all, or sets the alarms anew.                                        *)
(***************************************************************************)
LEMMA TryOnAlarmStep ==
    ASSUME LeaseInv, state.at = "OpenedActive", NEW removed,
           AlarmsValue(removed), TryOnAlarm(removed)
    PROVE  LeaseInv' /\ (NoStopLoss => KeepsDebt)
<1> DEFINE s == Status
<1>1. /\ DueValue(Due) /\ loan.annual_interest_rate \in Nat
      /\ position \in PositionValue /\ price \in PriceValue
      /\ now \in Nat /\ account \in Nat
      /\ position \in [amount : Nat, policy : KnownPolicies]
      /\ position.amount > 0 /\ price \in Prices
      /\ state \in [at : States, amount : Nat]
  BY Facts DEF LeaseInv, TypeOK, OpenedStates
<1>2. s.kind = "Partial" =>
          s.amount \in Nat /\ s.amount > 0 /\ s.amount < position.amount
  BY <1>1, StatusIs DEF Status
<1>3. AlarmsValue(AlarmsOf(position, Due, loan.annual_interest_rate))
  BY <1>1, AlarmsOfValue
<1>4. /\ sent' = 0
      /\ UNCHANGED <<position, loan, margin_paid_by, account, reserve, price, now>>
      /\ \/ /\ alarms' = AlarmsOf(position, Due, loan.annual_interest_rate)
            /\ UNCHANGED state
         \/ /\ s.kind \in {"Partial", "Full"}
            /\ state' = [at |-> LiquidationState(s),
                         amount |-> LiquidationAmount(s, position)]
            /\ alarms' = removed
         \/ /\ state' = [at |-> "FullClose", amount |-> position.amount]
            /\ alarms' = removed
  BY DEF TryOnAlarm, StartSale
<1> HIDE DEF s
<1>5. AlarmsValue(alarms')
  BY <1>3, <1>4
<1>6. /\ state' \in [at : States, amount : Nat]
      /\ state'.at \in OpenedStates
      /\ state'.at \in SaleStates => state'.amount \in 1 .. position'.amount
      /\ state'.at \in {"PartialLiquidation", "PartialClose"} =>
            state'.amount < position'.amount
  <2>1. CASE UNCHANGED state
    BY <1>1, <1>4, <2>1 DEF OpenedStates, SaleStates
  <2>2. CASE /\ s.kind = "Full"
             /\ state' = [at |-> LiquidationState(s),
                          amount |-> LiquidationAmount(s, position)]
    BY <1>1, <1>4, <2>2
    DEF LiquidationState, LiquidationAmount, OpenedStates, SaleStates, States
  <2>3. CASE /\ s.kind = "Partial"
             /\ state' = [at |-> LiquidationState(s),
                          amount |-> LiquidationAmount(s, position)]
    BY <1>1, <1>2, <1>4, <2>3
    DEF LiquidationState, LiquidationAmount, OpenedStates, SaleStates, States
  <2>4. CASE state' = [at |-> "FullClose", amount |-> position.amount]
    BY <1>1, <1>4, <2>4 DEF OpenedStates, SaleStates, States
  <2> QED
    BY <1>4, <2>1, <2>2, <2>3, <2>4
<1>7. state.at \in OpenedStates
  BY DEF OpenedStates
<1> QED
  BY <1>1, <1>4, <1>5, <1>6, <1>7, QuietStep

(***************************************************************************)
(* Dispatching an alarm removes it and leaves the others.                  *)
(***************************************************************************)
LEMMA RemovedAlarms ==
    ASSUME AlarmsValue(alarms)
    PROVE  AlarmsValue(NoPriceAlarm) /\ AlarmsValue(NoTimeAlarm)
<1>1. /\ alarms.time \in Nat \cup {Never}
      /\ alarms = [below |-> alarms.below, above |-> alarms.above,
                   time |-> alarms.time, set_at |-> alarms.set_at]
  BY DEF AlarmsValue
<1>2. NoPriceAlarm = [below |-> NoPrice, above |-> NoCeiling,
                      time |-> alarms.time, set_at |-> alarms.set_at]
  BY DEF NoPriceAlarm
<1>3. NoTimeAlarm = [below |-> alarms.below, above |-> alarms.above,
                     time |-> Never, set_at |-> alarms.set_at]
  BY <1>1 DEF NoTimeAlarm
<1>4. AlarmsValue(NoPriceAlarm)
  BY <1>1, <1>2 DEF AlarmsValue
<1>5. AlarmsValue(NoTimeAlarm)
  BY <1>1, <1>3 DEF AlarmsValue
<1> QED
  BY <1>4, <1>5

(***************************************************************************)
(* A price or a time alarm keeps the invariant.                            *)
(***************************************************************************)
LEMMA AlarmStep ==
    ASSUME LeaseInv, PriceAlarm \/ TimeAlarm
    PROVE  LeaseInv' /\ (NoStopLoss => KeepsDebt)
<1>1. AlarmsValue(NoPriceAlarm) /\ AlarmsValue(NoTimeAlarm)
  BY RemovedAlarms DEF LeaseInv
<1>2. CASE PriceAlarm
  BY <1>1, <1>2, TryOnAlarmStep DEF PriceAlarm
<1>3. CASE TimeAlarm
  BY <1>1, <1>3, TryOnAlarmStep DEF TimeAlarm
<1> QED
  BY <1>2, <1>3

(***************************************************************************)
(* An alarm that a lease ignores keeps the invariant.                      *)
(***************************************************************************)
LEMMA IgnoreAlarmStep ==
    ASSUME LeaseInv, IgnoreAlarm
    PROVE  LeaseInv' /\ (NoStopLoss => KeepsDebt)
<1>1. AlarmsValue(alarms')
  BY RemovedAlarms DEF IgnoreAlarm, LeaseInv
<1>2. /\ sent' = 0
      /\ UNCHANGED <<state, position, loan, margin_paid_by, account, reserve,
                     price, now>>
  BY DEF IgnoreAlarm
<1> QED
  BY <1>1, <1>2, QuietStep DEF LeaseInv, TypeOK

(***************************************************************************)
(* A change of the close policy keeps the invariant.                       *)
(***************************************************************************)
LEMMA ChangeClosePolicyStep ==
    ASSUME LeaseInv, NEW policy \in Policies, ChangeClosePolicy(policy)
    PROVE  LeaseInv' /\ (NoStopLoss => KeepsDebt)
<1> DEFINE changed == [position EXCEPT !.policy = policy]
<1>1. /\ state.at = "OpenedActive" /\ position' = changed
      /\ alarms' = AlarmsOf(changed, Due, loan.annual_interest_rate)
      /\ sent' = 0
      /\ UNCHANGED <<state, loan, margin_paid_by, account, reserve, price, now>>
  BY DEF ChangeClosePolicy
<1>2. /\ position \in [amount : Nat, policy : KnownPolicies]
      /\ position.amount > 0
  BY <1>1 DEF LeaseInv, TypeOK, OpenedStates
<1>3. /\ changed \in [amount : Nat, policy : KnownPolicies]
      /\ changed.amount > 0
  BY <1>2 DEF KnownPolicies
<1> HIDE DEF changed
<1>4. AlarmsValue(alarms')
  BY <1>1, Facts, AlarmsOfValue
<1> QED
  BY <1>1, <1>3, <1>4, QuietStep DEF LeaseInv, TypeOK, SaleStates

(***************************************************************************)
(* A close asked by the customer keeps the invariant.                      *)
(***************************************************************************)
LEMMA CloseStep ==
    ASSUME LeaseInv, (\E a \in CloseAmounts : ClosePartially(a)) \/ CloseFully
    PROVE  LeaseInv' /\ (NoStopLoss => KeepsDebt)
<1>1. /\ state.at = "OpenedActive" /\ sent' = 0
      /\ UNCHANGED <<position, loan, margin_paid_by, account, alarms, reserve,
                     price, now>>
  BY DEF ClosePartially, CloseFully
<1>2. /\ position \in [amount : Nat, policy : KnownPolicies]
      /\ position.amount > 0 /\ price \in PriceValue
  BY <1>1, Facts DEF LeaseInv, TypeOK, OpenedStates
<1>3. /\ state' \in [at : {"PartialClose", "FullClose"}, amount : Nat]
      /\ state'.amount \in 1 .. position.amount
      /\ state'.at = "PartialClose" => state'.amount < position.amount
  <2>1. CASE CloseFully
    BY <1>2, <2>1 DEF CloseFully, StartSale
  <2>2. ASSUME NEW a \in CloseAmounts, ClosePartially(a)
        PROVE  /\ state' \in [at : {"PartialClose", "FullClose"}, amount : Nat]
               /\ state'.amount \in 1 .. position.amount
               /\ state'.at = "PartialClose" => state'.amount < position.amount
    <3>1. a \in Nat \ {0} /\ a \in Int /\ a >= 0
      BY LeaseAssumption
    <3>2. /\ ValidateCloseAmount(position.amount, a, price) = "Ok"
          /\ state' = [at |-> "PartialClose", amount |-> a]
      BY <2>2 DEF ClosePartially, ValidateClose, StartSale
    <3>3. /\ MayAskLiquidation(position.amount, a, price).kind = "Partial"
          /\ MayAskLiquidation(position.amount, a, price).amount = a
      BY <3>2 DEF MayAskLiquidation
    <3>4. a < position.amount
      <4>1. position.amount \in Nat \ {0}
        BY <1>2
      <4> QED
        BY <1>2, <3>1, <3>3, <4>1, LiquidationIsPart
    <3> QED
      BY <1>2, <3>1, <3>2, <3>4
  <2> QED
    BY <2>1, <2>2
<1> QED
  BY <1>1, <1>2, <1>3, QuietStep
  DEF LeaseInv, TypeOK, States, OpenedStates, SaleStates, FinalStates

(***************************************************************************)
(* The end of the opening swap keeps the invariant: the position is at     *)
(* least what a valid asset is worth.                                      *)
(***************************************************************************)
LEMMA FinishBuyAssetStep ==
    ASSUME LeaseInv, NEW yield \in Yields, FinishBuyAsset(yield)
    PROVE  LeaseInv' /\ (NoStopLoss => KeepsDebt)
<1> DEFINE pos == [amount |-> PercentOf(yield, ToAssets(state.amount, price)),
                   policy |-> NoPolicy]
           s == CheckClosePolicy(pos, Due, loan.annual_interest_rate, price)
<1>1. /\ DueValue(Due) /\ loan.annual_interest_rate \in Nat
      /\ price \in PriceValue /\ now \in Nat /\ account \in Nat
      /\ price \in Prices /\ AlarmsValue(alarms)
  BY Facts DEF LeaseInv, TypeOK
<1>2. /\ pos \in [amount : Nat, policy : KnownPolicies]
      /\ pos \in PositionValue
  <2>1. yield \in Nat
    BY LeaseAssumption
  <2>2. ToAssets(state.amount, price) \in Nat
    BY Facts, ConvertNat
  <2>3. PercentOf(yield, ToAssets(state.amount, price)) \in Nat
    BY <2>1, <2>2, PercentOfNat
  <2>4. NoPolicy \in KnownPolicies /\ NoPolicy \in PolicyValue
    BY DEF KnownPolicies, NoPolicy, PolicyValue
  <2> QED
    BY <2>3, <2>4 DEF PositionValue
<1>3. /\ state.at = "BuyAsset" /\ pos.amount > 0 /\ position' = pos
      /\ sent' = 0
      /\ UNCHANGED <<loan, margin_paid_by, account, reserve, price, now>>
      /\ \/ /\ state' = [at |-> "OpenedActive", amount |-> 0]
            /\ alarms' = AlarmsOf(pos, Due, loan.annual_interest_rate)
         \/ /\ s.kind \in {"Partial", "Full"}
            /\ state' = [at |-> LiquidationState(s),
                         amount |-> LiquidationAmount(s, pos)]
            /\ UNCHANGED alarms
  BY DEF FinishBuyAsset, OpenLease, StartSale, At
<1> HIDE DEF pos
<1>4. s.kind = "Partial" =>
          s.amount \in Nat /\ s.amount > 0 /\ s.amount < pos.amount
  BY <1>1, <1>2, <1>3, StatusIs
<1>5. AlarmsValue(AlarmsOf(pos, Due, loan.annual_interest_rate))
  BY <1>1, AlarmsOfValue
<1> HIDE DEF s
<1>6. /\ state' \in [at : States, amount : Nat]
      /\ state'.at \in OpenedStates
      /\ state'.at \in SaleStates => state'.amount \in 1 .. position'.amount
      /\ state'.at \in {"PartialLiquidation", "PartialClose"} =>
            state'.amount < position'.amount
  <2>1. CASE state' = [at |-> "OpenedActive", amount |-> 0]
    BY <2>1 DEF OpenedStates, SaleStates, States
  <2>2. CASE /\ s.kind = "Full"
             /\ state' = [at |-> LiquidationState(s),
                          amount |-> LiquidationAmount(s, pos)]
    BY <1>2, <1>3, <2>2
    DEF LiquidationState, LiquidationAmount, OpenedStates, SaleStates, States
  <2>3. CASE /\ s.kind = "Partial"
             /\ state' = [at |-> LiquidationState(s),
                          amount |-> LiquidationAmount(s, pos)]
    BY <1>2, <1>3, <1>4, <2>3
    DEF LiquidationState, LiquidationAmount, OpenedStates, SaleStates, States
  <2> QED
    BY <1>3, <2>1, <2>2, <2>3
<1> QED
  BY <1>1, <1>2, <1>3, <1>5, <1>6, QuietStep

(***************************************************************************)
(* Opening a lease establishes a loan with a principal due.                *)
(***************************************************************************)
LEMMA OpenStep ==
    ASSUME LeaseInv, NEW d \in Downpayments, NEW ltd \in MaxLtds, Open(d, ltd)
    PROVE  LeaseInv' /\ (NoStopLoss => KeepsDebt)
<1> DEFINE borrow == CalcBorrowAmount(d, ltd)
<1>1. d \in Nat /\ ltd \in Nat /\ LoanRate \in Nat
  BY LeaseAssumption
<1>2. borrow \in Nat
  <2>1. /\ liability.initial \in Nat /\ HUNDRED - liability.initial \in Nat \ {0}
    <3>1. HUNDRED \in Nat
      BY DEF HUNDRED
    <3>2. InvariantHeld(liability)
      BY PositionAssumption
    <3>3. liability.initial \in 1 .. HUNDRED /\ liability.initial < HUNDRED
      BY <3>1, <3>2 DEF InvariantHeld
    <3> QED
      BY <3>1, <3>3
  <2>2. SafeMul(d, liability.initial, HUNDRED - liability.initial) \in Nat
    BY <1>1, <2>1, SafeMulNat
  <2>3. PercentOf(ltd, d) \in Nat
    BY <1>1, PercentOfNat
  <2>4. InitBorrowAmount(d, ltd) \in Nat
    BY <2>2, <2>3 DEF InitBorrowAmount, MinOf
  <2> QED
    BY <2>4 DEF CalcBorrowAmount
<1>3. /\ state.at = "Init" /\ borrow > 0
      /\ loan' = Loan(borrow, LoanRate, now)
      /\ margin_paid_by' = now
      /\ state' = [at |-> "BuyAsset", amount |-> d + borrow]
      /\ sent' = 0
      /\ UNCHANGED <<position, account, alarms, reserve, price, now>>
  BY DEF Open
<1> HIDE DEF borrow
<1>4. /\ now \in Nat /\ margin_paid_by \in Nat /\ margin_paid_by <= now
  BY Facts
<1>5. /\ loan' \in LoanType /\ loan'.interest_paid <= now
      /\ loan'.principal_due > 0
  BY <1>1, <1>2, <1>3, <1>4 DEF Loan, LoanType
<1>6. TypeOK'
  BY <1>1, <1>2, <1>3, <1>4, <1>5
  DEF LeaseInv, TypeOK, States, OpenedStates, SaleStates, FinalStates
<1>7. LeaseInv'
  BY <1>3, <1>5, <1>6
  DEF LeaseInv, AlarmsValue, SettledMeansRepaid, OpenedStates, SaleStates,
      FinalStates
<1>8. KeepsDebt
  <2>1. TotalDue(Due) = 0
    BY <1>3, <1>4, NothingDueOnNoLoan DEF LeaseInv, Due
  <2>2. DueValue(LoanState(loan', margin_paid_by', now'))
    <3>1. margin_paid_by' <= now' /\ margin_paid_by' \in Nat /\ now' \in Nat
      BY <1>3, <1>4
    <3> QED
      BY <1>5, <3>1, DueIsValue
  <2> QED
    BY <1>3, <2>1, <2>2, DuePrimed DEF KeepsDebt, DueValue
<1> QED
  BY <1>7, <1>8

(***************************************************************************)
(* The end of a full sale repays the loan, with the reserve's cover if     *)
(* necessary.                                                              *)
(***************************************************************************)
LEMMA FinishFullSaleStep ==
    ASSUME LeaseInv, NEW yield \in Yields, FinishFullSale(yield)
    PROVE  LeaseInv' /\ (NoStopLoss => KeepsDebt)
<1> DEFINE total_due == TotalDue(Due)
           losses == MaxOf(total_due - Proceeds(yield), 0)
           payment == MaxOf(total_due, Proceeds(yield))
           r == LoanRepay(loan, margin_paid_by, payment, now)
<1>1. /\ total_due \in Nat /\ Proceeds(yield) \in Nat
      /\ reserve \in Nat
  BY Facts, ProceedsNat DEF DueValue
<1>2. /\ payment \in Nat /\ total_due <= payment
      /\ losses \in Nat
  BY <1>1 DEF MaxOf
<1>3. /\ loan \in LoanType /\ loan.interest_paid <= now
      /\ margin_paid_by \in Nat /\ margin_paid_by <= now /\ now \in Nat
      /\ loan.principal_due \in Nat
  BY Facts
<1>4. /\ state.at \in {"FullLiquidation", "FullClose"}
      /\ losses <= reserve /\ reserve' = reserve - losses
      /\ loan' = r.lpp.loan
      /\ margin_paid_by' = r.margin_paid_by
      /\ sent' = total_due
      /\ position' = [position EXCEPT !.amount = 0]
      /\ state' = [at |-> IF state.at = "FullLiquidation" THEN "Liquidated"
                          ELSE "Closed", amount |-> 0]
      /\ UNCHANGED <<account, alarms, price, now>>
  BY DEF FinishFullSale, CloseFull, CoverLosses, At
<1>5. total_due = loan.principal_due + LoanInterestDue(loan, now)
                      + MarginOver(loan.principal_due, now - margin_paid_by)
  BY <1>3, TotalDueIs DEF Due
<1> HIDE DEF total_due, losses, payment
<1>6. r.principal_paid = loan.principal_due
  BY <1>2, <1>3, <1>5, RepaySplit
<1>7. /\ r.lpp.loan \in LoanType /\ r.lpp.loan.interest_paid <= now
      /\ r.lpp.loan.principal_due = loan.principal_due - r.principal_paid
      /\ r.lpp.loan.principal_due = 0 => r.lpp.loan = NoLoan
      /\ r.margin_paid_by \in Nat /\ r.margin_paid_by <= now
  BY <1>2, RepayOutcome, Zenon
<1> HIDE DEF r
<1>8. loan' = NoLoan /\ loan' \in LoanType /\ loan'.interest_paid <= now
  BY <1>3, <1>4, <1>6, <1>7
<1>9. position' \in [amount : Nat, policy : KnownPolicies]
  BY <1>4 DEF LeaseInv, TypeOK
<1>10. TypeOK'
  BY <1>1, <1>2, <1>3, <1>4, <1>7, <1>8, <1>9
  DEF LeaseInv, TypeOK, States, OpenedStates, SaleStates, FinalStates
<1>11. LeaseInv'
  BY <1>4, <1>8, <1>10
  DEF LeaseInv, AlarmsValue, SettledMeansRepaid, OpenedStates, SaleStates,
      FinalStates
<1>12. KeepsDebt
  <2>1. DueValue(LoanState(loan', margin_paid_by', now'))
    <3>1. margin_paid_by' <= now' /\ margin_paid_by' \in Nat /\ now' \in Nat
      BY <1>3, <1>4, <1>7
    <3> QED
      BY <1>8, <3>1, DueIsValue
  <2> QED
    BY <1>1, <1>4, <2>1, DuePrimed DEF KeepsDebt, DueValue, total_due
<1> QED
  BY <1>11, <1>12

(***************************************************************************)
(* The steps past the repayment of the loan keep the invariant.            *)
(***************************************************************************)
LEMMA EndStep ==
    ASSUME LeaseInv, Close \/ FinishTransferIn \/ HealFinal
    PROVE  LeaseInv' /\ (NoStopLoss => KeepsDebt)
<1>1. position \in [amount : Nat, policy : KnownPolicies]
  BY DEF LeaseInv, TypeOK
<1>2. [position EXCEPT !.amount = 0] \in [amount : Nat, policy : KnownPolicies]
  BY <1>1
<1>3. CASE Close
  BY <1>1, <1>3, QuietStep
  DEF Close, At, LeaseInv, TypeOK, States, OpenedStates, SaleStates, FinalStates,
      SettledStates
<1>4. CASE FinishTransferIn
  BY <1>2, <1>4, QuietStep
  DEF FinishTransferIn, At, LeaseInv, TypeOK, States, OpenedStates, SaleStates,
      FinalStates, SettledStates
<1>5. CASE HealFinal
  BY <1>5, QuietStep DEF HealFinal, LeaseInv, TypeOK
<1> QED
  BY <1>3, <1>4, <1>5

(***************************************************************************)
(* LPN sent to the lease and price moves keep the invariant.               *)
(***************************************************************************)
LEMMA EnvironmentStep ==
    ASSUME LeaseInv, \/ \E a \in Donations : Donate(a)
                     \/ \E p \in Prices : PriceMove(p)
    PROVE  LeaseInv' /\ (NoStopLoss => KeepsDebt)
<1>1. ASSUME NEW a \in Donations, Donate(a)
      PROVE  LeaseInv' /\ (NoStopLoss => KeepsDebt)
  <2>1. a \in Nat
    BY LeaseAssumption
  <2> QED
    BY <1>1, <2>1, QuietStep DEF Donate, LeaseInv, TypeOK
<1>2. ASSUME NEW p \in Prices, PriceMove(p)
      PROVE  LeaseInv' /\ (NoStopLoss => KeepsDebt)
  BY <1>2, QuietStep DEF PriceMove, LeaseInv, TypeOK
<1> QED
  BY <1>1, <1>2

(***************************************************************************)
(* The passage of time keeps the invariant, and does not make the debt     *)
(* smaller.                                                                *)
(***************************************************************************)
LEMMA TickStep ==
    ASSUME LeaseInv, Tick
    PROVE  LeaseInv' /\ (NoStopLoss => KeepsDebt)
<1>1. /\ now < MaxTime /\ now' = now + 1 /\ sent' = 0
      /\ UNCHANGED <<state, position, loan, margin_paid_by, account, alarms,
                     reserve, price>>
  BY DEF Tick
<1>2. /\ now \in Nat /\ MaxTime \in Nat /\ loan \in LoanType
      /\ loan.interest_paid <= now /\ loan.interest_paid \in Nat
      /\ margin_paid_by \in Nat /\ margin_paid_by <= now
  BY Facts, LeaseAssumption DEF LoanType
<1>3. /\ now' \in 0 .. MaxTime /\ now' \in Nat /\ now <= now'
      /\ loan.interest_paid <= now' /\ margin_paid_by \in 0 .. now'
      /\ margin_paid_by <= now'
      /\ now - margin_paid_by \in Nat /\ now' - margin_paid_by \in Nat
      /\ now - margin_paid_by <= now' - margin_paid_by
  BY <1>1, <1>2
<1>4. TypeOK'
  BY <1>1, <1>3 DEF LeaseInv, TypeOK
<1>5. LeaseInv'
  BY <1>1, <1>4 DEF LeaseInv, AlarmsValue, SettledMeansRepaid
<1>6. KeepsDebt
  <2> DEFINE P == loan.principal_due
             I == LoanInterestDue(loan, now)
             M == MarginOver(loan.principal_due, now - margin_paid_by)
             NI == LoanInterestDue(loan, now')
             NM == MarginOver(loan.principal_due, now' - margin_paid_by)
  <2>1. TotalDue(Due) = P + I + M /\ P \in Nat /\ I \in Nat /\ M \in Nat
    BY <1>2, TotalDueIs DEF Due
  <2>2. /\ TotalDue(LoanState(loan, margin_paid_by, now')) = P + NI + NM
        /\ NI \in Nat /\ NM \in Nat
    BY <1>2, <1>3, TotalDueIs
  <2>3. I <= NI /\ M <= NM
    BY <1>2, <1>3, <2>1, LoanInterestGrows, MarginGrows
  <2>4. TotalDue(Due)' = P + NI + NM
    BY <1>1, <2>2, DuePrimed
  <2> HIDE DEF P, I, M, NI, NM
  <2> QED
    BY <1>1, <2>1, <2>2, <2>3, <2>4 DEF KeepsDebt
<1> QED
  BY <1>5, <1>6

-----------------------------------------------------------------------------
(* The theorems *)

(***************************************************************************)
(* The invariant holds before the lease is instantiated.                   *)
(***************************************************************************)
LEMMA InitHolds == Init => LeaseInv
<1> SUFFICES ASSUME Init PROVE LeaseInv
  OBVIOUS
<1>1. /\ state = [at |-> "Init", amount |-> 0]
      /\ position = [amount |-> 0, policy |-> NoPolicy]
      /\ loan = NoLoan /\ margin_paid_by = 0 /\ account = 0
      /\ alarms = NoAlarms /\ reserve = ReserveFunds /\ sent = 0
      /\ price \in Prices /\ now = 0
  BY DEF Init, At
<1>2. MaxTime \in Nat /\ ReserveFunds \in Nat
  BY LeaseAssumption
<1>3. NoPolicy \in KnownPolicies /\ NoLoan \in LoanType /\ NoLoan.interest_paid = 0
  BY DEF KnownPolicies, NoLoan, LoanType
<1>4. AlarmsValue(alarms) /\ alarms.time = Never
  BY <1>1 DEF NoAlarms, AlarmsValue
<1>5. TypeOK
  BY <1>1, <1>2, <1>3, <1>4
  DEF TypeOK, States, OpenedStates, SaleStates, FinalStates
<1> QED
  BY <1>1, <1>4, <1>5
  DEF LeaseInv, SettledMeansRepaid, OpenedStates, SaleStates, FinalStates

(***************************************************************************)
(* Every step keeps the invariant, and forgives no debt unless a stop loss *)
(* is triggered by a payment.                                              *)
(***************************************************************************)
LEMMA NextHolds ==
    ASSUME LeaseInv, [Next]_vars
    PROVE  LeaseInv' /\ (NoStopLoss => [KeepsDebt]_vars)
<1> DEFINE Goal == LeaseInv' /\ (NoStopLoss => KeepsDebt)
<1>1. ASSUME NEW d \in Downpayments, NEW ltd \in MaxLtds, Open(d, ltd)
      PROVE  Goal
  BY <1>1, OpenStep
<1>2. ASSUME NEW y \in Yields, FinishBuyAsset(y)
      PROVE  Goal
  BY <1>2, FinishBuyAssetStep
<1>3. ASSUME NEW p \in Payments, Repay(p)
      PROVE  Goal
  BY <1>3, RepayStep
<1>4. ASSUME NEW p \in SwapPayments, RepayOther(p)
      PROVE  Goal
  BY <1>4, RepayOtherStep
<1>5. ASSUME NEW y \in Yields, FinishBuyLpn(y)
      PROVE  Goal
  BY <1>5, FinishBuyLpnStep
<1>6. ASSUME HealOpened
      PROVE  Goal
  BY <1>6, HealOpenedStep
<1>7. ASSUME PriceAlarm \/ TimeAlarm
      PROVE  Goal
  BY <1>7, AlarmStep
<1>8. ASSUME IgnoreAlarm
      PROVE  Goal
  BY <1>8, IgnoreAlarmStep
<1>9. ASSUME NEW p \in Policies, ChangeClosePolicy(p)
      PROVE  Goal
  BY <1>9, ChangeClosePolicyStep
<1>10. ASSUME (\E a \in CloseAmounts : ClosePartially(a)) \/ CloseFully
       PROVE  Goal
  BY <1>10, CloseStep
<1>11. ASSUME NEW y \in Yields, FinishPartialSale(y)
       PROVE  Goal
  BY <1>11, FinishPartialSaleStep
<1>12. ASSUME NEW y \in Yields, FinishFullSale(y)
       PROVE  Goal
  BY <1>12, FinishFullSaleStep
<1>13. ASSUME Close \/ FinishTransferIn \/ HealFinal
       PROVE  Goal
  BY <1>13, EndStep
<1>14. ASSUME (\E a \in Donations : Donate(a)) \/ (\E p \in Prices : PriceMove(p))
       PROVE  Goal
  BY <1>14, EnvironmentStep
<1>15. ASSUME Tick
       PROVE  Goal
  BY <1>15, TickStep
<1>16. CASE UNCHANGED vars
  <2>1. LeaseInv'
    BY <1>16 DEF vars, LeaseInv, TypeOK, AlarmsValue, SettledMeansRepaid
  <2> QED
    BY <1>16, <2>1
<1> HIDE DEF Goal
<1>17. Next => Goal
  BY <1>1, <1>2, <1>3, <1>4, <1>5, <1>6, <1>7, <1>8, <1>9, <1>10, <1>11, <1>12,
     <1>13, <1>14, <1>15 DEF Next
<1> QED
  BY <1>16, <1>17 DEF Goal

(***************************************************************************)
(* The inductive invariant of the lease holds in every reachable state.    *)
(***************************************************************************)
THEOREM Invariance == Spec => []LeaseInv
<1>1. LeaseInv /\ [Next]_vars => LeaseInv'
  BY NextHolds
<1> QED
  BY <1>1, InitHolds, PTL DEF Spec

(***************************************************************************)
(* Every state of the lease is typed: in particular neither the interest   *)
(* nor the margin is ever paid for the future, an opened lease has a       *)
(* position and what it sells is a part of it.                             *)
(***************************************************************************)
THEOREM TypeCorrect == Spec => []TypeOK
<1>1. LeaseInv => TypeOK
  BY DEF LeaseInv
<1> QED
  BY <1>1, Invariance, PTL

(***************************************************************************)
(* A lease that is paid, closed or liquidated has no loan with the pool,   *)
(* whatever the prices, the yields of its swaps and the funds of the       *)
(* reserve (FinishFullSale, TryRepay).                                     *)
(***************************************************************************)
THEOREM SettledIsRepaid == Spec => []SettledMeansRepaid
<1>1. LeaseInv => SettledMeansRepaid
  BY DEF LeaseInv
<1> QED
  BY <1>1, Invariance, PTL

(***************************************************************************)
(* An opened lease owes something and is not found Paid, so the branches   *)
(* the code leaves `unimplemented!` for that status are not reached.       *)
(***************************************************************************)
THEOREM OpenedOwes == Spec => []OpenedHasDebt
<1>1. LeaseInv => OpenedHasDebt
  <2> SUFFICES ASSUME LeaseInv, state.at \in OpenedStates
               PROVE  TotalDue(Due) > 0 /\ Status.kind # "Paid"
    BY DEF OpenedHasDebt
  <2>1. /\ loan \in LoanType /\ margin_paid_by \in Nat /\ now \in Nat
        /\ margin_paid_by <= now
        /\ loan.principal_due > 0 /\ position.amount > 0
        /\ DueValue(Due) /\ loan.annual_interest_rate \in Nat
        /\ position \in PositionValue /\ price \in PriceValue
    BY Facts DEF LeaseInv, TypeOK
  <2>2. TotalDue(Due) > 0
    <3>1. /\ loan.principal_due \in Nat /\ LoanInterestDue(loan, now) \in Nat
          /\ MarginOver(loan.principal_due, now - margin_paid_by) \in Nat
          /\ TotalDue(Due) =
                loan.principal_due + LoanInterestDue(loan, now)
                    + MarginOver(loan.principal_due, now - margin_paid_by)
      BY <2>1, TotalDueIs DEF Due
    <3> QED
      BY <2>1, <3>1
  <2>3. Status.kind = "Paid" => TotalDue(Due) = 0
    BY <2>1, StatusIs DEF Status
  <2> QED
    BY <2>2, <2>3
<1> QED
  BY <1>1, Invariance, PTL

(***************************************************************************)
(* Of any payment the lease and the pool make the same shares, at any      *)
(* moment of any lease's life (Loan::repay of the one and of the other).   *)
(***************************************************************************)
THEOREM LeaseAndPoolAgree == Spec => []SharesAgree
<1>1. LeaseInv => SharesAgree
  <2> SUFFICES ASSUME LeaseInv, NEW payment \in 0 .. TotalDue(Due) + 1
               PROVE  LET receipt == LoanRepay(loan, margin_paid_by, payment, now)
                      IN  /\ receipt.lpp.interest = receipt.interest_paid
                          /\ receipt.lpp.principal = receipt.principal_paid
                          /\ receipt.lpp.excess = 0
    BY DEF SharesAgree
  <2>1. payment \in Nat
    BY Facts DEF DueValue
  <2> QED
    BY <2>1, Facts, PoolAgrees
<1> QED
  BY <1>1, Invariance, PTL

(***************************************************************************)
(* As long as no customer sets a stop loss, no step of the lease makes the *)
(* debt smaller by more than what the pool and the profit receive.  The    *)
(* condition is needed: see the run lease_stop_loss_payment.               *)
(***************************************************************************)
THEOREM DebtKept ==
    ASSUME \A p \in Policies : p.stop_loss = 0
    PROVE  Spec => DebtNeverForgiven
<1>1. LeaseInv /\ [Next]_vars => [TotalDue(Due)' + sent' >= TotalDue(Due)]_vars
  BY NextHolds DEF NoStopLoss, KeepsDebt
<1> QED
  BY <1>1, Invariance, PTL DEF Spec, DebtNeverForgiven
(***************************************************************************)
(* The account of an opened lease, of one that has come to its end and of  *)
(* one that has not been opened.                                           *)
(***************************************************************************)
AccountInv ==
    /\ NothingStranded
    /\ state.at \in {"Init", "BuyAsset"} => account = 0

(***************************************************************************)
(* A repayment that leaves the lease opened leaves no change: only one     *)
(* that pays all of the due does, and the lease gets Paid.                 *)
(***************************************************************************)
LEMMA RepayLeavesNoChange ==
    ASSUME NoStopLoss, LeaseInv, state.at \in OpenedStates,
           NEW payment \in Nat, NEW incoming \in Nat,
           NEW pos \in [amount : Nat, policy : KnownPolicies], pos.amount > 0,
           TryRepay(payment, incoming, pos)
    PROVE  \/ state'.at = "PaidActive"
           \/ account' = account + incoming - payment
<1> DEFINE r == LoanRepay(loan, margin_paid_by, payment, now)
           due == LoanState(r.lpp.loan, r.margin_paid_by, now)
           rate == loan.annual_interest_rate
           check == CheckCloseWithInit(pos, due, rate)
           s == check.status
<1>1. /\ loan \in LoanType /\ loan.interest_paid <= now
      /\ rate \in Nat /\ loan.principal_due \in Nat
      /\ margin_paid_by \in Nat /\ margin_paid_by <= now /\ now \in Nat
      /\ account \in Nat
  BY Facts
<1>2. /\ r.principal_paid \in Nat /\ r.principal_paid <= loan.principal_due
      /\ r.principal_paid < loan.principal_due => r.change = 0
      /\ r.change \in Nat
  BY <1>1, RepaySplit
<1>3. /\ r.lpp.loan.principal_due = loan.principal_due - r.principal_paid
      /\ r.lpp.loan.principal_due = 0 => r.lpp.loan = NoLoan
  BY RepayOutcome, Zenon
<1>4. /\ r.lpp.loan \in LoanType /\ r.lpp.loan.interest_paid <= now
      /\ r.margin_paid_by \in Nat /\ r.margin_paid_by <= now
  BY RepayOutcome, Zenon
<1> HIDE DEF r
<1>5. r.change = 0 \/ r.lpp.loan = NoLoan
  BY <1>1, <1>2, <1>3
<1>6. DueValue(due) /\ (r.lpp.loan = NoLoan => TotalDue(due) = 0)
  <2> DEFINE nl == r.lpp.loan
             npb == r.margin_paid_by
  <2>1. nl \in LoanType /\ npb \in Nat /\ npb <= now
    BY <1>4
  <2> HIDE DEF nl, npb
  <2>2. DueValue(LoanState(nl, npb, now))
    BY <1>1, <2>1, DueIsValue
  <2>3. nl = NoLoan => TotalDue(LoanState(nl, npb, now)) = 0
    BY <1>1, <2>1, NothingDueOnNoLoan
  <2> QED
    BY <2>2, <2>3 DEF nl, npb
<1> HIDE DEF due
<1>7. /\ s.kind \in {"StopLoss", "Partial", "Full", "Paid", "None"}
      /\ TotalDue(due) = 0 => s.kind \notin {"Partial", "Full", "None"}
      /\ s.kind # "StopLoss"
  BY <1>1, <1>6, CheckIs
<1>8. /\ s.kind # "StopLoss" => account' = account + incoming - (payment - r.change)
      /\ s.kind = "Paid" => state'.at = "PaidActive"
  BY DEF TryRepay, Repaid, At, r, due
<1> HIDE DEF check, s
<1>9. CASE s.kind = "Paid"
  BY <1>8, <1>9
<1>10. CASE s.kind # "Paid"
  <2>1. r.change = 0
    BY <1>5, <1>6, <1>7, <1>10
  <2> QED
    BY <1>7, <1>8, <2>1
<1> QED
  BY <1>9, <1>10

(***************************************************************************)
(* The four repayments keep the account: what they put into it is what     *)
(* they pay with.                                                          *)
(***************************************************************************)
LEMMA RepaymentsKeepAccount ==
    ASSUME NoStopLoss, LeaseInv, AccountInv,
           \/ \E p \in Payments : Repay(p)
           \/ \E y \in Yields : FinishBuyLpn(y)
           \/ HealOpened
           \/ \E y \in Yields : FinishPartialSale(y)
    PROVE  AccountInv'
<1>1. account \in Nat /\ state'.at \in States
  <2>1. LeaseInv'
    BY RepayStep, FinishBuyLpnStep, HealOpenedStep, FinishPartialSaleStep
  <2> QED
    BY <2>1, Facts DEF LeaseInv, TypeOK
<1>2. SUFFICES ASSUME state'.at # "PaidActive"
               PROVE  (account' = account \/ account' = 0) /\ state.at \in OpenedStates
                      /\ state'.at \notin {"Init", "BuyAsset"}
  <2>1. CASE state'.at = "PaidActive"
    BY <2>1 DEF AccountInv, NothingStranded, OpenedStates, SaleStates, FinalStates
  <2>2. CASE state'.at # "PaidActive"
    BY <1>2, <2>2 DEF AccountInv, NothingStranded
  <2> QED
    BY <2>1, <2>2
<1>3. ASSUME NEW p \in Nat, NEW pos, TryRepay(p, p, pos) \/ TryRepay(p, 0, pos)
      PROVE  state'.at \notin {"Init", "BuyAsset"}
  BY <1>3 DEF TryRepay, Repaid, StartSale, At, LiquidationState
<1>4. ASSUME NEW p \in Nat, NEW pos \in [amount : Nat, policy : KnownPolicies],
             pos.amount > 0, state.at \in OpenedStates, TryRepay(p, p, pos)
      PROVE  account' = account
  <2>1. account' = account + p - p
    BY <1>2, <1>4, RepayLeavesNoChange
  <2> QED
    BY <1>1, <2>1
<1>5. CASE \E p \in Payments : Repay(p)
  <2>1. PICK p \in Payments : Repay(p)
    BY <1>5
  <2>2. p \in Nat /\ TryRepay(p, p, position) /\ state.at \in OpenedStates
    BY <2>1, LeaseAssumption DEF Repay, OpenedStates
  <2>3. position \in [amount : Nat, policy : KnownPolicies] /\ position.amount > 0
    BY <2>2 DEF LeaseInv, TypeOK
  <2> QED
    BY <1>3, <1>4, <2>2, <2>3
<1>6. CASE \E y \in Yields : FinishBuyLpn(y)
  <2>1. PICK y \in Yields : FinishBuyLpn(y)
    BY <1>6
  <2> DEFINE payment == PercentOf(y, state.amount)
  <2>2. payment \in Nat
    <3>1. y \in Nat
      BY LeaseAssumption
    <3> QED
      BY <3>1, Facts, PercentOfNat
  <2>3. TryRepay(payment, payment, position) /\ state.at \in OpenedStates
    BY <2>1 DEF FinishBuyLpn, OpenedStates
  <2>4. position \in [amount : Nat, policy : KnownPolicies] /\ position.amount > 0
    BY <2>3 DEF LeaseInv, TypeOK
  <2> HIDE DEF payment
  <2> QED
    BY <1>3, <1>4, <2>2, <2>3, <2>4
<1>7. CASE HealOpened
  <2>1. TryRepay(account, 0, position) /\ state.at \in OpenedStates
    BY <1>7 DEF HealOpened, OpenedStates
  <2>2. position \in [amount : Nat, policy : KnownPolicies] /\ position.amount > 0
    BY <2>1 DEF LeaseInv, TypeOK
  <2>3. account' = account + 0 - account
    BY <1>1, <1>2, <2>1, <2>2, RepayLeavesNoChange
  <2> QED
    BY <1>1, <1>3, <2>1, <2>3
<1>8. CASE \E y \in Yields : FinishPartialSale(y)
  <2>1. PICK y \in Yields : FinishPartialSale(y)
    BY <1>8
  <2> DEFINE payment == Proceeds(y)
             pos == [position EXCEPT !.amount = @ - state.amount]
  <2>2. payment \in Nat
    BY ProceedsNat
  <2>3. TryRepay(payment, payment, pos) /\ state.at \in OpenedStates
    BY <2>1 DEF FinishPartialSale, Reduced, OpenedStates, SaleStates
  <2>4. /\ position \in [amount : Nat, policy : KnownPolicies]
        /\ state.amount < position.amount /\ state.amount \in Nat
    BY <2>1, Facts DEF FinishPartialSale, LeaseInv, TypeOK
  <2>5. pos \in [amount : Nat, policy : KnownPolicies] /\ pos.amount > 0
    BY <2>4
  <2> HIDE DEF payment, pos
  <2> QED
    BY <1>3, <1>4, <2>2, <2>3, <2>5
<1> QED
  BY <1>5, <1>6, <1>7, <1>8

(***************************************************************************)
(* Every other step keeps the account too: only opening, a donation, the   *)
(* end of the closing and the healing of an ended lease touch it.          *)
(***************************************************************************)
LEMMA AccountKept ==
    ASSUME NoStopLoss, LeaseInv, AccountInv, [Next]_vars
    PROVE  AccountInv'
<1> USE DEF AccountInv, NothingStranded, OpenedStates, SaleStates, FinalStates
<1>1. ASSUME NEW d \in Downpayments, NEW ltd \in MaxLtds, Open(d, ltd)
      PROVE  AccountInv'
  BY <1>1 DEF Open
<1>2. ASSUME NEW y \in Yields, FinishBuyAsset(y)
      PROVE  AccountInv'
  BY <1>2 DEF FinishBuyAsset, OpenLease, At, StartSale, LiquidationState
<1>3. ASSUME \/ \E p \in Payments : Repay(p)
             \/ \E y \in Yields : FinishBuyLpn(y)
             \/ HealOpened
             \/ \E y \in Yields : FinishPartialSale(y)
      PROVE  AccountInv'
  BY <1>3, RepaymentsKeepAccount
<1>4. ASSUME NEW p \in SwapPayments, RepayOther(p)
      PROVE  AccountInv'
  BY <1>4 DEF RepayOther
<1>5. ASSUME PriceAlarm \/ TimeAlarm
      PROVE  AccountInv'
  BY <1>5 DEF PriceAlarm, TimeAlarm, TryOnAlarm, StartSale, LiquidationState
<1>6. ASSUME \/ IgnoreAlarm
             \/ \E p \in Policies : ChangeClosePolicy(p)
             \/ \E p \in Prices : PriceMove(p)
             \/ Tick
      PROVE  AccountInv'
  BY <1>6 DEF IgnoreAlarm, ChangeClosePolicy, PriceMove, Tick
<1>7. ASSUME (\E a \in CloseAmounts : ClosePartially(a)) \/ CloseFully
      PROVE  AccountInv'
  BY <1>7 DEF ClosePartially, CloseFully, StartSale
<1>8. ASSUME NEW y \in Yields, FinishFullSale(y)
      PROVE  AccountInv'
  BY <1>8 DEF FinishFullSale, At
<1>9. ASSUME Close \/ FinishTransferIn \/ HealFinal
      PROVE  AccountInv'
  BY <1>9 DEF Close, FinishTransferIn, HealFinal, At
<1>10. ASSUME NEW a \in Donations, Donate(a)
       PROVE  AccountInv'
  BY <1>10 DEF Donate
<1>11. CASE UNCHANGED vars
  BY <1>11 DEF vars
<1> QED
  BY <1>1, <1>2, <1>3, <1>4, <1>5, <1>6, <1>7, <1>8, <1>9, <1>10, <1>11 DEF Next

(***************************************************************************)
(* As long as no customer sets a stop loss, the account of an opened lease *)
(* and of an ended one holds nothing but what somebody has sent to it out  *)
(* of order: every payment and every proceeds leave it as a whole, the     *)
(* change of the last one through the closing (Repayable::try_repay,       *)
(* TransferIn::finish).  A stop loss that a payment triggers leaves the    *)
(* payment there, as the run lease_stop_loss_payment has it.               *)
(***************************************************************************)
THEOREM NothingEverStranded ==
    ASSUME \A p \in Policies : p.stop_loss = 0
    PROVE  Spec => []NothingStranded
<1>1. Init => AccountInv
  BY DEF Init, At, AccountInv, NothingStranded, OpenedStates, SaleStates, FinalStates
<1>2. LeaseInv /\ AccountInv /\ [Next]_vars => AccountInv'
  BY AccountKept DEF NoStopLoss
<1>3. AccountInv => NothingStranded
  BY DEF AccountInv
<1> QED
  BY <1>1, <1>2, <1>3, Invariance, PTL DEF Spec

(***************************************************************************)
(* A greater percent of an amount is not less.                             *)
(***************************************************************************)
LEMMA PercentGrows ==
    ASSUME NEW x \in Nat, NEW y \in Nat, NEW a \in Nat, x <= y
    PROVE  /\ PercentOf(x, a) \in Nat /\ PercentOf(y, a) \in Nat
           /\ PercentOf(x, a) <= PercentOf(y, a)
<1>1. HUNDRED \in Nat \ {0}
  BY DEF HUNDRED
<1> QED
  BY <1>1, PercentOfNat, SafeMulMonotone DEF PercentOf

(***************************************************************************)
(* Comparing prices compares amounts of the asset: where a due makes n     *)
(* assets at the one, it makes less, or at least as many, at the other.    *)
(***************************************************************************)
LEMMA PriceBoundsAssets ==
    ASSUME NEW q \in PriceValue, NEW due \in Nat, NEW n \in Nat
    PROVE  /\ PriceLt(Price(n, due), q) => ToAssets(due, q) < n
           /\ PriceLt(q, Price(n, due)) => n <= ToAssets(due, q)
<1> DEFINE A == q.amount
           Q == q.quote
           d == ToAssets(due, q)
<1>1. A \in Nat \ {0} /\ Q \in Nat \ {0}
  BY DEF PriceValue
<1>2. d = SafeMul(A, due, Q)
  BY DEF ToAssets, Total, Inv, Price
<1>3. /\ PriceLt(Price(n, due), q) <=> due * A < Q * n
      /\ PriceLt(q, Price(n, due)) <=> Q * n < due * A
  BY DEF PriceLt, Price
<1> HIDE DEF A, Q, d
<1>4. d \in Nat /\ d * Q <= A * due /\ A * due < d * Q + Q
  BY <1>1, <1>2, SafeMulNat, SafeMulBounds
<1>5. ASSUME due * A < Q * n PROVE d < n
  <2>1. SUFFICES ASSUME n <= d PROVE FALSE
    BY <1>4
  <2>2. n * Q <= d * Q
    BY <1>1, <1>4, <2>1
  <2> QED
    BY <1>1, <1>4, <1>5, <2>2
<1>6. ASSUME Q * n < due * A PROVE n <= d
  <2>1. SUFFICES ASSUME d + 1 <= n PROVE FALSE
    BY <1>4
  <2>2. (d + 1) * Q <= n * Q
    BY <1>1, <1>4, <2>1
  <2>3. (d + 1) * Q = d * Q + Q
    BY <1>1, <1>4
  <2> QED
    BY <1>1, <1>4, <1>6, <2>2, <2>3
<1> QED
  BY <1>3, <1>5, <1>6 DEF d

(***************************************************************************)
(* The levels of a liability that passes its invariant are ordered.        *)
(***************************************************************************)
LEMMA Levels ==
    /\ liability.healthy \in Nat /\ liability.first_liq_warn \in Nat \ {0}
    /\ liability.second_liq_warn \in Nat /\ liability.third_liq_warn \in Nat
    /\ liability.max \in Nat
    /\ 0 < liability.healthy
    /\ liability.healthy < liability.first_liq_warn
    /\ liability.first_liq_warn < liability.second_liq_warn
    /\ liability.second_liq_warn < liability.third_liq_warn
    /\ liability.third_liq_warn < liability.max
    /\ liability.max <= HUNDRED /\ liability.recalc_time \in Nat \ {0}
<1>1. HUNDRED \in Nat
  BY DEF HUNDRED
<1>2. /\ liability.healthy \in 1 .. HUNDRED
      /\ liability.first_liq_warn \in 1 .. HUNDRED
      /\ liability.second_liq_warn \in 1 .. HUNDRED
      /\ liability.third_liq_warn \in 1 .. HUNDRED
      /\ liability.max \in 1 .. HUNDRED
  BY PositionAssumption DEF InvariantHeld
<1>3. /\ liability.healthy < liability.first_liq_warn
      /\ liability.first_liq_warn < liability.second_liq_warn
      /\ liability.second_liq_warn < liability.third_liq_warn
      /\ liability.third_liq_warn < liability.max
      /\ liability.recalc_time \in Nat \ {0}
  BY PositionAssumption DEF InvariantHeld
<1> QED
  BY <1>1, <1>2, <1>3

(***************************************************************************)
(* Liability::zone_of finds a zone that starts at or below the LTV.        *)
(***************************************************************************)
LEMMA ZoneIs ==
    ASSUME NEW ltv \in Nat
    PROVE  LET zone == ZoneOf(CapToZone(ltv))
           IN  /\ zone = [from |-> zone.from, to |-> zone.to]
               /\ zone.from \in Nat /\ zone.to \in Nat
               /\ zone.from <= ltv
               /\ zone.from < zone.to /\ zone.to <= liability.max
<1> DEFINE c == CapToZone(ltv)
<1>1. c \in Nat /\ c <= ltv
  BY Levels DEF CapToZone, MinOf
<1> HIDE DEF c
<1>2. CASE c < liability.first_liq_warn
  BY <1>1, <1>2, Levels DEF ZoneOf, c
<1>3. CASE c >= liability.first_liq_warn /\ c < liability.second_liq_warn
  BY <1>1, <1>3, Levels DEF ZoneOf, c
<1>4. CASE c >= liability.second_liq_warn /\ c < liability.third_liq_warn
  BY <1>1, <1>4, Levels DEF ZoneOf, c
<1>5. CASE c >= liability.third_liq_warn
  BY <1>1, <1>5, Levels DEF ZoneOf, c
<1> QED
  BY <1>1, <1>2, <1>3, <1>4, <1>5, Levels

(***************************************************************************)
(* Policy::no_close narrows the zone to where no policy is triggered:      *)
(* below a stop loss that is above the zone's start and the take profit,   *)
(* and from the take profit on, or to nothing if it is past the zone.      *)
(***************************************************************************)
LEMMA NoCloseNarrows ==
    ASSUME NEW zf \in Nat, NEW zt \in Nat, zf < zt, NEW policy \in PolicyValue,
           NEW zone, zone = [from |-> zf, to |-> zt],
           NEW range, range = NoClose(policy, zone)
    PROVE  /\ range.from \in Nat /\ range.to \in Nat
           /\ range.to <= zt
           /\ policy.take_profit # 0 =>
                  policy.take_profit <= range.from \/ range.from = zt
           /\ (/\ policy.stop_loss # 0 /\ zf <= policy.stop_loss
               /\ policy.take_profit <= policy.stop_loss)
                  => range.to <= policy.stop_loss
<1> DEFINE tp == policy.take_profit
           sl == policy.stop_loss
           from == IF tp = 0 THEN zf ELSE MinOf(MaxOf(tp, zf), zt)
           to == IF sl = 0 THEN zt ELSE MaxOf(MinOf(sl, zt), from)
<1>1. tp \in Nat /\ sl \in Nat
  BY DEF PolicyValue
<1>2. range = [from |-> from, to |-> to]
  BY DEF NoClose, CutTo, CutFrom
<1>3. /\ from \in Nat /\ from <= zt
      /\ tp # 0 => tp <= from \/ from = zt
      /\ from <= MaxOf(tp, zf)
  BY <1>1 DEF MinOf, MaxOf
<1> HIDE DEF tp, sl, from
<1>4. /\ to \in Nat /\ to <= zt
      /\ sl # 0 /\ zf <= sl /\ tp <= sl => to <= sl
  BY <1>1, <1>3 DEF MinOf, MaxOf
<1> HIDE DEF to
<1> QED
  BY <1>2, <1>3, <1>4 DEF tp, sl

(***************************************************************************)
(* A stop loss that is not triggered is above the LTV, and above a take    *)
(* profit that is not triggered either.                                    *)
(***************************************************************************)
LEMMA StopLossAbove ==
    ASSUME NEW a \in Nat \ {0}, NEW d \in Nat, NEW sl \in Nat, NEW tp \in Nat,
           d < PercentOf(sl, a), PercentOf(tp, a) <= d
    PROVE  FromRatio(d, a) \in Nat /\ FromRatio(d, a) <= sl /\ tp <= sl
<1>0. HUNDRED \in Nat \ {0}
  BY DEF HUNDRED
<1> DEFINE P == PercentOf(sl, a)
           l == FromRatio(d, a)
<1>1. P \in Nat /\ P * HUNDRED <= a * sl
  BY <1>0, SafeMulNat, SafeMulBounds DEF PercentOf
<1>2. l \in Nat /\ l * a <= HUNDRED * d
  BY <1>0, SafeMulNat, SafeMulBounds DEF FromRatio
<1> HIDE DEF P, l
<1>3. HUNDRED * d <= P * HUNDRED
  <2>1. d <= P
    BY <1>1 DEF P
  <2> QED
    BY <1>1, <2>1 DEF HUNDRED
<1>4. l * a <= sl * a
  BY <1>0, <1>1, <1>2, <1>3
<1>5. l <= sl
  <2>1. SUFFICES ASSUME sl + 1 <= l PROVE FALSE
    BY <1>2
  <2>2. (sl + 1) * a <= l * a
    BY <1>2, <2>1
  <2>3. (sl + 1) * a = sl * a + a
    OBVIOUS
  <2> QED
    BY <1>2, <1>4, <2>2, <2>3
<1>6. tp <= sl
  <2>1. SUFFICES ASSUME sl <= tp PROVE FALSE
    OBVIOUS
  <2>2. PercentOf(sl, a) <= PercentOf(tp, a) /\ PercentOf(tp, a) \in Nat
        /\ PercentOf(sl, a) \in Nat
    BY <2>1, PercentGrows
  <2> QED
    BY <2>2
<1> QED
  BY <1>2, <1>5, <1>6 DEF l

(***************************************************************************)
(* Nothing, or an amount that is worth nothing, is not liquidated.         *)
(***************************************************************************)
LEMMA NothingToAsk ==
    ASSUME NEW asset \in Nat \ {0}, NEW p \in PriceValue
    PROVE  MayAskLiquidation(asset, 0, p) = NoLiquidation
<1>1. 0 \in Int /\ 0 >= 0
  OBVIOUS
<1> QED
  BY <1>1, LiquidationIsPart

(***************************************************************************)
(* An overdue interest is collected only when the time to it is zero, so   *)
(* a period of steadiness that is not zero says that nothing is collected. *)
(***************************************************************************)
LEMMA SteadyForCollectsNothing ==
    ASSUME NEW pos, NEW due, DueValue(due), NEW rate \in Nat, NEW p,
           Steadiness(pos, due, rate, p).for > 0
    PROVE  CollectOverdue(due, rate).amount = 0
<1> DEFINE c == CollectOverdue(due, rate)
<1>1. c.start_in \in Nat \cup {Never}
  BY CollectionNat
<1>2. Steadiness(pos, due, rate, p).for =
        IF c.start_in = Never THEN liability.recalc_time
        ELSE MinOf(c.start_in, liability.recalc_time)
  BY DEF Steadiness
<1>3. c.amount = IF c.start_in = 0 THEN TotalDueInterest(due) ELSE 0
  BY DEF CollectOverdue, OverdueCollection
<1> HIDE DEF c
<1>4. c.start_in # 0
  BY <1>1, <1>2, Levels DEF MinOf, Never
<1> QED
  BY <1>3, <1>4 DEF c

(***************************************************************************)
(* The alarms that Steadiness::try_into_alarms makes at a price p of the   *)
(* moment t.                                                               *)
(***************************************************************************)
AlarmsAt(pos, due, rate, p, t) ==
    LET steadiness == Steadiness(pos, due, rate, p)
    IN  [below |-> steadiness.below, above |-> steadiness.above,
         time |-> t + steadiness.for, set_at |-> t]

(***************************************************************************)
(* The price alarms of a position are the bounds of its narrowed zone.     *)
(***************************************************************************)
LEMMA SteadyBounds ==
    ASSUME NEW pos, NEW due, NEW rate, NEW p,
           NEW a, a = pos.amount,
           NEW range,
           range = NoClose(pos.policy,
                       ZoneOf(CapToZone(FromRatio(ToAssets(TotalDue(due), p), a))))
    PROVE  /\ Steadiness(pos, due, rate, p).below
                  = Price(PercentOf(range.to, a), TotalDue(due))
           /\ range.from # 0 =>
                  Steadiness(pos, due, rate, p).above
                      = Price(PercentOf(range.from, a), TotalDue(due))
BY DEF Steadiness, PriceAt

(***************************************************************************)
(* Where check_close_policy finds nothing no policy is triggered.          *)
(***************************************************************************)
LEMMA NoneTriggersNothing ==
    ASSUME NEW pos, NEW due, NEW rate, NEW p,
           CheckClosePolicy(pos, due, rate, p).kind = "None"
    PROVE  MayTrigger(pos.policy, pos.amount, ToAssets(TotalDue(due), p)) = "None"
BY DEF CheckClosePolicy, MayTrigger

(***************************************************************************)
(* The heart of the matter.  A position that needs no action at a price p  *)
(* needs none at a price q either, as far as the debt goes, when q is      *)
(* within the bounds of the price alarm that p sets and the time alarm is  *)
(* still to come.                                                          *)
(***************************************************************************)
LEMMA SteadyWithinAlarms ==
    ASSUME NEW pos \in PositionValue, pos.amount > 0, NEW due, DueValue(due),
           TotalDue(due) > 0, NEW rate \in Nat,
           NEW p \in PriceValue, NEW q \in PriceValue,
           CheckClosePolicy(pos, due, rate, p).kind = "None",
           PriceLt(Steadiness(pos, due, rate, p).below, q),
           PriceLt(q, Steadiness(pos, due, rate, p).above),
           Steadiness(pos, due, rate, p).for > 0
    PROVE  CheckClosePolicy(pos, due, rate, q).kind = "None"
<1> DEFINE a == pos.amount
           D == TotalDue(due)
           dp == ToAssets(D, p)
           dq == ToAssets(D, q)
           tp == pos.policy.take_profit
           sl == pos.policy.stop_loss
           zone == ZoneOf(CapToZone(FromRatio(dp, a)))
           range == NoClose(pos.policy, zone)
<1>1. /\ a \in Nat \ {0} /\ D \in Nat /\ tp \in Nat /\ sl \in Nat
      /\ pos.policy \in PolicyValue
  BY DEF PositionValue, PolicyValue, DueValue
<1>2. dp \in Nat /\ dq \in Nat
  BY <1>1, ConvertNat
<1>3. /\ sl # 0 => dp < PercentOf(sl, a)
      /\ tp # 0 => PercentOf(tp, a) <= dp
  <2>1. MayTrigger(pos.policy, a, dp) = "None"
    BY NoneTriggersNothing
  <2>2. PercentOf(sl, a) \in Nat /\ PercentOf(tp, a) \in Nat
    BY <1>1, PercentOfNat
  <2> HIDE DEF dp
  <2>3. /\ ~(sl # 0 /\ PercentOf(sl, a) <= dp)
        /\ ~(tp # 0 /\ PercentOf(tp, a) > dp)
    BY <2>1 DEF MayTrigger
  <2> QED
    BY <1>2, <2>2, <2>3
<1>4. FromRatio(dp, a) \in Nat
  <2>1. HUNDRED \in Nat
    BY DEF HUNDRED
  <2> QED
    BY <1>1, <1>2, <2>1, SafeMulNat DEF FromRatio
<1>5. /\ zone = [from |-> zone.from, to |-> zone.to]
      /\ zone.from \in Nat /\ zone.to \in Nat /\ zone.from <= FromRatio(dp, a)
      /\ zone.from < zone.to /\ zone.to <= liability.max
  BY <1>4, ZoneIs
<1>6. /\ Steadiness(pos, due, rate, p).below = Price(PercentOf(range.to, a), D)
      /\ range.from # 0 =>
            Steadiness(pos, due, rate, p).above = Price(PercentOf(range.from, a), D)
  BY SteadyBounds
<1> HIDE DEF zone
<1>7. /\ range.from \in Nat /\ range.to \in Nat /\ range.to <= zone.to
      /\ tp # 0 => tp <= range.from \/ range.from = zone.to
      /\ sl # 0 /\ zone.from <= sl /\ tp <= sl => range.to <= sl
  <2>1. range = NoClose(pos.policy, zone)
    OBVIOUS
  <2> HIDE DEF range
  <2> QED
    BY <1>1, <1>5, <2>1, NoCloseNarrows
<1> HIDE DEF range, dp
<1>8. /\ PercentOf(range.to, a) \in Nat /\ PercentOf(range.from, a) \in Nat
      /\ dq < PercentOf(range.to, a)
      /\ range.from # 0 => PercentOf(range.from, a) <= dq
  <2>1. PercentOf(range.to, a) \in Nat /\ PercentOf(range.from, a) \in Nat
    BY <1>1, <1>7, PercentOfNat
  <2> QED
    BY <1>1, <1>6, <2>1, PriceBoundsAssets
<1> HIDE DEF dq
<1>9. dq < PercentOf(liability.max, a)
  <2>1. liability.max \in Nat /\ range.to <= liability.max
    BY <1>5, <1>7, Levels
  <2>2. PercentOf(range.to, a) <= PercentOf(liability.max, a)
        /\ PercentOf(liability.max, a) \in Nat
    BY <1>1, <1>7, <2>1, PercentGrows
  <2> QED
    BY <1>2, <1>8, <2>2
<1>10. ~(sl # 0 /\ PercentOf(sl, a) <= dq)
  <2>0. PercentOf(sl, a) \in Nat
    BY <1>1, PercentOfNat
  <2>1. SUFFICES ASSUME sl # 0 PROVE dq < PercentOf(sl, a)
    BY <1>2, <2>0
  <2>2. PercentOf(tp, a) <= dp
    <3>1. CASE tp = 0
      <4>1. PercentOf(tp, a) = 0
        BY <1>1, <3>1 DEF PercentOf, SafeMul, HUNDRED
      <4> QED
        BY <1>2, <4>1
    <3> QED
      BY <1>3, <3>1
  <2>3. FromRatio(dp, a) <= sl /\ tp <= sl
    BY <1>1, <1>2, <1>3, <2>1, <2>2, StopLossAbove
  <2>4. range.to <= sl
    BY <1>1, <1>4, <1>5, <1>7, <2>1, <2>3
  <2>5. PercentOf(range.to, a) <= PercentOf(sl, a) /\ PercentOf(sl, a) \in Nat
    BY <1>1, <1>7, <2>4, PercentGrows
  <2> QED
    BY <1>2, <1>8, <2>5
<1>11. ~(tp # 0 /\ PercentOf(tp, a) > dq)
  <2>0. PercentOf(tp, a) \in Nat
    BY <1>1, PercentOfNat
  <2>1. SUFFICES ASSUME tp # 0 PROVE PercentOf(tp, a) <= dq
    BY <1>2, <2>0
  <2>2. range.from # zone.to
    <3>1. SUFFICES ASSUME range.from = zone.to PROVE FALSE
      OBVIOUS
    <3>2. PercentOf(range.to, a) <= PercentOf(range.from, a)
      BY <1>1, <1>5, <1>7, <3>1, PercentGrows
    <3>3. range.from # 0
      BY <1>5, <3>1
    <3> QED
      BY <1>2, <1>8, <3>2, <3>3
  <2>3. tp <= range.from /\ range.from # 0
    BY <1>1, <1>7, <2>1, <2>2
  <2>4. PercentOf(tp, a) <= PercentOf(range.from, a) /\ PercentOf(tp, a) \in Nat
    BY <1>1, <1>7, <2>3, PercentGrows
  <2> QED
    BY <1>2, <1>8, <2>3, <2>4
<1>12. MayTrigger(pos.policy, a, dq) = "None"
  BY <1>10, <1>11 DEF MayTrigger
<1>13. LiquidationForLiability(a, due, q) = NoLiquidation
  <2>1. AmountToLiquidate(a, dq) = 0
    BY <1>9 DEF AmountToLiquidate
  <2> QED
    BY <1>1, <2>1, NothingToAsk DEF LiquidationForLiability, dq
<1>14. LiquidationForOverdue(a, due, rate, q) = NoLiquidation
  <2>1. CollectOverdue(due, rate).amount = 0
    BY SteadyForCollectsNothing
  <2>2. ToAssets(0, q) = 0
    BY ConvertNat
  <2> QED
    BY <1>1, <2>1, <2>2, NothingToAsk DEF LiquidationForOverdue
<1>15. AskLiquidation(a, due, rate, q) = NoLiquidation
  BY <1>13, <1>14 DEF AskLiquidation, Worse
<1>16. CheckClosePolicy(pos, due, rate, q) =
         [kind |-> IF D = 0 THEN "Paid" ELSE "None", amount |-> 0]
  BY <1>12, <1>15 DEF CheckClosePolicy, dq
<1> QED
  BY <1>16

-----------------------------------------------------------------------------
(* The alarms of an active lease *)

(***************************************************************************)
(* The invariant of the alarms.  Those of an active lease were set at some *)
(* moment up to now; if it is this moment, then for the position and the   *)
(* debt as they are, at a price at which there was nothing to do.          *)
(***************************************************************************)
AlarmsSetAt(p) ==
    /\ CheckClosePolicy(position, Due, loan.annual_interest_rate, p).kind = "None"
    /\ alarms = AlarmsAt(position, Due, loan.annual_interest_rate, p, now)

AlarmsFit ==
    state.at = "OpenedActive" =>
        /\ alarms.set_at \in Nat /\ alarms.set_at <= now
        /\ alarms.set_at = now => \E p \in Prices : AlarmsSetAt(p)

(***************************************************************************)
(* The alarms fit where they are set in the same step, past a check that   *)
(* finds nothing to do.                                                    *)
(***************************************************************************)
LEMMA SettingFits ==
    ASSUME LeaseInv, price' = price, now' = now, NEW pos, NEW due, NEW rate,
           position' = pos, Due' = due, loan'.annual_interest_rate = rate,
           CheckClosePolicy(pos, due, rate, price).kind = "None",
           alarms' = AlarmsOf(pos, due, rate)
    PROVE  AlarmsFit'
<1>1. now \in Nat /\ price \in Prices
  BY Facts DEF LeaseInv, TypeOK
<1>2. /\ alarms' = AlarmsAt(pos, due, rate, price, now)
      /\ alarms'.set_at = now
  BY DEF AlarmsOf, AlarmsAt
<1>3. CheckClosePolicy(position', Due', loan'.annual_interest_rate, price').kind = "None"
  BY Zenon
<1>4. alarms' = AlarmsAt(position', Due', loan'.annual_interest_rate, price', now')
  BY <1>2, Zenon
<1>5. AlarmsSetAt(price)'
  BY <1>3, <1>4 DEF AlarmsSetAt
<1> QED
  BY <1>1, <1>2, <1>5 DEF AlarmsFit

(***************************************************************************)
(* They keep fitting where nothing they were set for changes.              *)
(***************************************************************************)
LEMMA QuietFits ==
    ASSUME AlarmsFit,
           UNCHANGED <<state, position, loan, margin_paid_by, alarms, now>>
    PROVE  AlarmsFit'
<1>1. Due' = Due
  BY DEF Due
<1>2. ASSUME NEW p, AlarmsSetAt(p) PROVE AlarmsSetAt(p)'
  BY <1>1, <1>2, Zenon DEF AlarmsSetAt
<1>3. (\E p \in Prices : AlarmsSetAt(p)) => \E p \in Prices : AlarmsSetAt(p)'
  BY <1>2
<1> QED
  BY <1>3 DEF AlarmsFit

(***************************************************************************)
(* A repayment keeps the rate of a loan it does not close.                 *)
(***************************************************************************)
LEMMA RepayKeepsRate ==
    ASSUME NEW ln, NEW pb, NEW payment, NEW t, NEW r,
           r = LoanRepay(ln, pb, payment, t)
    PROVE  \/ r.lpp.loan = NoLoan
           \/ r.lpp.loan.annual_interest_rate = ln.annual_interest_rate
<1>1. PICK amount : r.lpp = RepayShares(ln, t, amount)
  BY DEF LoanRepay, RepayDue
<1>2. \/ RepayShares(ln, t, amount).loan = NoLoan
      \/ \E principal, paid_for : RepayShares(ln, t, amount).loan
             = Loan(principal, ln.annual_interest_rate, paid_for)
  BY DEF RepayShares
<1>3. ASSUME NEW principal, NEW paid_for,
             r.lpp.loan = Loan(principal, ln.annual_interest_rate, paid_for)
      PROVE  r.lpp.loan.annual_interest_rate = ln.annual_interest_rate
  BY <1>3 DEF Loan
<1>4. \/ r.lpp.loan = NoLoan
      \/ \E principal, paid_for :
            r.lpp.loan = Loan(principal, ln.annual_interest_rate, paid_for)
  BY <1>1, <1>2, Zenon
<1> QED
  BY <1>3, <1>4

(***************************************************************************)
(* A repayment sets the alarms for the debt it leaves.                     *)
(***************************************************************************)
LEMMA TryRepayFits ==
    ASSUME LeaseInv, state.at \in OpenedStates,
           NEW payment \in Nat, NEW incoming,
           NEW pos \in [amount : Nat, policy : KnownPolicies], pos.amount > 0,
           TryRepay(payment, incoming, pos)
    PROVE  AlarmsFit'
<1> DEFINE r == LoanRepay(loan, margin_paid_by, payment, now)
           due == LoanState(r.lpp.loan, r.margin_paid_by, now)
           rate == loan.annual_interest_rate
           check == CheckCloseWithInit(pos, due, rate)
           s == check.status
<1>1. /\ loan \in LoanType /\ rate \in Nat /\ now \in Nat
      /\ r.lpp.loan \in LoanType /\ r.margin_paid_by \in Nat
      /\ r.margin_paid_by <= now
  BY Facts, RepayOutcome, Zenon
<1>2. r.lpp.loan = NoLoan \/ r.lpp.loan.annual_interest_rate = rate
  <2>1. r = LoanRepay(loan, margin_paid_by, payment, now)
    OBVIOUS
  <2> HIDE DEF r
  <2> QED
    BY <2>1, RepayKeepsRate
<1> HIDE DEF r
<1>3. DueValue(due) /\ (r.lpp.loan = NoLoan => TotalDue(due) = 0)
  <2> DEFINE nl == r.lpp.loan
             npb == r.margin_paid_by
  <2>1. nl \in LoanType /\ npb \in Nat /\ npb <= now
    BY <1>1
  <2> HIDE DEF nl, npb
  <2>2. DueValue(LoanState(nl, npb, now))
    BY <1>1, <2>1, DueIsValue
  <2>3. nl = NoLoan => TotalDue(LoanState(nl, npb, now)) = 0
    BY <1>1, <2>1, NothingDueOnNoLoan
  <2> QED
    BY <2>2, <2>3 DEF nl, npb
<1> HIDE DEF due
<1>4. TotalDue(due) = 0 => s.kind # "None"
  BY <1>1, <1>3, CheckIs
<1>5. s = CheckClosePolicy(check.position, due, rate, price)
  BY DEF CheckCloseWithInit
<1>6. /\ position' = check.position /\ margin_paid_by' = r.margin_paid_by
      /\ price' = price /\ now' = now
      /\ state'.at = "OpenedActive" =>
            /\ s.kind = "None" /\ loan' = r.lpp.loan
            /\ alarms' = AlarmsOf(check.position, due, rate)
  BY DEF TryRepay, Repaid, StartSale, At, LiquidationState, r, due
<1> HIDE DEF check, s
<1>7. SUFFICES ASSUME state'.at = "OpenedActive" PROVE AlarmsFit'
  BY DEF AlarmsFit
<1>8. loan'.annual_interest_rate = rate
  BY <1>2, <1>3, <1>4, <1>6, <1>7
<1>9. Due' = due
  BY <1>6, <1>7 DEF Due, due
<1> QED
  BY <1>5, <1>6, <1>7, <1>8, <1>9, SettingFits, Zenon

(***************************************************************************)
(* Every repayment sets the alarms for the debt it leaves.                 *)
(***************************************************************************)
LEMMA RepaymentsFit ==
    ASSUME LeaseInv,
           \/ \E p \in Payments : Repay(p)
           \/ \E y \in Yields : FinishBuyLpn(y)
           \/ HealOpened
           \/ \E y \in Yields : FinishPartialSale(y)
    PROVE  AlarmsFit'
<1>1. account \in Nat
  BY Facts
<1>2. state.at \in OpenedStates =>
          position \in [amount : Nat, policy : KnownPolicies] /\ position.amount > 0
  BY DEF LeaseInv, TypeOK
<1>3. CASE \E p \in Payments : Repay(p)
  <2>1. PICK p \in Payments : Repay(p)
    BY <1>3
  <2>2. p \in Nat /\ TryRepay(p, p, position) /\ state.at \in OpenedStates
    BY <2>1, LeaseAssumption DEF Repay, OpenedStates
  <2> QED
    BY <1>2, <2>2, TryRepayFits
<1>4. CASE \E y \in Yields : FinishBuyLpn(y)
  <2>1. PICK y \in Yields : FinishBuyLpn(y)
    BY <1>4
  <2> DEFINE payment == PercentOf(y, state.amount)
  <2>2. payment \in Nat
    <3>1. y \in Nat
      BY LeaseAssumption
    <3> QED
      BY <3>1, Facts, PercentOfNat
  <2>3. TryRepay(payment, payment, position) /\ state.at \in OpenedStates
    BY <2>1 DEF FinishBuyLpn, OpenedStates
  <2> HIDE DEF payment
  <2> QED
    BY <1>2, <2>2, <2>3, TryRepayFits
<1>5. CASE HealOpened
  <2>1. TryRepay(account, 0, position) /\ state.at \in OpenedStates
    BY <1>5 DEF HealOpened, OpenedStates
  <2> QED
    BY <1>1, <1>2, <2>1, TryRepayFits
<1>6. CASE \E y \in Yields : FinishPartialSale(y)
  <2>1. PICK y \in Yields : FinishPartialSale(y)
    BY <1>6
  <2> DEFINE payment == Proceeds(y)
             pos == [position EXCEPT !.amount = @ - state.amount]
  <2>2. payment \in Nat
    BY ProceedsNat
  <2>3. TryRepay(payment, payment, pos) /\ state.at \in OpenedStates
    BY <2>1 DEF FinishPartialSale, Reduced, OpenedStates, SaleStates
  <2>4. /\ position \in [amount : Nat, policy : KnownPolicies]
        /\ state.amount < position.amount /\ state.amount \in Nat
    BY <2>1, Facts DEF FinishPartialSale, LeaseInv, TypeOK
  <2>5. pos \in [amount : Nat, policy : KnownPolicies] /\ pos.amount > 0
    BY <2>4
  <2> HIDE DEF payment, pos
  <2> QED
    BY <2>2, <2>3, <2>5, TryRepayFits
<1> QED
  BY <1>3, <1>4, <1>5, <1>6

(***************************************************************************)
(* The alarms fit at every step: an active lease is one whose last check   *)
(* has found nothing to do, and has set them; time only moves on past the  *)
(* moment they were set at.                                                *)
(***************************************************************************)
LEMMA AlarmsKept ==
    ASSUME LeaseInv, AlarmsFit, [Next]_vars
    PROVE  AlarmsFit'
<1>0. now \in Nat
  BY Facts
<1>1. ASSUME NEW d \in Downpayments, NEW ltd \in MaxLtds, Open(d, ltd)
      PROVE  AlarmsFit'
  BY <1>1 DEF Open, AlarmsFit
<1>2. ASSUME NEW y \in Yields, FinishBuyAsset(y)
      PROVE  AlarmsFit'
  <2> DEFINE pos == OpenLease(PercentOf(y, ToAssets(state.amount, price))).position
             status == OpenLease(PercentOf(y, ToAssets(state.amount, price))).status
             rate == loan.annual_interest_rate
  <2>1. /\ position' = pos /\ UNCHANGED <<loan, margin_paid_by, price, now>>
        /\ state'.at = "OpenedActive" =>
              status.kind = "None" /\ alarms' = AlarmsOf(pos, Due, rate)
    BY <1>2 DEF FinishBuyAsset, At, StartSale, LiquidationState
  <2>2. status = CheckClosePolicy(pos, Due, rate, price)
    BY DEF OpenLease
  <2>3. Due' = Due /\ loan'.annual_interest_rate = rate
    BY <2>1 DEF Due
  <2> HIDE DEF pos, status, rate
  <2>4. CASE state'.at = "OpenedActive"
    BY <2>1, <2>2, <2>3, <2>4, SettingFits, Zenon
  <2>5. CASE state'.at # "OpenedActive"
    BY <2>5 DEF AlarmsFit
  <2> QED
    BY <2>4, <2>5
<1>3. ASSUME \/ \E p \in Payments : Repay(p)
             \/ \E y \in Yields : FinishBuyLpn(y)
             \/ HealOpened
             \/ \E y \in Yields : FinishPartialSale(y)
      PROVE  AlarmsFit'
  BY <1>3, RepaymentsFit
<1>4. ASSUME NEW p \in SwapPayments, RepayOther(p)
      PROVE  AlarmsFit'
  BY <1>4 DEF RepayOther, AlarmsFit
<1>5. ASSUME PriceAlarm \/ TimeAlarm
      PROVE  AlarmsFit'
  <2> DEFINE rate == loan.annual_interest_rate
  <2>1. /\ UNCHANGED <<position, loan, margin_paid_by, price, now>>
        /\ state'.at = "OpenedActive" =>
              Status.kind = "None" /\ alarms' = AlarmsOf(position, Due, rate)
    BY <1>5 DEF PriceAlarm, TimeAlarm, TryOnAlarm, StartSale, LiquidationState
  <2>2. Due' = Due /\ loan'.annual_interest_rate = rate
    BY <2>1 DEF Due
  <2>3. Status = CheckClosePolicy(position, Due, rate, price)
    BY DEF Status
  <2> HIDE DEF rate
  <2>4. CASE state'.at = "OpenedActive"
    BY <2>1, <2>2, <2>3, <2>4, SettingFits, Zenon
  <2>5. CASE state'.at # "OpenedActive"
    BY <2>5 DEF AlarmsFit
  <2> QED
    BY <2>4, <2>5
<1>6. ASSUME IgnoreAlarm
      PROVE  AlarmsFit'
  BY <1>6 DEF IgnoreAlarm, AlarmsFit, FinalStates
<1>7. ASSUME NEW policy \in Policies, ChangeClosePolicy(policy)
      PROVE  AlarmsFit'
  <2> DEFINE changed == [position EXCEPT !.policy = policy]
             rate == loan.annual_interest_rate
  <2>1. /\ CheckClosePolicy(changed, Due, rate, price).kind = "None"
        /\ position' = changed /\ alarms' = AlarmsOf(changed, Due, rate)
        /\ UNCHANGED <<loan, margin_paid_by, price, now>>
    BY <1>7 DEF ChangeClosePolicy
  <2>2. Due' = Due /\ loan'.annual_interest_rate = rate
    BY <2>1 DEF Due
  <2> HIDE DEF changed, rate
  <2> QED
    BY <2>1, <2>2, SettingFits, Zenon
<1>8. ASSUME \/ \E a \in CloseAmounts : ClosePartially(a)
             \/ CloseFully
             \/ \E y \in Yields : FinishFullSale(y)
             \/ Close \/ FinishTransferIn
      PROVE  AlarmsFit'
  BY <1>8
  DEF ClosePartially, CloseFully, StartSale, FinishFullSale, Close,
      FinishTransferIn, At, AlarmsFit
<1>9. ASSUME \/ HealFinal
             \/ \E a \in Donations : Donate(a)
             \/ \E p \in Prices : PriceMove(p)
             \/ UNCHANGED vars
      PROVE  AlarmsFit'
  BY <1>9, QuietFits DEF HealFinal, Donate, PriceMove, vars
<1>10. ASSUME Tick
       PROVE  AlarmsFit'
  BY <1>0, <1>10 DEF Tick, AlarmsFit
<1> QED
  BY <1>1, <1>2, <1>3, <1>4, <1>5, <1>6, <1>7, <1>8, <1>9, <1>10 DEF Next

(***************************************************************************)
(* The alarms of a lease cover its debt, for any liability levels, close   *)
(* policies and prices: at the moment they are set, no price outside the   *)
(* lower bound itself puts the position in need of a liquidation or of a   *)
(* close without making an alarm due (Spec::no_liquidation,                *)
(* Policy::no_close, Steadiness::try_into_alarms).                         *)
(***************************************************************************)
THEOREM AlarmsCoverTrouble == Spec => []TroubleRaisesAlarm
<1>1. Init => AlarmsFit
  BY DEF Init, At, AlarmsFit
<1>2. LeaseInv /\ AlarmsFit /\ [Next]_vars => AlarmsFit'
  BY AlarmsKept
<1>3. LeaseInv /\ AlarmsFit => TroubleRaisesAlarm
  <2> SUFFICES ASSUME LeaseInv, AlarmsFit, state.at = "OpenedActive",
                      alarms.set_at = now,
                      PriceLt(price, alarms.below) \/ PriceLt(alarms.below, price),
                      ~PriceAlarmDue, ~TimeAlarmDue
               PROVE  Status.kind = "None"
    BY DEF TroubleRaisesAlarm
  <2> DEFINE rate == loan.annual_interest_rate
  <2>1. PICK p \in Prices : AlarmsSetAt(p)
    BY DEF AlarmsFit
  <2> DEFINE st == Steadiness(position, Due, rate, p)
  <2>2. /\ CheckClosePolicy(position, Due, rate, p).kind = "None"
        /\ alarms = [below |-> st.below, above |-> st.above,
                     time |-> now + st.for, set_at |-> now]
    BY <2>1 DEF AlarmsSetAt, AlarmsAt
  <2>3. /\ p \in PriceValue /\ price \in PriceValue /\ now \in Nat
        /\ position \in PositionValue /\ position.amount > 0
        /\ DueValue(Due) /\ rate \in Nat
    BY Facts, LeaseAssumption DEF PriceValue, LeaseInv, TypeOK, OpenedStates
  <2>4. TotalDue(Due) > 0
    <3>1. /\ loan \in LoanType /\ margin_paid_by \in Nat
          /\ margin_paid_by <= now /\ loan.principal_due > 0
      BY Facts DEF LeaseInv, OpenedStates
    <3>2. /\ loan.principal_due \in Nat /\ LoanInterestDue(loan, now) \in Nat
          /\ MarginOver(loan.principal_due, now - margin_paid_by) \in Nat
          /\ TotalDue(Due) =
                loan.principal_due + LoanInterestDue(loan, now)
                    + MarginOver(loan.principal_due, now - margin_paid_by)
      BY <2>3, <3>1, TotalDueIs DEF Due
    <3> QED
      BY <3>1, <3>2
  <2>5. st.for \in Nat
    <3>1. AlarmsValue(alarms) /\ alarms.time = now + st.for
      BY <2>2 DEF LeaseInv
    <3>2. st.for = IF CollectOverdue(Due, rate).start_in = Never
                   THEN liability.recalc_time
                   ELSE MinOf(CollectOverdue(Due, rate).start_in,
                              liability.recalc_time)
      BY DEF Steadiness
    <3>3. CollectOverdue(Due, rate).start_in \in Nat \cup {Never}
      BY <2>3, CollectionNat
    <3> HIDE DEF st, rate
    <3> QED
      BY <3>2, <3>3, Levels DEF MinOf
  <2> HIDE DEF st, rate
  <2>6. st.for > 0
    BY <2>2, <2>3, <2>5 DEF TimeAlarmDue, Never
  <2>7. PriceLt(st.below, price) /\ PriceLt(price, st.above)
    BY <2>2 DEF PriceAlarmDue
  <2>8. CheckClosePolicy(position, Due, rate, price).kind = "None"
    BY <2>2, <2>3, <2>4, <2>6, <2>7, SteadyWithinAlarms DEF st
  <2> QED
    BY <2>8 DEF Status, rate
<1> QED
  BY <1>1, <1>2, <1>3, Invariance, PTL DEF Spec

-----------------------------------------------------------------------------
(* A partial liquidation is enough *)

(***************************************************************************)
(* The interest of a smaller principal over the same period is not more.   *)
(***************************************************************************)
LEMMA LessPrincipalLessInterest ==
    ASSUME NEW rate \in Nat, NEW x \in Nat, NEW y \in Nat, x <= y,
           NEW period \in Nat
    PROVE  InterestOver(PercentOf(rate, x), period)
               <= InterestOver(PercentOf(rate, y), period)
<1>1. HUNDRED \in Nat \ {0} /\ YEAR \in Nat \ {0}
  BY YearAssumption DEF HUNDRED
<1>2. \A a, b \in Nat, c \in Nat \ {0} : SafeMul(a, b, c) = SafeMul(b, a, c)
  BY DEF SafeMul
<1> DEFINE px == PercentOf(rate, x)
           py == PercentOf(rate, y)
<1>3. px \in Nat /\ py \in Nat
  BY PercentOfNat
<1>4. px <= py
  <2>1. SafeMul(rate, x, HUNDRED) <= SafeMul(rate, y, HUNDRED)
    BY <1>1, SafeMulMonotone
  <2> QED
    BY <1>1, <1>2, <2>1 DEF PercentOf
<1> HIDE DEF px, py
<1>5. SafeMul(period, px, YEAR) <= SafeMul(period, py, YEAR)
  BY <1>1, <1>3, <1>4, SafeMulMonotone
<1>6. SafeMul(px, period, YEAR) <= SafeMul(py, period, YEAR)
  BY <1>1, <1>2, <1>3, <1>5
<1> QED
  BY <1>6 DEF InterestOver, px, py

(***************************************************************************)
(* interest::pay with at least what is due leaves no interest for the      *)
(* period, not even on what is left of a principal.                        *)
(***************************************************************************)
LEMMA PaidInterestIsNone ==
    ASSUME NEW rate \in Nat, NEW x \in Nat, NEW y \in Nat, x <= y,
           NEW period \in Nat, NEW payment \in Nat,
           InterestOver(PercentOf(rate, y), period) <= payment
    PROVE  LET q == PayInterest(InterestOver(PercentOf(rate, y), period),
                                payment, period).paid_for
           IN  /\ q \in Nat /\ q <= period
               /\ InterestOver(PercentOf(rate, x), period - q) = 0
<1> DEFINE due == InterestOver(PercentOf(rate, y), period)
           q == PayInterest(due, payment, period).paid_for
<1>1. YEAR \in Nat \ {0}
  BY YearAssumption
<1>2. PercentOf(rate, x) \in Nat /\ PercentOf(rate, y) \in Nat
  BY PercentOfNat
<1>3. due \in Nat
  BY <1>1, <1>2, SafeMulNat DEF InterestOver
<1>4. q \in Nat /\ q <= period /\ (0 < due => q = period)
  BY <1>3, PayInterestSplit
<1>5. CASE due > 0
  <2>1. period - q = 0
    BY <1>4, <1>5
  <2>2. SafeMul(PercentOf(rate, x), 0, YEAR) = 0
    BY <1>1, <1>2, SafeMulWhole
  <2> QED
    BY <1>4, <2>1, <2>2 DEF InterestOver
<1>6. CASE due = 0
  <2>1. q = 0
    BY <1>6 DEF PayInterest
  <2>2. InterestOver(PercentOf(rate, x), period) <= 0
    BY <1>6, LessPrincipalLessInterest
  <2>3. InterestOver(PercentOf(rate, x), period) \in Nat
    BY <1>1, <1>2, SafeMulNat DEF InterestOver
  <2>4. period - q = period
    BY <2>1
  <2> QED
    BY <1>4, <2>2, <2>3, <2>4
<1> QED
  BY <1>3, <1>5, <1>6

(***************************************************************************)
(* A payment that covers the interest takes all of it off the debt: what   *)
(* is left is principal only, less by the rest of the payment.             *)
(***************************************************************************)
LEMMA RepayCovers ==
    ASSUME NEW ln \in LoanType, NEW pb \in Nat, NEW t \in Nat, pb <= t,
           ln.interest_paid <= t, NEW payment \in Nat,
           TotalDueInterest(LoanState(ln, pb, t)) <= payment
    PROVE  LET r    == LoanRepay(ln, pb, payment, t)
               left == TotalDue(LoanState(r.lpp.loan, r.margin_paid_by, t))
           IN  /\ left \in Nat
               /\ left = 0 \/ left = TotalDue(LoanState(ln, pb, t)) - payment
<1> DEFINE r == LoanRepay(ln, pb, payment, t)
           P == ln.principal_due
           I == LoanInterestDue(ln, t)
           M == MarginOver(ln.principal_due, t - pb)
           rate == ln.annual_interest_rate
           period == DuePeriod(ln, t)
           ip == r.interest_paid
           mp == r.margin_paid
           pp == r.principal_paid
           q == PayInterest(I, ip + pp, period).paid_for
           mq == PayInterest(M, mp, t - pb).paid_for
           nl == r.lpp.loan
           npb == r.margin_paid_by
<1>1. /\ P \in Nat /\ rate \in Nat /\ ln.interest_paid \in Nat /\ t - pb \in Nat
      /\ I \in Nat /\ M \in Nat
      /\ I + M <= payment /\ TotalDue(LoanState(ln, pb, t)) = P + I + M
  <2>1. P \in Nat /\ rate \in Nat /\ ln.interest_paid \in Nat /\ t - pb \in Nat
    BY DEF LoanType
  <2>2. /\ I \in Nat /\ M \in Nat
        /\ TotalDueInterest(LoanState(ln, pb, t)) = I + M
        /\ TotalDue(LoanState(ln, pb, t)) = P + I + M
    BY DueParts
  <2> QED
    BY <2>1, <2>2
<1>2. /\ ip \in Nat /\ ip <= I /\ mp \in Nat /\ mp <= M
      /\ pp \in Nat /\ pp <= P /\ r.change \in Nat
      /\ ip + mp + pp + r.change = payment
      /\ (ip < I => pp = 0) /\ (mp < M => pp = 0)
      /\ pp < P => r.change = 0
      /\ npb = pb + mq
  <2>1. /\ ip \in Nat /\ ip <= I /\ mp \in Nat /\ mp <= M
        /\ pp \in Nat /\ pp <= P /\ r.change \in Nat
        /\ ip + mp + pp + r.change = payment
    BY RepaySplit
  <2>2. (ip < I => pp = 0) /\ (mp < M => pp = 0)
    BY RepaySplit
  <2>3. pp < P => r.change = 0
    BY RepaySplit
  <2>4. npb = pb + mq
    BY RepaySplit
  <2> QED
    BY <2>1, <2>2, <2>3, <2>4
<1>3. nl = IF pp = P THEN NoLoan
           ELSE Loan(P - pp, rate, ln.interest_paid + q)
  BY PoolAgrees
<1>4. /\ nl \in LoanType /\ npb \in Nat /\ npb <= t
  BY RepayTyped
<1>5. period = t - ln.interest_paid /\ period \in Nat
  BY <1>1 DEF DuePeriod
<1>6. I = InterestOver(PercentOf(rate, P), period)
      /\ M = InterestOver(PercentOf(margin_interest, P), t - pb)
  BY DEF LoanInterestDue, MarginOver
<1> HIDE DEF r, P, I, M, rate, period, ip, mp, pp, q, mq
<1>7. CASE pp = P
  <2>1. nl = NoLoan
    BY <1>3, <1>7
  <2>2. TotalDue(LoanState(nl, npb, t)) = 0
    BY <1>4, <2>1, NothingDueOnNoLoan
  <2> QED
    BY <2>2 DEF r
<1>8. CASE pp # P
  <2> DEFINE x == P - pp
  <2>1. /\ x \in Nat /\ x <= P /\ ip = I /\ mp = M /\ r.change = 0
        /\ ip + pp \in Nat /\ I <= ip + pp
    BY <1>1, <1>2, <1>8
  <2> HIDE DEF x
  <2>2. /\ nl.principal_due = x /\ nl.annual_interest_rate = rate
        /\ nl.interest_paid = ln.interest_paid + q
    BY <1>3, <1>8 DEF Loan, x
  <2> HIDE DEF nl, npb
  <2>3. q \in Nat /\ q <= period /\ InterestOver(PercentOf(rate, x), period - q) = 0
    <3> DEFINE pay == ip + pp
    <3>1. /\ x \in Nat /\ P \in Nat /\ x <= P /\ rate \in Nat /\ period \in Nat
          /\ pay \in Nat /\ I <= pay
      BY <1>1, <1>5, <2>1
    <3>2. q = PayInterest(I, pay, period).paid_for
      BY DEF q
    <3> HIDE DEF pay
    <3> QED
      BY <1>6, <3>1, <3>2, PaidInterestIsNone
  <2>4. /\ mq \in Nat /\ mq <= t - pb
        /\ InterestOver(PercentOf(margin_interest, x), (t - pb) - mq) = 0
    <3> DEFINE since == t - pb
    <3>1. /\ x \in Nat /\ P \in Nat /\ x <= P /\ margin_interest \in Nat
          /\ since \in Nat /\ mp \in Nat /\ M <= mp
      BY <1>1, <1>2, <2>1, LeaseLoanAssumption
    <3>2. /\ mq = PayInterest(M, mp, since).paid_for
          /\ M = InterestOver(PercentOf(margin_interest, P), since)
      BY <1>6 DEF mq
    <3> HIDE DEF since
    <3>3. /\ mq \in Nat /\ mq <= since
          /\ InterestOver(PercentOf(margin_interest, x), since - mq) = 0
      BY <3>1, <3>2, PaidInterestIsNone
    <3> QED
      BY <3>3 DEF since
  <2>5. DuePeriod(nl, t) = period - q
    BY <1>1, <1>5, <2>2, <2>3 DEF DuePeriod
  <2>6. LoanInterestDue(nl, t) = 0
    BY <2>2, <2>3, <2>5 DEF LoanInterestDue
  <2>7. t - npb = (t - pb) - mq
    BY <1>2, <2>4
  <2>8. MarginOver(nl.principal_due, t - npb) = 0
    BY <2>2, <2>4, <2>7 DEF MarginOver
  <2>9. TotalDue(LoanState(nl, npb, t)) =
          nl.principal_due + LoanInterestDue(nl, t)
              + MarginOver(nl.principal_due, t - npb)
    BY <1>4, TotalDueIs
  <2>10. TotalDue(LoanState(nl, npb, t)) = x
    BY <2>1, <2>2, <2>6, <2>8, <2>9
  <2>11. x = (P + I + M) - payment
    BY <1>1, <1>2, <2>1 DEF x
  <2> QED
    BY <1>1, <2>1, <2>10, <2>11 DEF nl, npb, r
<1> QED
  BY <1>7, <1>8

(***************************************************************************)
(* Percent::of brackets the exact part.                                    *)
(***************************************************************************)
LEMMA PercentBounds ==
    ASSUME NEW p \in Nat, NEW a \in Nat
    PROVE  /\ PercentOf(p, a) \in Nat
           /\ PercentOf(p, a) * HUNDRED <= a * p
           /\ a * p < PercentOf(p, a) * HUNDRED + HUNDRED
<1>1. HUNDRED \in Nat \ {0}
  BY DEF HUNDRED
<1> QED
  BY <1>1, SafeMulNat, SafeMulBounds DEF PercentOf

(***************************************************************************)
(* The arithmetic of a sale that heals.  Of an excess e over the healthy   *)
(* part hp of the asset, a sale of at least e / (1 - h) leaves no more     *)
(* than the healthy part g of the rest, up to the roundings.               *)
(***************************************************************************)
LEMMA HealingArithmetic ==
    ASSUME NEW a \in Nat, NEW d \in Nat, NEW sold \in Nat, NEW rest \in Nat,
           rest = a - sold,
           NEW h \in Nat, NEW m \in Nat, m = 1000 - h,
           NEW hp \in Nat, hp * 1000 <= a * h,
           NEW g \in Nat, rest * h < g * 1000 + 1000,
           NEW e \in Nat, e = d - hp,
           NEW x \in Nat, e * 1000 < x * m + m, x <= sold
    PROVE  d - sold <= g + 1
<1>1. x * m <= sold * m
  OBVIOUS
<1>2. sold * m = 1000 * sold - sold * h
  OBVIOUS
<1>3. rest * h = a * h - sold * h
  OBVIOUS
<1>4. /\ x * m \in Nat /\ sold * m \in Nat /\ sold * h \in Nat
      /\ a * h \in Nat /\ rest * h \in Nat
  OBVIOUS
<1> QED
  BY <1>1, <1>2, <1>3, <1>4

(***************************************************************************)
(* Liability::amount_to_liquidate, where the LTV has got to the maximum:   *)
(* selling at least that much brings the LTV to the healthy level, up to   *)
(* the unit it is rounded by.                                              *)
(***************************************************************************)
LEMMA SaleHeals ==
    ASSUME NEW a \in Nat \ {0}, NEW d \in Nat,
           AmountToLiquidate(a, d) > 0,
           NEW sold \in Nat, AmountToLiquidate(a, d) <= sold, sold < a
    PROVE  d - sold <= PercentOf(liability.healthy, a - sold) + 1
<1> DEFINE h == liability.healthy
           x == AmountToLiquidate(a, d)
           hp == PercentOf(h, a)
           mp == PercentOf(liability.max, a)
           rest == a - sold
           g == PercentOf(h, rest)
<1>1. /\ h \in Nat /\ liability.max \in Nat /\ h <= liability.max /\ h < 1000
      /\ a \in Nat /\ rest \in Nat /\ HUNDRED = 1000
  BY Levels DEF HUNDRED
<1> HIDE DEF h, rest
<1>2. hp \in Nat /\ mp \in Nat /\ hp <= mp
  BY <1>1, PercentGrows
<1>3. hp * 1000 <= a * h
  BY <1>1, PercentBounds
<1>4. g \in Nat /\ rest * h < g * 1000 + 1000
  <2>0. h \in Nat /\ rest \in Nat
    BY <1>1
  <2>1. g \in Nat /\ rest * h < g * HUNDRED + HUNDRED
    BY <2>0, PercentBounds
  <2> HIDE DEF g
  <2> QED
    BY <1>1, <2>1
<1>5. x = IF d < mp THEN 0
          ELSE IF a <= d THEN a
          ELSE SafeMul(d - MinOf(d, hp), HUNDRED, HUNDRED - h)
  BY DEF AmountToLiquidate, h
<1>6. x > 0 /\ x <= sold
  OBVIOUS
<1> HIDE DEF x, hp, mp, g
<1>7. d >= mp /\ d < a
  BY <1>1, <1>2, <1>5, <1>6
<1> DEFINE e == d - hp
           m == 1000 - h
<1>8. MinOf(d, hp) = hp /\ e \in Nat /\ m \in Nat \ {0} /\ 1000 \in Nat
  BY <1>1, <1>2, <1>7 DEF MinOf
<1>9. x = SafeMul(e, 1000, m)
  <2>1. ~(d < mp) /\ ~(a <= d)
    BY <1>1, <1>2, <1>7
  <2>2. d - MinOf(d, hp) = e /\ HUNDRED - h = m
    BY <1>1, <1>8
  <2> QED
    BY <1>1, <1>5, <2>1, <2>2
<1>10. e = d - hp /\ m = 1000 - h /\ m \in Nat
  BY <1>8
<1> HIDE DEF e, m
<1>11. x \in Nat /\ e * 1000 < x * m + m
  BY <1>8, <1>9, SafeMulNat, SafeMulBounds
<1>12. rest = a - sold
  BY DEF rest
<1>13. d - sold <= g + 1
  BY <1>1, <1>2, <1>3, <1>4, <1>6, <1>8, <1>10, <1>11, <1>12, HealingArithmetic
<1> QED
  BY <1>13 DEF g, h, rest

(***************************************************************************)
(* The proceeds of a sale, rounded down to whole LPN, take off the due     *)
(* what they are worth but for the LPN lost to the rounding.               *)
(***************************************************************************)
LEMMA ProceedsWorth ==
    ASSUME NEW p \in PriceValue, NEW D \in Nat, NEW sold \in Nat,
           NEW left \in Nat, left = D - Total(sold, p)
    PROVE  ToAssets(left, p) <= (ToAssets(D, p) - sold) + ToAssets(1, p) + 1
<1> DEFINE A == p.amount
           Q == p.quote
           P == Total(sold, p)
           d == ToAssets(D, p)
           n == ToAssets(left, p)
           u == ToAssets(1, p)
<1>1. A \in Nat \ {0} /\ Q \in Nat \ {0}
  BY DEF PriceValue
<1>2. /\ P = SafeMul(Q, sold, A) /\ d = SafeMul(A, D, Q)
      /\ n = SafeMul(A, left, Q) /\ u = SafeMul(A, 1, Q)
  BY DEF Total, ToAssets, Inv, Price
<1> HIDE DEF A, Q, P, d, n, u
<1>3. P \in Nat /\ Q * sold < P * A + A
  BY <1>1, <1>2, SafeMulNat, SafeMulBounds
<1>4. d \in Nat /\ A * D < d * Q + Q
  BY <1>1, <1>2, SafeMulNat, SafeMulBounds
<1>5. n \in Nat /\ n * Q <= A * left
  BY <1>1, <1>2, SafeMulNat, SafeMulBounds
<1>6. u \in Nat /\ A < u * Q + Q
  <2>1. u \in Nat /\ A * 1 < u * Q + Q
    BY <1>1, <1>2, SafeMulNat, SafeMulBounds
  <2> QED
    BY <1>1, <2>1
<1>7. A * left = A * D - P * A
  <2>1. left = D - P
    BY DEF P
  <2> QED
    BY <1>1, <1>3, <2>1
<1>8. n * Q < (d - sold + u + 2) * Q
  <2>1. (d - sold + u + 2) * Q = d * Q - Q * sold + u * Q + Q + Q
    BY <1>1, <1>4, <1>6
  <2>2. /\ d * Q \in Nat /\ Q * sold \in Nat /\ u * Q \in Nat /\ n * Q \in Nat
        /\ A * left \in Nat /\ A * D \in Nat /\ P * A \in Nat
    BY <1>1, <1>3, <1>4, <1>5, <1>6
  <2> QED
    BY <1>1, <1>3, <1>4, <1>5, <1>6, <1>7, <2>1, <2>2
<1>9. n < d - sold + u + 2
  <2> DEFINE k == d - sold + u + 2
  <2>1. k \in Int
    BY <1>4, <1>6
  <2>2. n * Q < k * Q
    BY <1>8
  <2> HIDE DEF k
  <2>3. SUFFICES ASSUME k <= n PROVE FALSE
    BY <1>5, <2>1 DEF k
  <2>4. k * Q <= n * Q
    BY <1>1, <1>5, <2>1, <2>3
  <2>5. k * Q \in Int /\ n * Q \in Int
    BY <1>1, <1>5, <2>1
  <2> QED
    BY <2>2, <2>4, <2>5
<1> QED
  BY <1>4, <1>5, <1>6, <1>9 DEF n, d, u

(***************************************************************************)
(* What is sold is at least what the liability asks for: an overdue        *)
(* collection prevails only if it sells more.                              *)
(***************************************************************************)
LEMMA SoldForLiability ==
    ASSUME NEW a \in Nat \ {0}, NEW x \in Nat, NEW y \in Nat,
           NEW p \in PriceValue,
           NEW l, l = Worse(MayAskLiquidation(a, x, p), MayAskLiquidation(a, y, p)),
           l.kind = "Partial"
    PROVE  l.amount \in Nat /\ x <= l.amount
<1> DEFINE lx == MayAskLiquidation(a, x, p)
           ly == MayAskLiquidation(a, y, p)
<1>1. ASSUME NEW v \in Nat
      PROVE  LET lv == MayAskLiquidation(a, v, p)
             IN  \/ lv = NoLiquidation /\ ~ValidTransaction(v, p)
                 \/ lv = [kind |-> "Full", amount |-> 0]
                 \/ lv = [kind |-> "Partial", amount |-> v] /\ ValidTransaction(v, p)
  BY DEF MayAskLiquidation, ValidateCloseAmount
<1>2. \/ lx = NoLiquidation /\ ~ValidTransaction(x, p)
      \/ lx = [kind |-> "Full", amount |-> 0]
      \/ lx = [kind |-> "Partial", amount |-> x] /\ ValidTransaction(x, p)
  BY <1>1
<1>3. \/ ly = NoLiquidation /\ ~ValidTransaction(y, p)
      \/ ly = [kind |-> "Full", amount |-> 0]
      \/ ly = [kind |-> "Partial", amount |-> y] /\ ValidTransaction(y, p)
  BY <1>1
<1>4. ~ValidTransaction(x, p) /\ ValidTransaction(y, p) => x <= y
  <2>1. SUFFICES ASSUME y <= x, ValidTransaction(y, p) PROVE ValidTransaction(x, p)
    OBVIOUS
  <2>2. p.quote \in Nat /\ p.amount \in Nat \ {0}
    BY DEF PriceValue
  <2>3. Total(y, p) <= Total(x, p)
    BY <2>1, <2>2, SafeMulMonotone DEF Total
  <2>4. Total(y, p) \in Nat /\ Total(x, p) \in Nat /\ min_transaction \in Nat
    BY ConvertNat, PositionAssumption
  <2> QED
    BY <2>1, <2>3, <2>4 DEF ValidTransaction
<1> HIDE DEF lx, ly
<1>5. l = Worse(lx, ly)
  BY DEF lx, ly
<1>6. CASE lx = NoLiquidation /\ ~ValidTransaction(x, p)
  BY <1>3, <1>4, <1>5, <1>6 DEF Worse, NoLiquidation
<1>7. CASE lx = [kind |-> "Full", amount |-> 0]
  BY <1>5, <1>7 DEF Worse
<1>8. CASE lx = [kind |-> "Partial", amount |-> x]
  BY <1>3, <1>5, <1>8 DEF Worse, NoLiquidation
<1> QED
  BY <1>2, <1>6, <1>7, <1>8

(***************************************************************************)
(* A status of a partial liquidation sells at least what brings the LTV    *)
(* back to the healthy level.                                              *)
(***************************************************************************)
LEMMA PartialSellsEnough ==
    ASSUME NEW pos \in PositionValue, pos.amount > 0, NEW due, DueValue(due),
           NEW rate \in Nat, NEW p \in PriceValue,
           CheckClosePolicy(pos, due, rate, p).kind = "Partial"
    PROVE  AmountToLiquidate(pos.amount, ToAssets(TotalDue(due), p))
               <= CheckClosePolicy(pos, due, rate, p).amount
<1> DEFINE a == pos.amount
           dues == ToAssets(TotalDue(due), p)
           x == AmountToLiquidate(a, dues)
           c == CollectOverdue(due, rate).amount
           y == ToAssets(c, p)
           s == CheckClosePolicy(pos, due, rate, p)
           l == AskLiquidation(a, due, rate, p)
<1>1. a \in Nat \ {0} /\ dues \in Nat
  BY ConvertNat DEF PositionValue, DueValue
<1>2. x \in Nat
  <2>1. x \in Int /\ x >= 0
    BY <1>1, ToLiquidateNat
  <2> QED
    BY <2>1
<1>3. y \in Nat
  <2>1. c \in Nat
    BY CollectionNat DEF DueValue
  <2> QED
    BY <2>1, ConvertNat
<1>4. l = Worse(MayAskLiquidation(a, x, p), MayAskLiquidation(a, y, p))
  BY DEF AskLiquidation, LiquidationForLiability, LiquidationForOverdue
<1>5. s = l
  <2> DEFINE strategy == MayTrigger(pos.policy, a, dues)
  <2>1. strategy \in {"StopLoss", "TakeProfit", "None"}
    BY DEF MayTrigger
  <2>2. s = CASE strategy # "None" -> [kind |-> strategy, amount |-> 0]
              [] strategy = "None" /\ l # NoLiquidation -> l
              [] strategy = "None" /\ l = NoLiquidation ->
                   [kind |-> IF TotalDue(due) = 0 THEN "Paid" ELSE "None",
                    amount |-> 0]
    BY DEF CheckClosePolicy
  <2>3. s.kind = "Partial"
    OBVIOUS
  <2> HIDE DEF strategy, s, l
  <2> QED
    BY <2>1, <2>2, <2>3
<1> HIDE DEF s, l, x, y
<1>6. x <= l.amount
  BY <1>1, <1>2, <1>3, <1>4, <1>5, SoldForLiability DEF s
<1> QED
  BY <1>5, <1>6 DEF s, x

(***************************************************************************)
(* The proceeds of what is to be liquidated, at the price it is asked for, *)
(* cover the interest.                                                     *)
(***************************************************************************)
InterestCovered == TotalDueInterest(Due) <= Total(Status.amount, price)

(***************************************************************************)
(* A partial liquidation for the liability is enough, for any liability    *)
(* levels, rates and prices, provided that its proceeds cover the          *)
(* interest: sold at the price it is asked for, what is left of the        *)
(* position is healthy up to the units lost to the roundings               *)
(* (Liability::amount_to_liquidate and Spec::may_ask_liquidation).         *)
(* Proceeds that pay for only a part of the interest pay for a period      *)
(* rounded down to whole units of time, and the interest of up to one unit *)
(* is due again, which no fixed number of assets bounds.                   *)
(***************************************************************************)
THEOREM PartialSaleHeals == Spec => [](InterestCovered => PartialLiquidationHeals)
<1>1. LeaseInv => (InterestCovered => PartialLiquidationHeals)
  <2> DEFINE a == position.amount
             D == TotalDue(Due)
             d == ToAssets(D, price)
             x == AmountToLiquidate(a, d)
             sold == Status.amount
             P == Total(sold, price)
             r == LoanRepay(loan, margin_paid_by, P, now)
             left == TotalDue(LoanState(r.lpp.loan, r.margin_paid_by, now))
  <2> SUFFICES ASSUME LeaseInv, InterestCovered, state.at = "OpenedActive",
                      Status.kind = "Partial", x > 0
               PROVE  ToAssets(left, price)
                        <= PercentOf(liability.healthy, a - sold)
                             + 3 + ToAssets(1, price)
    BY DEF PartialLiquidationHeals
  <2>1. /\ loan \in LoanType /\ loan.interest_paid <= now
        /\ margin_paid_by \in Nat /\ margin_paid_by <= now /\ now \in Nat
        /\ DueValue(Due) /\ loan.annual_interest_rate \in Nat
        /\ position \in PositionValue /\ a \in Nat \ {0} /\ position.amount > 0
        /\ price \in PriceValue
    BY Facts DEF LeaseInv, TypeOK, OpenedStates
  <2>2. sold \in Nat /\ sold < a
    BY <2>1, StatusIs DEF Status
  <2>3. x <= sold
    BY <2>1, PartialSellsEnough DEF Status
  <2>4. D \in Nat /\ d \in Nat
    BY <2>1, ConvertNat DEF DueValue
  <2>5. d - sold <= PercentOf(liability.healthy, a - sold) + 1
    <3> HIDE DEF d, sold, a
    <3> QED
      BY <2>1, <2>2, <2>3, <2>4, SaleHeals
  <2>6. P \in Nat
    BY <2>1, <2>2, ConvertNat
  <2>7. left \in Nat /\ (left = 0 \/ left = D - P)
    <3>1. TotalDueInterest(LoanState(loan, margin_paid_by, now)) <= P
      BY DEF InterestCovered, Due
    <3> HIDE DEF P
    <3> QED
      BY <2>1, <2>6, <3>1, RepayCovers DEF Due
  <2>8. /\ PercentOf(liability.healthy, a - sold) \in Nat
        /\ ToAssets(1, price) \in Nat /\ ToAssets(left, price) \in Nat
        /\ ToAssets(0, price) = 0
    <3>1. liability.healthy \in Nat /\ a - sold \in Nat /\ 1 \in Nat
      BY <2>1, <2>2, Levels
    <3> QED
      BY <2>1, <2>7, <3>1, PercentOfNat, ConvertNat
  <2>9. left = D - P =>
          ToAssets(left, price) <= (d - sold) + ToAssets(1, price) + 1
    <3> HIDE DEF D, sold, left
    <3> QED
      BY <2>1, <2>2, <2>4, <2>7, ProceedsWorth
  <2> HIDE DEF a, D, d, x, sold, P, r, left
  <2> QED
    BY <2>2, <2>4, <2>5, <2>7, <2>8, <2>9
<1> QED
  BY <1>1, Invariance, PTL
=============================================================================
