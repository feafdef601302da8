----------------------------- MODULE LppProofs -----------------------------
(* Theorems about the liquidity pool, for every value of its constants. *)
EXTENDS Lpp, FinanceProofs

(***************************************************************************)
(* A ratio of a natural is a natural.                                      *)
(***************************************************************************)
LEMMA RationalOfNat ==
    ASSUME NEW r \in RationalType, NEW a \in Nat
    PROVE  RationalOf(r, a) \in Nat
<1>1. r.nom \in Nat /\ r.den \in Nat \ {0}
  BY DEF RationalType
<1> QED
  BY <1>1, SafeMulNat DEF RationalOf

(***************************************************************************)
(* Burning n of N receipts at the price T / N leaves at least one LPN      *)
(* behind each of the others.                                              *)
(***************************************************************************)
LEMMA BurnKeepsCover ==
    ASSUME NEW n \in Nat, NEW N \in Nat \ {0}, NEW T \in Nat, N <= T, n <= N
    PROVE  /\ SafeMul(T, n, N) <= T
           /\ T - SafeMul(T, n, N) >= N - n
           /\ (T - SafeMul(T, n, N)) * N >= T * (N - n)
<1>1. SafeMul(T, n, N) \in Nat /\ SafeMul(T, n, N) * N <= T * n
  BY SafeMulNat, SafeMulBounds
<1>2. SafeMul(T, n, N) <= T
  BY SafeMulPart
<1> DEFINE p == SafeMul(T, n, N)
<1>3. (T - p) * N = T * N - p * N /\ T * (N - n) = T * N - T * n
  BY <1>1
<1>4. (T - p) * N >= T * (N - n)
  BY <1>1, <1>3
<1>5. T * (N - n) >= N * (N - n)
  BY <1>1
<1>6. (T - p) * N >= (N - n) * N
  BY <1>4, <1>5, <1>1
<1>7. T - p >= N - n
  BY <1>6, <1>1
<1> QED
  BY <1>2, <1>4, <1>7

-----------------------------------------------------------------------------
(* What the pool's operators return *)

(***************************************************************************)
(* The interest the pool is owed is a natural that only grows in time.     *)
(***************************************************************************)
LEMMA TotalInterestGrows ==
    ASSUME NEW t \in TotalType, NEW x \in Nat, NEW y \in Nat,
           t.last_update <= x, x <= y
    PROVE  /\ TotalInterestDueByNow(t, x) \in Nat
           /\ TotalInterestDueByNow(t, x) <= TotalInterestDueByNow(t, y)
<1> DEFINE perYear == RationalOf(t.rate, t.principal)
<1>1. /\ t.principal \in Nat /\ t.interest \in Nat /\ t.last_update \in Nat
      /\ t.rate \in RationalType
  BY DEF TotalType
<1>2. perYear \in Nat
  BY <1>1, RationalOfNat
<1>3. x - t.last_update \in Nat /\ y - t.last_update \in Nat
      /\ x - t.last_update <= y - t.last_update
  BY <1>1
<1>4. YEAR \in Nat \ {0}
  BY ConstantsAssumption, YearAssumption
<1> HIDE DEF perYear
<1>5. /\ SafeMul(perYear, x - t.last_update, YEAR) \in Nat
      /\ SafeMul(perYear, y - t.last_update, YEAR) \in Nat
      /\ SafeMul(perYear, x - t.last_update, YEAR)
             <= SafeMul(perYear, y - t.last_update, YEAR)
  BY <1>2, <1>3, <1>4, SafeMulNat, SafeMulMonotone
<1> QED
  BY <1>1, <1>5 DEF TotalInterestDueByNow, InterestOver, perYear

(***************************************************************************)
(* The interest due over all loans is an amount, never a negative number.  *)
(***************************************************************************)
LEMMA TotalInterestNat ==
    ASSUME NEW t \in TotalType, NEW x \in Nat, t.last_update <= x
    PROVE  TotalInterestDueByNow(t, x) \in Nat
<1>1. x <= x
  OBVIOUS
<1> QED
  BY <1>1, TotalInterestGrows

(***************************************************************************)
(* Right after an update the interest due is the one just recorded.        *)
(***************************************************************************)
LEMMA TotalInterestAtUpdate ==
    ASSUME NEW t \in TotalType
    PROVE  TotalInterestDueByNow(t, t.last_update) = t.interest
<1>1. RationalOf(t.rate, t.principal) \in Nat /\ t.interest \in Nat
      /\ t.last_update - t.last_update = 0
  BY RationalOfNat DEF TotalType
<1>2. SafeMul(RationalOf(t.rate, t.principal), 0, YEAR) = 0
  BY <1>1, ConstantsAssumption, YearAssumption DEF SafeMul
<1> QED
  BY <1>1, <1>2 DEF TotalInterestDueByNow, InterestOver

(***************************************************************************)
(* Total::borrow and Total::repay keep the totals typed.                   *)
(***************************************************************************)
LEMMA TotalBorrowType ==
    ASSUME NEW t \in TotalType, NEW time \in Nat, t.last_update <= time,
           NEW amount \in Nat \ {0}, NEW rate \in Nat
    PROVE  TotalBorrow(t, time, amount, rate) \in TotalType
<1>1. t.principal \in Nat /\ t.rate \in RationalType
  BY DEF TotalType
<1>2. /\ RationalOf(t.rate, t.principal) \in Nat
      /\ PercentOf(rate, amount) \in Nat
      /\ TotalInterestDueByNow(t, time) \in Nat
  BY <1>1, RationalOfNat, PercentOfNat, TotalInterestNat
<1> QED
  BY <1>1, <1>2 DEF TotalBorrow, TotalType, RationalType, Rational

(***************************************************************************)
(* Total::repay stores amounts, and a rate with a denominator, when the    *)
(* principal is not more than the total one.                               *)
(***************************************************************************)
LEMMA TotalRepayType ==
    ASSUME NEW t \in TotalType, NEW time \in Nat, t.last_update <= time,
           NEW interest \in Nat, NEW principal \in Nat, NEW rate \in Nat,
           principal <= t.principal
    PROVE  TotalRepay(t, time, interest, principal, rate) \in TotalType
<1>1. t.principal \in Nat /\ t.rate \in RationalType
  BY DEF TotalType
<1>2. /\ RationalOf(t.rate, t.principal) \in Nat
      /\ PercentOf(rate, principal) \in Nat
      /\ TotalInterestDueByNow(t, time) \in Nat
  BY <1>1, RationalOfNat, PercentOfNat, TotalInterestNat
<1>3. ZeroInterestRate \in RationalType
  BY DEF ZeroInterestRate, Rational, RationalType
<1>4. ASSUME principal # t.principal
      PROVE  Rational(SaturatingSub(RationalOf(t.rate, t.principal),
                                    PercentOf(rate, principal)),
                      t.principal - principal) \in RationalType
  BY <1>1, <1>2, <1>4 DEF SaturatingSub, Rational, RationalType
<1> QED
  BY <1>1, <1>2, <1>3, <1>4 DEF TotalRepay, TotalType, SaturatingSub

(***************************************************************************)
(* A quoted rate is a natural number of permilles.                         *)
(***************************************************************************)
LEMMA RateNat ==
    ASSUME NEW r \in BorrowRates, NEW liability \in Nat, NEW bal \in Nat
    PROVE  CalculateRate(r, liability, bal) \in Nat
<1>1. /\ r.base \in Nat /\ r.addon \in Nat /\ r.optimal \in Nat \ {0}
      /\ HUNDRED - r.optimal \in Nat \ {0}
      /\ HUNDRED \in Nat
  <2>1. r \in InterestRate
    BY ConstantsAssumption, YearAssumption
  <2>2. HUNDRED \in Nat
    BY DEF HUNDRED
  <2> QED
    BY <2>1, <2>2 DEF InterestRate
<1>2. UtilizationMax(r) \in Nat
  BY <1>1, SafeMulNat DEF UtilizationMax, FromRatio
<1>3. bal # 0 => FromRatio(liability, bal) \in Nat
  BY <1>1, SafeMulNat DEF FromRatio
<1> DEFINE u == IF bal = 0 \/ FromRatio(liability, bal) > UtilizationMax(r)
                THEN UtilizationMax(r) ELSE FromRatio(liability, bal)
<1>4. u \in Nat
  BY <1>2, <1>3
<1> HIDE DEF u
<1>5. SafeMul(u, r.addon, r.optimal) \in Nat
  BY <1>1, <1>4, SafeMulNat
<1> QED
  BY <1>1, <1>5 DEF CalculateRate, u

(***************************************************************************)
(* The totals at a price, and the rewards, are naturals.                   *)
(***************************************************************************)
LEMMA TotalNat ==
    ASSUME NEW a \in Nat, NEW p \in PriceType
    PROVE  Total(a, p) \in Nat
<1>1. p.amount \in Nat \ {0} /\ p.quote \in Nat
  BY DEF PriceType
<1> QED
  BY <1>1, SafeMulNat DEF Total

(***************************************************************************)
(* update_rewards leaves a deposit of its type, given calculate_reward     *)
(* does not panic.                                                         *)
(***************************************************************************)
LEMMA UpdateRewardsType ==
    ASSUME TypeOK, NEW deposit \in DepositType, RewardComputable(deposit)
    PROVE  UpdateRewards(deposit) \in
               [deposited_nlpn : {deposit.deposited_nlpn},
                reward_per_token : PriceType, pending_rewards : Nat]
<1>1. /\ deposit.deposited_nlpn \in Nat /\ deposit.pending_rewards \in Nat
      /\ deposit.reward_per_token \in PriceType
      /\ globals.reward_per_token \in PriceType
  BY DEF DepositType, TypeOK
<1>2. /\ Total(deposit.deposited_nlpn, deposit.reward_per_token) \in Nat
      /\ Total(deposit.deposited_nlpn, globals.reward_per_token) \in Nat
  BY <1>1, TotalNat
<1>3. CalculateReward(deposit) \in Nat
  BY <1>1, <1>2 DEF CalculateReward, RewardComputable
<1> QED
  BY <1>1, <1>3 DEF UpdateRewards, DepositType

(***************************************************************************)
(* In a state of the invariant the value of the pool is a natural.         *)
(***************************************************************************)
LEMMA PoolValue ==
    ASSUME PoolInv
    PROVE  /\ TotalInterestDueByNow(total, now) \in Nat
           /\ TotalDue \in Nat /\ TotalLpn \in Nat
           /\ globals.balance_nlpn \in Nat /\ globals.balance_nlpn <= TotalLpn
           /\ CalculatePrice \in PriceType
           /\ Inv(CalculatePrice) \in PriceType
<1>1. /\ balance \in Nat /\ now \in Nat /\ total \in TotalType
      /\ total.last_update <= now /\ total.principal \in Nat
      /\ globals.balance_nlpn \in Nat /\ globals.balance_nlpn <= TotalLpn
  BY DEF PoolInv, TypeOK, TotalType, PriceNotBelowInitial
<1>2. TotalInterestDueByNow(total, now) \in Nat
  BY <1>1, TotalInterestNat
<1>3. TotalDue \in Nat /\ TotalLpn \in Nat
  BY <1>1, <1>2 DEF TotalDue, TotalLpn
<1> QED
  BY <1>1, <1>2, <1>3 DEF CalculatePrice, Price, PriceType, Identity, Inv

-----------------------------------------------------------------------------
(* Each step keeps the invariant and does not dilute the receipts *)

KeepsValue ==
    globals.balance_nlpn > 0 /\ globals'.balance_nlpn > 0 =>
        TotalLpn' * globals.balance_nlpn >= TotalLpn * globals'.balance_nlpn

(***************************************************************************)
(* Enough for the actions that mint or burn no receipts: the value of the  *)
(* pool does not drop.                                                     *)
(***************************************************************************)
LEMMA ValueNotLess ==
    ASSUME PoolInv, TypeOK', total'.last_update <= now',
           globals'.balance_nlpn = globals.balance_nlpn,
           TotalLpn' \in Nat, TotalLpn' >= TotalLpn
    PROVE  PoolInv' /\ KeepsValue
<1>1. /\ globals.balance_nlpn \in Nat /\ TotalLpn \in Nat
      /\ globals.balance_nlpn <= TotalLpn
  BY PoolValue
<1>2. TotalLpn' * globals.balance_nlpn >= TotalLpn * globals.balance_nlpn
  BY <1>1
<1> QED
  BY <1>1, <1>2 DEF PoolInv, PriceNotBelowInitial, KeepsValue

(***************************************************************************)
(* try_deposit keeps the pool's invariant and the worth of a receipt: what *)
(* it mints is rounded down.                                               *)
(***************************************************************************)
LEMMA DepositStep ==
    ASSUME PoolInv, NEW lender \in Lenders, NEW amount \in DepositAmounts,
           Deposit(lender, amount)
    PROVE  PoolInv' /\ KeepsValue
<1> DEFINE N == globals.balance_nlpn
           T == TotalLpn
           minted == Total(amount, Inv(CalculatePrice))
           updated == UpdateRewards(deposits[lender])
<1>0. TypeOK
  BY DEF PoolInv
<1>1. amount \in Nat \ {0}
  BY ConstantsAssumption, YearAssumption
<1>2. /\ N \in Nat /\ T \in Nat /\ N <= T /\ Inv(CalculatePrice) \in PriceType
      /\ TotalDue \in Nat
  BY PoolValue
<1>3. minted \in Nat
  BY <1>1, <1>2, TotalNat
<1>4. updated \in [deposited_nlpn : {deposits[lender].deposited_nlpn},
                   reward_per_token : PriceType, pending_rewards : Nat]
  <2>1. deposits[lender] \in DepositType /\ RewardComputable(deposits[lender])
    BY <1>0 DEF TypeOK, Deposit
  <2> QED
    BY <1>0, <2>1, UpdateRewardsType
<1>5. /\ deposits' = [deposits EXCEPT ![lender] =
                         [updated EXCEPT !.deposited_nlpn = @ + minted]]
      /\ globals' = [globals EXCEPT !.balance_nlpn = @ + minted]
      /\ balance' = balance + amount
      /\ UNCHANGED <<nls, loans, total, config, codeOf, rewarded, dust, now>>
  BY DEF Deposit, Deposited
<1>6. N = 0 => minted = amount
  BY <1>1 DEF CalculatePrice, Identity, Inv, Price, Total, SafeMul
<1>7. N > 0 => minted * T <= amount * N
  <2>1. N > 0 => minted = SafeMul(N, amount, T)
    BY DEF CalculatePrice, Inv, Price, Total
  <2>2. N > 0 => SafeMul(N, amount, T) * T <= N * amount
    BY <1>1, <1>2, SafeMulBounds
  <2> QED
    BY <1>1, <1>2, <2>1, <2>2
<1> HIDE DEF minted, updated
<1>8. TypeOK'
  <2>1. deposits[lender].deposited_nlpn \in Nat
    BY <1>0 DEF TypeOK, DepositType
  <2>2. [updated EXCEPT !.deposited_nlpn = @ + minted] \in DepositType
    BY <1>3, <1>4, <2>1 DEF DepositType
  <2>3. deposits' \in [Lenders -> DepositType]
    BY <1>0, <1>5, <2>2 DEF TypeOK
  <2>4. globals' \in [balance_nlpn : Nat, reward_per_token : PriceType]
    BY <1>0, <1>3, <1>5 DEF TypeOK
  <2> QED
    BY <1>0, <1>1, <1>5, <2>3, <2>4 DEF TypeOK
<1>9. TotalLpn' = T + amount /\ globals'.balance_nlpn = N + minted
  BY <1>0, <1>1, <1>2, <1>4, <1>5
  DEF TotalLpn, TotalDue, TotalInterestDueByNow, RationalOf, InterestOver, TypeOK
<1> HIDE DEF N, T
<1>10. N > 0 => minted <= amount
  <2>1. SUFFICES ASSUME N > 0 PROVE minted <= amount
    OBVIOUS
  <2>2. amount * N <= amount * T
    BY <1>1, <1>2
  <2>3. minted * T <= amount * T
    BY <1>1, <1>2, <1>3, <1>7, <2>1, <2>2
  <2> QED
    BY <1>1, <1>2, <1>3, <2>1, <2>3
<1>11. (T + amount) >= N + minted
  BY <1>1, <1>2, <1>3, <1>6, <1>10
<1>12. N > 0 => (T + amount) * N >= T * (N + minted)
  <2>1. /\ (T + amount) * N = T * N + amount * N
        /\ T * (N + minted) = T * N + minted * T
    BY <1>1, <1>2, <1>3
  <2> QED
    BY <1>1, <1>2, <1>3, <1>7, <2>1
<1> QED
  BY <1>5, <1>8, <1>9, <1>11, <1>12
  DEF PoolInv, PriceNotBelowInitial, KeepsValue, N, T

(***************************************************************************)
(* try_withdraw keeps the pool's invariant and the worth of a receipt:     *)
(* what it pays is rounded down.                                           *)
(***************************************************************************)
LEMMA WithdrawStep ==
    ASSUME PoolInv, NEW lender \in Lenders, NEW amount \in WithdrawAmounts,
           Withdraw(lender, amount)
    PROVE  PoolInv' /\ KeepsValue
<1> DEFINE N == globals.balance_nlpn
           T == TotalLpn
           payment == Total(amount, CalculatePrice)
           updated == UpdateRewards(deposits[lender])
           closes == amount = deposits[lender].deposited_nlpn
<1>0. TypeOK
  BY DEF PoolInv
<1>1. amount \in Nat
  BY ConstantsAssumption, YearAssumption
<1>2. /\ N \in Nat /\ T \in Nat /\ N <= T /\ CalculatePrice \in PriceType
      /\ TotalDue \in Nat
  BY PoolValue
<1>3. /\ amount > 0 /\ payment <= balance
      /\ amount <= deposits[lender].deposited_nlpn
      /\ RewardComputable(deposits[lender])
      /\ amount <= N
      /\ closes => updated.pending_rewards <= nls
      /\ deposits' = [deposits EXCEPT ![lender] =
             IF closes THEN NoDeposit
             ELSE [updated EXCEPT !.deposited_nlpn = @ - amount]]
      /\ globals' = [globals EXCEPT !.balance_nlpn = @ - amount]
      /\ balance' = balance - payment
      /\ nls' = IF closes THEN nls - updated.pending_rewards ELSE nls
      /\ UNCHANGED <<loans, total, config, codeOf, rewarded, dust, now>>
  BY DEF Withdraw, Withdrawn, WithdrawLpn
<1>4. payment \in Nat
  BY <1>1, <1>2, TotalNat
<1>5. updated \in [deposited_nlpn : {deposits[lender].deposited_nlpn},
                   reward_per_token : PriceType, pending_rewards : Nat]
  <2>1. deposits[lender] \in DepositType
    BY <1>0 DEF TypeOK
  <2> QED
    BY <1>0, <1>3, <2>1, UpdateRewardsType
<1>6. payment = SafeMul(T, amount, N) /\ N \in Nat \ {0}
  BY <1>1, <1>2, <1>3 DEF CalculatePrice, Price, Total
<1> HIDE DEF payment, updated, closes
<1>7. TypeOK'
  <2>1. deposits[lender].deposited_nlpn \in Nat /\ balance \in Nat /\ nls \in Nat
    BY <1>0 DEF TypeOK, DepositType
  <2>2. [updated EXCEPT !.deposited_nlpn = @ - amount] \in DepositType
    BY <1>1, <1>3, <1>5, <2>1 DEF DepositType
  <2>3. NoDeposit \in DepositType
    BY DEF NoDeposit, DepositType, NoPrice, Price, PriceType
  <2>4. deposits' \in [Lenders -> DepositType]
    BY <1>0, <1>3, <2>2, <2>3 DEF TypeOK
  <2>5. globals' \in [balance_nlpn : Nat, reward_per_token : PriceType]
    BY <1>0, <1>1, <1>2, <1>3 DEF TypeOK
  <2>6. balance' \in Nat /\ nls' \in Nat
    BY <1>3, <1>4, <1>5, <2>1
  <2> QED
    BY <1>0, <1>3, <2>4, <2>5, <2>6 DEF TypeOK
<1>8. TotalLpn' = T - payment /\ globals'.balance_nlpn = N - amount
  BY <1>0, <1>1, <1>2, <1>3, <1>4
  DEF TotalLpn, TotalDue, TotalInterestDueByNow, RationalOf, InterestOver, TypeOK
<1> HIDE DEF N, T
<1>9. T - payment >= N - amount /\ (T - payment) * N >= T * (N - amount)
  BY <1>1, <1>2, <1>3, <1>6, BurnKeepsCover
<1> QED
  BY <1>3, <1>7, <1>8, <1>9
  DEF PoolInv, PriceNotBelowInitial, KeepsValue, N, T

(***************************************************************************)
(* try_open_loan keeps the pool's invariant and worth: what leaves the     *)
(* account is added to the principal due.                                  *)
(***************************************************************************)
LEMMA OpenLoanStep ==
    ASSUME PoolInv, NEW lease \in Leases, NEW amount \in LoanAmounts,
           OpenLoan(lease, amount)
    PROVE  PoolInv' /\ KeepsValue
<1>0. TypeOK /\ total.last_update <= now
  BY DEF PoolInv
<1>1. /\ amount \in Nat \ {0} /\ amount <= balance
      /\ loans' = [loans EXCEPT ![lease] = Loan(amount, Quote(amount), now)]
      /\ total' = TotalBorrow(total, now, amount, Quote(amount))
      /\ balance' = balance - amount
      /\ UNCHANGED <<nls, deposits, globals, config, codeOf, rewarded, dust, now>>
  BY ConstantsAssumption, YearAssumption DEF OpenLoan, QuoteAvailable
<1>2. /\ TotalLpn \in Nat /\ TotalDue \in Nat
      /\ TotalInterestDueByNow(total, now) \in Nat
  BY PoolValue
<1>3. /\ balance \in Nat /\ now \in Nat /\ total \in TotalType
      /\ total.principal \in Nat /\ config.borrow_rate \in BorrowRates
  BY <1>0 DEF TypeOK, TotalType
<1>4. Quote(amount) \in Nat
  <2>1. TotalDue + amount \in Nat /\ balance - amount \in Nat
    BY <1>1, <1>2, <1>3
  <2> QED
    BY <1>3, <2>1, RateNat DEF Quote
<1>5. total' \in TotalType
  BY <1>0, <1>1, <1>3, <1>4, TotalBorrowType
<1>6. TypeOK'
  <2>1. Loan(amount, Quote(amount), now) \in LoanType
    BY <1>1, <1>3, <1>4 DEF Loan, LoanType
  <2>2. loans' \in [Leases -> LoanType]
    BY <1>0, <1>1, <2>1 DEF TypeOK
  <2>3. balance' \in Nat
    BY <1>1, <1>3
  <2> QED
    BY <1>0, <1>1, <1>5, <2>2, <2>3 DEF TypeOK
<1>7. /\ total'.last_update = now /\ total'.principal = total.principal + amount
      /\ total'.interest = TotalInterestDueByNow(total, now)
  BY <1>1 DEF TotalBorrow
<1>8. TotalInterestDueByNow(total', total'.last_update) = total'.interest
  BY <1>5, TotalInterestAtUpdate
<1>9. TotalLpn' = TotalLpn
  <2>1. TotalLpn' = balance' + (total'.principal
                        + TotalInterestDueByNow(total', now'))
    BY DEF TotalLpn, TotalDue, TotalInterestDueByNow, RationalOf, InterestOver
  <2>2. TotalInterestDueByNow(total', now') = TotalInterestDueByNow(total, now)
    BY <1>1, <1>7, <1>8
  <2> QED
    BY <1>1, <1>2, <1>3, <1>7, <2>1, <2>2 DEF TotalLpn, TotalDue
<1> QED
  BY <1>1, <1>2, <1>3, <1>6, <1>7, <1>9, ValueNotLess

(***************************************************************************)
(* try_repay_loan keeps the pool's invariant and worth: the interest taken *)
(* off the totals is on the account.                                       *)
(***************************************************************************)
LEMMA RepayLoanStep ==
    ASSUME PoolInv, NEW lease \in Leases, NEW amount \in RepayAmounts,
           RepayLoan(lease, amount)
    PROVE  PoolInv' /\ KeepsValue
<1> DEFINE shares == RepayShares(loans[lease], now, amount)
           rate == loans[lease].annual_interest_rate
<1>0. TypeOK /\ total.last_update <= now
  BY DEF PoolInv
<1>1. /\ shares.principal <= total.principal
      /\ loans' = [loans EXCEPT ![lease] = shares.loan]
      /\ total' = TotalRepay(total, now, shares.interest, shares.principal, rate)
      /\ balance' = balance + amount - shares.excess
      /\ UNCHANGED <<nls, deposits, globals, config, codeOf, rewarded, dust, now>>
  BY DEF RepayLoan, TotalRepaid
<1>2. /\ TotalLpn \in Nat /\ TotalDue \in Nat
      /\ TotalInterestDueByNow(total, now) \in Nat
  BY PoolValue
<1>3. /\ balance \in Nat /\ now \in Nat /\ total \in TotalType
      /\ total.principal \in Nat /\ amount \in Nat
      /\ loans[lease] \in LoanType /\ rate \in Nat
  BY <1>0, ConstantsAssumption, YearAssumption DEF TypeOK, TotalType, LoanType
<1>4. /\ shares.interest \in Nat /\ shares.principal \in Nat
      /\ shares.excess \in Nat /\ shares.loan \in LoanType
      /\ shares.interest + shares.principal + shares.excess = amount
  BY <1>3, RepaySharesSplit
<1> HIDE DEF shares, rate
<1>5. total' \in TotalType
  BY <1>0, <1>1, <1>3, <1>4, TotalRepayType
<1>6. TypeOK'
  <2>1. loans' \in [Leases -> LoanType]
    BY <1>0, <1>1, <1>4 DEF TypeOK
  <2>2. balance' \in Nat
    BY <1>1, <1>3, <1>4
  <2> QED
    BY <1>0, <1>1, <1>5, <2>1, <2>2 DEF TypeOK
<1>7. /\ total'.last_update = now
      /\ total'.principal = total.principal - shares.principal
      /\ total'.interest = SaturatingSub(TotalInterestDueByNow(total, now),
                                         shares.interest)
  BY <1>1 DEF TotalRepay
<1>8. TotalInterestDueByNow(total', total'.last_update) = total'.interest
  BY <1>5, TotalInterestAtUpdate
<1>9. TotalLpn' \in Nat /\ TotalLpn' >= TotalLpn
  <2>1. TotalLpn' = balance' + (total'.principal
                        + TotalInterestDueByNow(total', now'))
    BY DEF TotalLpn, TotalDue, TotalInterestDueByNow, RationalOf, InterestOver
  <2>2. TotalInterestDueByNow(total', now') = total'.interest
    BY <1>1, <1>7, <1>8
  <2>3. /\ total'.interest \in Nat
        /\ total'.interest + shares.interest >= TotalInterestDueByNow(total, now)
    BY <1>2, <1>4, <1>7 DEF SaturatingSub
  <2>4. balance' = balance + shares.interest + shares.principal
    BY <1>1, <1>3, <1>4
  <2> QED
    BY <1>1, <1>2, <1>3, <1>4, <1>7, <2>1, <2>2, <2>3, <2>4
    DEF TotalLpn, TotalDue
<1> QED
  BY <1>1, <1>3, <1>6, <1>7, <1>9, ValueNotLess

(***************************************************************************)
(* LPN sent to the pool's account only adds to its worth.                  *)
(***************************************************************************)
LEMMA DonateStep ==
    ASSUME PoolInv, NEW amount \in DonationAmounts, Donate(amount)
    PROVE  PoolInv' /\ KeepsValue
<1>1. /\ amount \in Nat /\ balance' = balance + amount
      /\ UNCHANGED <<nls, deposits, globals, loans, total, config, codeOf,
                     rewarded, dust, now>>
  BY ConstantsAssumption, YearAssumption DEF Donate
<1>2. TypeOK /\ total.last_update <= now /\ balance \in Nat
  BY DEF PoolInv, TypeOK
<1>3. TypeOK'
  BY <1>1, <1>2 DEF TypeOK
<1>4. TotalLpn' = TotalLpn + amount /\ TotalLpn \in Nat
  <2>1. TotalDue' = TotalDue
    BY <1>1 DEF TotalDue, TotalInterestDueByNow, RationalOf, InterestOver
  <2>2. TotalDue \in Nat /\ TotalLpn \in Nat
    BY PoolValue
  <2> QED
    BY <1>1, <1>2, <2>1, <2>2 DEF TotalLpn
<1> QED
  BY <1>1, <1>2, <1>3, <1>4, ValueNotLess

(***************************************************************************)
(* The passage of time only adds interest due.                             *)
(***************************************************************************)
LEMMA TickStep ==
    ASSUME PoolInv, Tick
    PROVE  PoolInv' /\ KeepsValue
<1>1. /\ now' = now + 1
      /\ UNCHANGED <<balance, nls, deposits, globals, loans, total, config,
                     codeOf, rewarded, dust>>
  BY DEF Tick
<1>2. /\ TypeOK /\ total.last_update <= now /\ now \in Nat /\ balance \in Nat
      /\ total \in TotalType /\ total.principal \in Nat /\ total.last_update \in Nat
  BY DEF PoolInv, TypeOK, TotalType
<1>3. TypeOK' /\ total'.last_update <= now'
  <2>1. now' \in Nat /\ total.last_update <= now + 1
    BY <1>1, <1>2
  <2> QED
    BY <1>1, <1>2, <2>1 DEF TypeOK
<1>4. /\ TotalInterestDueByNow(total, now) \in Nat
      /\ TotalInterestDueByNow(total, now + 1) \in Nat
      /\ TotalInterestDueByNow(total, now) <= TotalInterestDueByNow(total, now + 1)
  <2>1. now + 1 \in Nat /\ now <= now + 1 /\ total.last_update <= now + 1
    BY <1>2
  <2> QED
    BY <1>2, <2>1, TotalInterestGrows, TotalInterestNat
<1>5. TotalLpn' = balance + (total.principal + TotalInterestDueByNow(total, now + 1))
  BY <1>1 DEF TotalLpn, TotalDue, TotalInterestDueByNow, RationalOf, InterestOver
<1>6. TotalLpn' \in Nat /\ TotalLpn' >= TotalLpn
  BY <1>2, <1>4, <1>5 DEF TotalLpn, TotalDue
<1> QED
  BY <1>1, <1>3, <1>6, ValueNotLess

(***************************************************************************)
(* The remaining actions leave the pool's value and receipts alone.        *)
(***************************************************************************)
LEMMA SameValue ==
    ASSUME PoolInv, TypeOK', UNCHANGED <<balance, total, now>>,
           globals'.balance_nlpn = globals.balance_nlpn
    PROVE  PoolInv' /\ KeepsValue
<1>1. TotalLpn' = TotalLpn
  BY DEF TotalLpn, TotalDue, TotalInterestDueByNow, RationalOf, InterestOver
<1>2. TotalLpn \in Nat
  BY PoolValue
<1>3. total'.last_update <= now'
  BY DEF PoolInv
<1> QED
  BY <1>1, <1>2, <1>3, ValueNotLess

(***************************************************************************)
(* A distribution gives a price again, and one of at least 1 / FACTOR per  *)
(* receipt does not lower it, however the sum is rounded.                  *)
(***************************************************************************)
LEMMA RewardPerTokenGrows ==
    ASSUME TypeOK, NEW rewards \in Nat \ {0}, globals.balance_nlpn > 0,
           RewardPerToken(rewards) # Panic
    PROVE  /\ RewardPerToken(rewards) \in PriceType
           /\ ~IsDust(rewards) =>
                  NotAbove(globals.reward_per_token, RewardPerToken(rewards))
<1>1. PICK N \in Nat \ {0} : N = globals.balance_nlpn
  BY DEF TypeOK
<1>2. PICK a \in Nat \ {0}, b \in Nat : globals.reward_per_token = Price(a, b)
  <2>1. globals.reward_per_token \in PriceType
    BY DEF TypeOK
  <2> QED
    BY <2>1 DEF PriceType, Price
<1>3. PICK d, n, r : Reduces(N, rewards, d, n, r)
  BY CoprimeOf
<1>4. /\ d \in Nat \ {0} /\ n \in Nat \ {0} /\ r \in Nat
      /\ N = d * n /\ rewards = d * r /\ Coprime(N, rewards) = Price(n, r)
  BY <1>3 DEF Reduces
<1>5. RewardPerToken(rewards) = PriceAdd(Price(a, b), Price(n, r))
  BY <1>1, <1>2, <1>4 DEF RewardPerToken, PartialPrice
<1>6. PICK x \in Nat \ {0}, y \in Nat :
          /\ PriceAdd(Price(a, b), Price(n, r)) = Price(x, y)
          /\ n <= FACTOR * r => b * x <= y * a
  BY <1>4, <1>5, PriceAddGrows
<1>7. Price(x, y) \in PriceType
  BY DEF Price, PriceType
<1>8. ASSUME ~IsDust(rewards) PROVE NotAbove(Price(a, b), Price(x, y))
  <2>1. FACTOR \in Nat /\ N <= FACTOR * rewards
    BY <1>1, <1>8, PricesAssumption DEF IsDust
  <2>2. FACTOR * (d * r) = d * (FACTOR * r)
    BY <1>4, <2>1
  <2>3. d * n <= d * (FACTOR * r)
    BY <1>4, <2>1, <2>2
  <2>4. PICK u \in Nat : u = FACTOR * r
    BY <1>4, <2>1
  <2>5. d * n <= d * u => n <= u
    BY <1>4
  <2>6. b * x <= y * a
    BY <1>6, <2>3, <2>4, <2>5
  <2> QED
    BY <2>6 DEF NotAbove, Price
<1> QED
  BY <1>2, <1>5, <1>6, <1>7, <1>8

(***************************************************************************)
(* Distributing and claiming NLS rewards does not touch what the receipts  *)
(* are worth.                                                              *)
(***************************************************************************)
LEMMA RewardsSteps ==
    ASSUME PoolInv,
           \/ \E rewards \in RewardAmounts : DistributeRewards(rewards)
           \/ \E lender \in Lenders : ClaimRewards(lender)
    PROVE  PoolInv' /\ KeepsValue
<1>0. TypeOK
  BY DEF PoolInv
<1>1. ASSUME NEW rewards \in RewardAmounts, DistributeRewards(rewards)
      PROVE  PoolInv' /\ KeepsValue
  <2>1. /\ rewards \in Nat \ {0} /\ globals.balance_nlpn \in Nat \ {0}
        /\ globals.reward_per_token \in PriceType
        /\ nls \in Nat /\ rewarded \in Nat
    BY <1>0, <1>1, ConstantsAssumption, YearAssumption DEF DistributeRewards, TypeOK
  <2>2. RewardPerToken(rewards) \in PriceType
    BY <1>0, <1>1, <2>1, RewardPerTokenGrows DEF DistributeRewards
  <2>3. /\ globals' = [globals EXCEPT !.reward_per_token = RewardPerToken(rewards)]
        /\ nls' = nls + rewards /\ rewarded' = rewarded + rewards
        /\ dust' \in BOOLEAN
        /\ UNCHANGED <<balance, deposits, loans, total, config, codeOf, now>>
    BY <1>1 DEF DistributeRewards
  <2>4. /\ globals' \in [balance_nlpn : Nat, reward_per_token : PriceType]
        /\ globals'.balance_nlpn = globals.balance_nlpn
    BY <1>0, <2>2, <2>3 DEF TypeOK
  <2>5. TypeOK'
    BY <1>0, <2>1, <2>3, <2>4 DEF TypeOK
  <2> QED
    BY <2>3, <2>4, <2>5, SameValue
<1>2. ASSUME NEW lender \in Lenders, ClaimRewards(lender)
      PROVE  PoolInv' /\ KeepsValue
  <2> DEFINE updated == UpdateRewards(deposits[lender])
  <2>1. /\ RewardComputable(deposits[lender])
        /\ updated.pending_rewards <= nls
        /\ deposits' = [deposits EXCEPT ![lender] =
                           [updated EXCEPT !.pending_rewards = 0]]
        /\ nls' = nls - updated.pending_rewards
        /\ UNCHANGED <<balance, globals, loans, total, config, codeOf,
                       rewarded, dust, now>>
    BY <1>2 DEF ClaimRewards, Claimed
  <2>2. deposits[lender] \in DepositType /\ nls \in Nat
    BY <1>0 DEF TypeOK
  <2>3. updated \in [deposited_nlpn : {deposits[lender].deposited_nlpn},
                     reward_per_token : PriceType, pending_rewards : Nat]
    BY <1>0, <2>1, <2>2, UpdateRewardsType
  <2> HIDE DEF updated
  <2>4. [updated EXCEPT !.pending_rewards = 0] \in DepositType
    BY <2>2, <2>3 DEF DepositType
  <2>5. deposits' \in [Lenders -> DepositType] /\ nls' \in Nat
    BY <1>0, <2>1, <2>2, <2>3, <2>4 DEF TypeOK
  <2>6. TypeOK'
    BY <1>0, <2>1, <2>5 DEF TypeOK
  <2> QED
    BY <2>1, <2>6, SameValue
<1> QED
  BY <1>1, <1>2

(***************************************************************************)
(* A new configuration, or code of a lease, does not touch what the        *)
(* receipts are worth.                                                     *)
(***************************************************************************)
LEMMA ConfigSteps ==
    ASSUME PoolInv,
           \/ \E code \in Codes : NewLeaseCode(code)
           \/ \E rate \in BorrowRates : NewBorrowRate(rate)
           \/ \E percent \in MinUtilizations : MinUtilization(percent)
           \/ \E lease \in Leases : MigrateLease(lease)
    PROVE  PoolInv' /\ KeepsValue
<1>0. TypeOK
  BY DEF PoolInv
<1>1. UNCHANGED <<balance, nls, deposits, globals, loans, total, rewarded, dust, now>>
  BY DEF NewLeaseCode, NewBorrowRate, MinUtilization, MigrateLease
<1>2. /\ config' \in [lease_code : Codes, borrow_rate : BorrowRates,
                      min_utilization : MinUtilizations]
      /\ codeOf' \in [Leases -> Codes]
  BY <1>0 DEF NewLeaseCode, NewBorrowRate, MinUtilization, MigrateLease, TypeOK
<1>3. TypeOK'
  BY <1>0, <1>1, <1>2 DEF TypeOK
<1> QED
  BY <1>1, <1>3, SameValue

(***************************************************************************)
(* One step of the pool.                                                   *)
(***************************************************************************)
LEMMA PoolStep ==
    ASSUME PoolInv, [Next]_vars
    PROVE  PoolInv' /\ (KeepsValue \/ UNCHANGED vars)
<1>1. CASE UNCHANGED vars
  <2>1. UNCHANGED <<balance, nls, deposits, globals, loans, total, config,
                    codeOf, rewarded, dust, now>>
    BY <1>1 DEF vars
  <2>2. TypeOK'
    BY <2>1 DEF PoolInv, TypeOK
  <2> QED
    BY <1>1, <2>1, <2>2, SameValue
<1>2. ASSUME NEW lender \in Lenders, LenderNext(lender)
      PROVE  PoolInv' /\ KeepsValue
  BY <1>2, DepositStep, WithdrawStep, RewardsSteps DEF LenderNext
<1>3. ASSUME NEW lease \in Leases, LeaseNext(lease)
      PROVE  PoolInv' /\ KeepsValue
  BY <1>3, OpenLoanStep, RepayLoanStep, ConfigSteps DEF LeaseNext
<1>4. CASE \/ \E rewards \in RewardAmounts : DistributeRewards(rewards)
           \/ \E code \in Codes : NewLeaseCode(code)
           \/ \E rate \in BorrowRates : NewBorrowRate(rate)
           \/ \E percent \in MinUtilizations : MinUtilization(percent)
  BY <1>4, RewardsSteps, ConfigSteps
<1>5. CASE \/ \E amount \in DonationAmounts : Donate(amount)
           \/ Tick
  BY <1>5, DonateStep, TickStep
<1> QED
  BY <1>1, <1>2, <1>3, <1>4, <1>5 DEF Next

(***************************************************************************)
(* A pool just instantiated satisfies the invariant.                       *)
(***************************************************************************)
LEMMA PoolInit == Init => PoolInv
<1> SUFFICES ASSUME Init PROVE PoolInv
  OBVIOUS
<1> USE DEF Init
<1>1. NoPrice \in PriceType /\ ZeroInterestRate \in RationalType
  BY DEF NoPrice, Price, PriceType, ZeroInterestRate, Rational, RationalType
<1>2. total \in TotalType /\ total.last_update = 0 /\ total.principal = 0
      /\ total.interest = 0
  BY <1>1 DEF TotalNew, TotalType
<1>3. TypeOK
  <2>1. NoDeposit \in DepositType /\ NoLoan \in LoanType
    BY <1>1 DEF NoDeposit, DepositType, NoLoan, LoanType
  <2>2. codeOf \in [Leases -> Codes]
    OBVIOUS
  <2> QED
    BY <1>1, <1>2, <2>1, <2>2 DEF TypeOK
<1>4. TotalInterestDueByNow(total, now) = 0
  BY <1>2, TotalInterestAtUpdate
<1>5. TotalLpn = 0 /\ globals.balance_nlpn = 0
  BY <1>2, <1>4 DEF TotalLpn, TotalDue
<1> QED
  BY <1>2, <1>3, <1>5 DEF PoolInv, PriceNotBelowInitial

(***************************************************************************)
(* Every stored amount keeps its type, and the assertion of                *)
(* calculate_price holds in every reachable state: the LPN the pool holds  *)
(* or is owed is never less than the receipts it issued.                   *)
(***************************************************************************)
THEOREM TypeCorrect == Spec => []TypeOK
<1>1. PoolInv => TypeOK
  BY DEF PoolInv
<1>2. PoolInv /\ [Next]_vars => PoolInv'
  BY PoolStep
<1> QED
  BY <1>1, <1>2, PoolInit, PTL DEF Spec

(***************************************************************************)
(* The assertion of calculate_price holds in every reachable state: the    *)
(* nLPN price is never below the initial one.                              *)
(***************************************************************************)
THEOREM PriceNeverBelowInitial == Spec => []PriceNotBelowInitial
<1>1. PoolInv => PriceNotBelowInitial
  BY DEF PoolInv
<1>2. PoolInv /\ [Next]_vars => PoolInv'
  BY PoolStep
<1> QED
  BY <1>1, <1>2, PoolInit, PTL DEF Spec

(***************************************************************************)
(* No step, whoever takes it, lowers what an nLPN is worth.                *)
(***************************************************************************)
THEOREM NeverDiluted == Spec => ReceiptsNeverDiluted
<1>1. PoolInv /\ [Next]_vars => PoolInv'
  BY PoolStep
<1>2. PoolInv /\ [Next]_vars => [KeepsValue]_vars
  BY PoolStep
<1> QED
  BY <1>1, <1>2, PoolInit, PTL DEF Spec, ReceiptsNeverDiluted, KeepsValue

(***************************************************************************)
(* The capacity formula of deposit_capacity, with both of its roundings,   *)
(* never lets a deposit take the utilization under the minimum.            *)
(***************************************************************************)
LEMMA CapacityKeepsUtilization ==
    ASSUME NEW due \in Nat, NEW bal \in Nat, NEW min \in Nat \ {0},
           NEW amount \in Nat \ {0},
           amount <= SafeMul(due, HUNDRED, min) - bal - due
    PROVE  FromRatio(due, bal + amount + due) >= min
<1> DEFINE x == bal + amount + due
           s == SafeMul(due, HUNDRED, min)
           q == SafeMul(HUNDRED, due, x)
<1>0. HUNDRED \in Nat
  BY DEF HUNDRED
<1>1. x \in Nat \ {0} /\ s \in Nat /\ q \in Nat
  <2>1. x \in Nat \ {0}
    OBVIOUS
  <2>2. s \in Nat
    BY <1>0, SafeMulNat
  <2> HIDE DEF x
  <2>3. q \in Nat
    BY <1>0, <2>1, SafeMulNat
  <2> QED
    BY <2>1, <2>2, <2>3
<1>2. s * min <= due * HUNDRED
  BY <1>0, SafeMulBounds
<1>3. x <= s
  BY <1>1
<1> HIDE DEF x
<1>4. HUNDRED * due < q * x + x
  BY <1>0, <1>1, SafeMulBounds
<1> HIDE DEF s, q
<1>5. x * min <= s * min
  BY <1>1, <1>3
<1>6. x * min < q * x + x
  BY <1>0, <1>1, <1>2, <1>4, <1>5
<1>7. min < q + 1
  BY <1>1, <1>6
<1> QED
  BY <1>1, <1>7 DEF FromRatio, x, q

(***************************************************************************)
(* Every deposit try_deposit lets in leaves the pool utilized at the       *)
(* configured minimum at least.                                            *)
(***************************************************************************)
THEOREM MinUtilizationKept == Spec => DepositKeepsMinUtilization
<1> DEFINE Keeps == \A lender \in Lenders, amount \in DepositAmounts :
                       Deposit(lender, amount) =>
                           FromRatio(TotalDue', TotalLpn') >= config.min_utilization
<1>1. PoolInv => Keeps
  <2> SUFFICES ASSUME PoolInv, NEW lender \in Lenders,
                      NEW amount \in DepositAmounts, Deposit(lender, amount)
               PROVE  FromRatio(TotalDue', TotalLpn') >= config.min_utilization
    OBVIOUS
  <2> DEFINE min == config.min_utilization
  <2>1. /\ balance \in Nat /\ TotalDue \in Nat /\ amount \in Nat \ {0}
        /\ min \in Nat /\ HUNDRED \in Nat
    <3>1. HUNDRED \in Nat
      BY DEF HUNDRED
    <3>2. min \in MinUtilizations /\ balance \in Nat
      BY DEF PoolInv, TypeOK
    <3>3. min \in 0..HUNDRED
      BY <3>2, ConstantsAssumption, YearAssumption
    <3>4. min \in Nat
      BY <3>1, <3>3
    <3>5. amount \in Nat \ {0}
      BY ConstantsAssumption, YearAssumption
    <3> QED
      BY <3>1, <3>2, <3>4, <3>5, PoolValue
  <2>2. TotalDue' = TotalDue /\ TotalLpn' = balance + amount + TotalDue
    BY <2>1
    DEF Deposit, TotalLpn, TotalDue, TotalInterestDueByNow, RationalOf, InterestOver
  <2>3. CASE min = 0
    <3>1. balance + amount + TotalDue \in Nat \ {0}
      BY <2>1
    <3>2. SafeMul(HUNDRED, TotalDue, balance + amount + TotalDue) \in Nat
      BY <2>1, <3>1, SafeMulNat
    <3> QED
      BY <2>2, <2>3, <3>2 DEF FromRatio
  <2>4. CASE min # 0
    <3>1. amount <= DepositCapacity(balance, TotalDue)
      BY <2>1, <2>4 DEF Deposit, Deposited
    <3>2. amount <= SafeMul(TotalDue, HUNDRED, min) - balance - TotalDue
      BY <2>1, <3>1 DEF DepositCapacity
    <3> QED
      BY <2>1, <2>2, <2>4, <3>2, CapacityKeepsUtilization
  <2> QED
    BY <2>3, <2>4
<1>2. PoolInv /\ [Next]_vars => PoolInv'
  BY PoolStep
<1> HIDE DEF Keeps
<1>3. Spec => [][Keeps]_vars
  BY <1>1, <1>2, PoolInit, PTL DEF Spec
<1> QED
  BY <1>3 DEF Keeps, DepositKeepsMinUtilization

-----------------------------------------------------------------------------
(* The books of the pool *)

(***************************************************************************)
(* The total at a price grows with the price, rounding included.           *)
(***************************************************************************)
LEMMA TotalMonotone ==
    ASSUME NEW a \in Nat, NEW p \in PriceType, NEW q \in PriceType, NotAbove(p, q)
    PROVE  Total(a, p) <= Total(a, q)
<1> DEFINE pa == p.amount  pq == p.quote  qa == q.amount  qq == q.quote
           s == SafeMul(pq, a, pa)
           t == SafeMul(qq, a, qa)
<1>1. pa \in Nat \ {0} /\ qa \in Nat \ {0} /\ pq \in Nat /\ qq \in Nat
  BY DEF PriceType
<1>2. pq * qa <= qq * pa
  BY DEF NotAbove
<1>3. /\ s \in Nat /\ t \in Nat
      /\ s * pa <= pq * a
      /\ qq * a < t * qa + qa
  BY <1>1, SafeMulNat, SafeMulBounds
<1> HIDE DEF pa, pq, qa, qq, s, t
<1>4. (s * pa) * qa <= (pq * a) * qa
  <2>1. s * pa \in Nat /\ pq * a \in Nat
    BY <1>1, <1>3
  <2> QED
    BY <1>1, <1>3, <2>1
<1>5. (pq * a) * qa <= (qq * a) * pa
  <2>1. (pq * qa) * a <= (qq * pa) * a
    <3>1. pq * qa \in Nat /\ qq * pa \in Nat
      BY <1>1
    <3> QED
      BY <1>2, <3>1
  <2>2. (pq * qa) * a = (pq * a) * qa /\ (qq * pa) * a = (qq * a) * pa
    BY <1>1
  <2> QED
    BY <2>1, <2>2
<1>6. (qq * a) * pa < ((t + 1) * qa) * pa
  <2>1. qq * a \in Nat /\ (t + 1) * qa \in Nat /\ qq * a < (t + 1) * qa
    BY <1>1, <1>3
  <2> QED
    BY <1>1, <2>1
<1>7. (s * pa) * qa < ((t + 1) * qa) * pa
  <2>1. /\ (s * pa) * qa \in Nat /\ (pq * a) * qa \in Nat
        /\ (qq * a) * pa \in Nat /\ ((t + 1) * qa) * pa \in Nat
    BY <1>1, <1>3
  <2> QED
    BY <1>4, <1>5, <1>6, <2>1
<1>8. s * (pa * qa) < (t + 1) * (pa * qa) /\ pa * qa \in Nat \ {0}
  <2>1. (s * pa) * qa = s * (pa * qa)
    BY <1>1, <1>3
  <2>2. ((t + 1) * qa) * pa = (t + 1) * (pa * qa)
    BY <1>1, <1>3
  <2>3. pa * qa \in Nat \ {0}
    BY <1>1
  <2> QED
    BY <1>7, <2>1, <2>2, <2>3
<1>9. s < t + 1
  <2> DEFINE m == pa * qa
  <2>1. m \in Nat \ {0} /\ s * m < (t + 1) * m
    BY <1>8
  <2> HIDE DEF m
  <2> QED
    BY <1>3, <2>1
<1> QED
  BY <1>3, <1>9 DEF Total, s, t, pa, pq, qa, qq

(***************************************************************************)
(* calculate_reward does not panic while no deposit is accounted to more   *)
(* than the global reward per token.                                       *)
(***************************************************************************)
LEMMA NotAheadComputable ==
    ASSUME TypeOK, RewardsNotAhead
    PROVE  RewardsAlwaysComputable
<1> SUFFICES ASSUME ~dust, NEW l \in Lenders PROVE RewardComputable(deposits[l])
  BY DEF RewardsAlwaysComputable
<1> DEFINE d == deposits[l]
<1>1. /\ d.deposited_nlpn \in Nat /\ d.pending_rewards \in Nat
      /\ d.reward_per_token \in PriceType
      /\ globals.reward_per_token \in PriceType
  BY DEF TypeOK, DepositType
<1>2. /\ Total(d.deposited_nlpn, d.reward_per_token) \in Nat
      /\ Total(d.deposited_nlpn, globals.reward_per_token) \in Nat
      /\ Total(d.deposited_nlpn, d.reward_per_token)
             <= Total(d.deposited_nlpn, globals.reward_per_token)
  BY <1>1, TotalNat, TotalMonotone DEF RewardsNotAhead
<1> QED
  BY <1>1, <1>2 DEF RewardComputable

(***************************************************************************)
(* Where one loan, or one deposit, changes, the sums change by as much.    *)
(***************************************************************************)
LEMMA PrincipalsChange ==
    ASSUME TypeOK, PrincipalsAddUp, NEW lease \in Leases, NEW new \in LoanType,
           loans' = [loans EXCEPT ![lease] = new],
           total'.principal = total.principal
                                  - loans[lease].principal_due + new.principal_due
    PROVE  PrincipalsAddUp'
<1> DEFINE f == [l \in Leases |-> loans[l].principal_due]
           g == [l \in Leases |-> loans'[l].principal_due]
<1>1. IsFiniteSet(Leases) /\ loans \in [Leases -> LoanType] /\ total.principal \in Nat
  BY ConstantsAssumption DEF TypeOK, TotalType
<1>2. \A l \in Leases : f[l] \in Nat /\ f[l] \in Int
  BY <1>1 DEF LoanType
<1>3. g[lease] = new.principal_due /\ g[lease] \in Int
  BY <1>1 DEF LoanType
<1>4. \A l \in Leases \ {lease} : g[l] = f[l]
  BY <1>1
<1>5. f[lease] = loans[lease].principal_due /\ DOMAIN f = Leases /\ DOMAIN g = Leases
  OBVIOUS
<1>6. total.principal = SumFunctionOnSet(f, Leases)
  BY <1>5 DEF PrincipalsAddUp, SumFunction
<1> HIDE DEF f, g
<1>7. SumFunctionOnSet(g, Leases) = SumFunctionOnSet(f, Leases) - f[lease] + g[lease]
  BY <1>1, <1>2, <1>3, <1>4, SumUpdate
<1>8. total'.principal = SumFunctionOnSet(g, Leases)
  BY <1>2, <1>3, <1>5, <1>6, <1>7
<1> QED
  BY <1>5, <1>8 DEF PrincipalsAddUp, SumFunction, g

(***************************************************************************)
(* The same for the receipts of one deposit.                               *)
(***************************************************************************)
LEMMA ReceiptsChange ==
    ASSUME TypeOK, ReceiptsAddUp, NEW lender \in Lenders, NEW new \in DepositType,
           deposits' = [deposits EXCEPT ![lender] = new],
           globals'.balance_nlpn = globals.balance_nlpn
                                       - deposits[lender].deposited_nlpn
                                       + new.deposited_nlpn
    PROVE  ReceiptsAddUp'
<1> DEFINE f == [l \in Lenders |-> deposits[l].deposited_nlpn]
           g == [l \in Lenders |-> deposits'[l].deposited_nlpn]
<1>1. /\ IsFiniteSet(Lenders) /\ deposits \in [Lenders -> DepositType]
      /\ globals.balance_nlpn \in Nat
  BY ConstantsAssumption DEF TypeOK
<1>2. \A l \in Lenders : f[l] \in Nat /\ f[l] \in Int
  BY <1>1 DEF DepositType
<1>3. g[lender] = new.deposited_nlpn /\ g[lender] \in Int
  BY <1>1 DEF DepositType
<1>4. \A l \in Lenders \ {lender} : g[l] = f[l]
  BY <1>1
<1>5. f[lender] = deposits[lender].deposited_nlpn /\ DOMAIN f = Lenders /\ DOMAIN g = Lenders
  OBVIOUS
<1>6. globals.balance_nlpn = SumFunctionOnSet(f, Lenders)
  BY <1>5 DEF ReceiptsAddUp, SumFunction
<1> HIDE DEF f, g
<1>7. SumFunctionOnSet(g, Lenders) = SumFunctionOnSet(f, Lenders) - f[lender] + g[lender]
  BY <1>1, <1>2, <1>3, <1>4, SumUpdate
<1>8. globals'.balance_nlpn = SumFunctionOnSet(g, Lenders)
  BY <1>2, <1>3, <1>5, <1>6, <1>7
<1> QED
  BY <1>5, <1>8 DEF ReceiptsAddUp, SumFunction, g

(***************************************************************************)
(* No loan is of more principal than the total, and no lender has more     *)
(* receipts than there are.                                                *)
(***************************************************************************)
LEMMA PartsWithinTotals ==
    ASSUME TypeOK, PrincipalsAddUp, ReceiptsAddUp
    PROVE  /\ \A l \in Leases : loans[l].principal_due <= total.principal
           /\ \A l \in Lenders : deposits[l].deposited_nlpn <= globals.balance_nlpn
<1> DEFINE f == [l \in Leases |-> loans[l].principal_due]
           g == [l \in Lenders |-> deposits[l].deposited_nlpn]
<1>1. /\ IsFiniteSet(Leases) /\ IsFiniteSet(Lenders)
      /\ loans \in [Leases -> LoanType] /\ deposits \in [Lenders -> DepositType]
  BY ConstantsAssumption DEF TypeOK
<1>2. (\A l \in Leases : f[l] \in Nat) /\ (\A l \in Lenders : g[l] \in Nat)
  BY <1>1 DEF LoanType, DepositType
<1>3. /\ DOMAIN f = Leases /\ DOMAIN g = Lenders
      /\ \A l \in Leases : f[l] = loans[l].principal_due
      /\ \A l \in Lenders : g[l] = deposits[l].deposited_nlpn
  OBVIOUS
<1>4. /\ total.principal = SumFunctionOnSet(f, Leases)
      /\ globals.balance_nlpn = SumFunctionOnSet(g, Lenders)
  BY <1>3 DEF PrincipalsAddUp, ReceiptsAddUp, SumFunction
<1> HIDE DEF f, g
<1>5. /\ \A l \in Leases : f[l] <= SumFunctionOnSet(f, Leases)
      /\ \A l \in Lenders : g[l] <= SumFunctionOnSet(g, Lenders)
  BY <1>1, <1>2, SumMember
<1> QED
  BY <1>3, <1>4, <1>5

(***************************************************************************)
(* OpenLoan and RepayLoan move the total principal along with the loan.    *)
(***************************************************************************)
LEMMA LoanBooks ==
    ASSUME PoolInv, PrincipalsAddUp, PoolInv', NEW lease \in Leases,
           \/ \E amount \in LoanAmounts : OpenLoan(lease, amount)
           \/ \E amount \in RepayAmounts : RepayLoan(lease, amount)
    PROVE  PrincipalsAddUp'
<1>0. /\ TypeOK /\ loans \in [Leases -> LoanType] /\ loans' \in [Leases -> LoanType]
      /\ total.principal \in Nat /\ loans[lease].principal_due \in Nat
      /\ now \in Nat
  BY DEF PoolInv, TypeOK, TotalType, LoanType
<1>1. ASSUME NEW amount \in LoanAmounts, OpenLoan(lease, amount)
      PROVE  PrincipalsAddUp'
  <2> DEFINE new == Loan(amount, Quote(amount), now)
  <2>1. /\ loans' = [loans EXCEPT ![lease] = new]
        /\ total'.principal = total.principal + amount
        /\ new.principal_due = amount
        /\ amount \in Nat /\ ~(loans[lease].principal_due > 0)
    BY <1>1, ConstantsAssumption DEF OpenLoan, TotalBorrow, Loan, HasLoan
  <2>2. new \in LoanType
    BY <1>0, <2>1
  <2> HIDE DEF new
  <2>3. total'.principal = total.principal
                               - loans[lease].principal_due + new.principal_due
    BY <1>0, <2>1
  <2> QED
    BY <1>0, <2>1, <2>2, <2>3, PrincipalsChange
<1>2. ASSUME NEW amount \in RepayAmounts, RepayLoan(lease, amount)
      PROVE  PrincipalsAddUp'
  <2> DEFINE shares == RepayShares(loans[lease], now, amount)
  <2>1. /\ loans' = [loans EXCEPT ![lease] = shares.loan]
        /\ total'.principal = total.principal - shares.principal
        /\ amount \in Nat
    BY <1>2, ConstantsAssumption DEF RepayLoan, TotalRepaid, TotalRepay
  <2>2. shares.principal \in Nat /\ shares.loan \in LoanType
    BY <1>0, <2>1, RepaySharesSplit
  <2>3. shares.loan.principal_due = loans[lease].principal_due - shares.principal
    BY <1>0, <2>2 DEF RepayShares, Loan, NoLoan
  <2> HIDE DEF shares
  <2>4. total'.principal = total.principal
                  - loans[lease].principal_due + shares.loan.principal_due
    BY <1>0, <2>1, <2>2, <2>3
  <2> QED
    BY <1>0, <2>1, <2>2, <2>4, PrincipalsChange
<1> QED
  BY <1>1, <1>2

\* the deposit of a lender is replaced along with the receipts in circulation
DepositReplaced(lender, new) ==
    /\ deposits' = [deposits EXCEPT ![lender] = new]
    /\ globals'.reward_per_token = globals.reward_per_token
    /\ globals'.balance_nlpn =
           globals.balance_nlpn - deposits[lender].deposited_nlpn + new.deposited_nlpn
    /\ new.reward_per_token \in {globals.reward_per_token, NoPrice}
    /\ nls' = nls => CalculateReward(new) = CalculateReward(deposits[lender])

(***************************************************************************)
(* Deposit, Burn and ClaimRewards replace one deposit by another that is   *)
(* accounted to the current reward per token; unless NLS is paid, the      *)
(* lender's reward is the same after as before.                            *)
(***************************************************************************)
LEMMA LenderReplacesDeposit ==
    ASSUME PoolInv, PoolInv', NEW lender \in Lenders, LenderNext(lender)
    PROVE  \E new \in DepositType : DepositReplaced(lender, new)
<1> DEFINE d == deposits[lender]
           updated == UpdateRewards(d)
           price == globals.reward_per_token
<1>0. /\ TypeOK /\ d \in DepositType /\ d.deposited_nlpn \in Nat
      /\ deposits \in [Lenders -> DepositType]
      /\ deposits' \in [Lenders -> DepositType]
      /\ globals \in [balance_nlpn : Nat, reward_per_token : PriceType]
      /\ globals.balance_nlpn \in Nat /\ price \in PriceType
      /\ nls \in Nat
  BY DEF PoolInv, TypeOK, DepositType
<1>1. RewardComputable(d)
  BY DEF LenderNext, Deposit, Withdraw, ClaimRewards
<1>2. /\ updated \in [deposited_nlpn : {d.deposited_nlpn},
                       reward_per_token : PriceType, pending_rewards : Nat]
      /\ updated.reward_per_token = price
      /\ updated.pending_rewards = CalculateReward(d)
  <2>1. updated \in [deposited_nlpn : {d.deposited_nlpn},
                     reward_per_token : PriceType, pending_rewards : Nat]
    BY <1>0, <1>1, UpdateRewardsType
  <2> QED
    BY <1>0, <2>1 DEF UpdateRewards, DepositType
<1>3. CalculateReward(d) \in Nat
  BY <1>2
<1>4. ASSUME NEW new \in DepositType, new.reward_per_token = price
      PROVE  CalculateReward(new) = new.pending_rewards
  <2>1. Total(new.deposited_nlpn, price) \in Nat /\ new.pending_rewards \in Nat
    BY <1>0, TotalNat DEF DepositType
  <2> QED
    BY <1>4, <2>1 DEF CalculateReward
<1> HIDE DEF updated
<1>5. ASSUME NEW amount \in DepositAmounts, Deposit(lender, amount)
      PROVE  \E new \in DepositType : DepositReplaced(lender, new)
  <2> DEFINE minted == Total(amount, Inv(CalculatePrice))
             new == [updated EXCEPT !.deposited_nlpn = @ + minted]
  <2>1. /\ deposits' = [deposits EXCEPT ![lender] = new]
        /\ globals' = [globals EXCEPT !.balance_nlpn = @ + minted]
    BY <1>5 DEF Deposit, Deposited, updated
  <2>2. minted \in Nat
    <3>1. amount \in Nat /\ Inv(CalculatePrice) \in PriceType
      BY ConstantsAssumption, PoolValue
    <3> QED
      BY <3>1, TotalNat
  <2> HIDE DEF minted
  <2>3. /\ new \in DepositType /\ new.deposited_nlpn = d.deposited_nlpn + minted
        /\ new.reward_per_token = price
        /\ new.pending_rewards = CalculateReward(d)
    BY <1>0, <1>2, <2>2 DEF DepositType
  <2>4. /\ globals'.reward_per_token = price
        /\ globals'.balance_nlpn = globals.balance_nlpn + minted
    BY <1>0, <2>1
  <2> HIDE DEF new
  <2>5. CalculateReward(new) = CalculateReward(d)
    BY <1>4, <2>3
  <2>6. globals'.balance_nlpn =
            globals.balance_nlpn - d.deposited_nlpn + new.deposited_nlpn
    BY <1>0, <2>2, <2>3, <2>4
  <2> QED
    BY <2>1, <2>3, <2>4, <2>5, <2>6 DEF DepositReplaced
<1>6. ASSUME NEW amount \in WithdrawAmounts, Withdraw(lender, amount)
      PROVE  \E new \in DepositType : DepositReplaced(lender, new)
  <2>1. /\ amount \in Nat /\ amount <= d.deposited_nlpn
        /\ globals' = [globals EXCEPT !.balance_nlpn = @ - amount]
    BY <1>6, ConstantsAssumption DEF Withdraw, Withdrawn, WithdrawLpn
  <2>2. /\ globals'.reward_per_token = price
        /\ globals'.balance_nlpn = globals.balance_nlpn - amount
    BY <1>0, <2>1
  <2>3. CASE amount = d.deposited_nlpn
    <3>1. /\ deposits' = [deposits EXCEPT ![lender] = NoDeposit]
          /\ nls' = nls - updated.pending_rewards
      BY <1>6, <2>3 DEF Withdraw, Withdrawn, WithdrawLpn, updated
    <3>2. /\ NoDeposit \in DepositType /\ NoDeposit.deposited_nlpn = 0
          /\ NoDeposit.reward_per_token = NoPrice
      BY DEF NoDeposit, DepositType, NoPrice, Price, PriceType
    <3>3. CalculateReward(NoDeposit) = 0
      <4>1. Total(0, price) = 0 /\ Total(0, NoPrice) = 0
        BY <1>0 DEF Total, SafeMul, NoPrice, Price, PriceType
      <4> QED
        BY <4>1 DEF CalculateReward, NoDeposit
    <3>4. nls' = nls => CalculateReward(d) = 0
      BY <1>0, <1>2, <1>3, <3>1
    <3>5. globals'.balance_nlpn =
              globals.balance_nlpn - d.deposited_nlpn + NoDeposit.deposited_nlpn
      BY <1>0, <2>1, <2>2, <2>3, <3>2
    <3> QED
      BY <2>2, <3>1, <3>2, <3>3, <3>4, <3>5 DEF DepositReplaced
  <2>4. CASE amount # d.deposited_nlpn
    <3> DEFINE new == [updated EXCEPT !.deposited_nlpn = @ - amount]
    <3>1. deposits' = [deposits EXCEPT ![lender] = new]
      BY <1>6, <2>4 DEF Withdraw, Withdrawn, WithdrawLpn, updated
    <3>2. /\ new \in DepositType /\ new.deposited_nlpn = d.deposited_nlpn - amount
          /\ new.reward_per_token = price
          /\ new.pending_rewards = CalculateReward(d)
      BY <1>0, <1>2, <2>1 DEF DepositType
    <3> HIDE DEF new
    <3>3. CalculateReward(new) = CalculateReward(d)
      BY <1>4, <3>2
    <3>4. globals'.balance_nlpn =
              globals.balance_nlpn - d.deposited_nlpn + new.deposited_nlpn
      BY <1>0, <2>1, <2>2, <3>2
    <3> QED
      BY <2>2, <3>1, <3>2, <3>3, <3>4 DEF DepositReplaced
  <2> QED
    BY <2>3, <2>4
<1>7. ASSUME ClaimRewards(lender)
      PROVE  \E new \in DepositType : DepositReplaced(lender, new)
  <2> DEFINE new == [updated EXCEPT !.pending_rewards = 0]
  <2>1. /\ deposits' = [deposits EXCEPT ![lender] = new]
        /\ updated.pending_rewards > 0
        /\ nls' = nls - updated.pending_rewards
        /\ globals' = globals
    BY <1>7 DEF ClaimRewards, Claimed, updated
  <2>2. /\ new \in DepositType /\ new.deposited_nlpn = d.deposited_nlpn
        /\ new.reward_per_token = price
    BY <1>0, <1>2 DEF DepositType
  <2>3. nls' # nls
    BY <1>0, <1>2, <2>1
  <2> HIDE DEF new
  <2>4. globals'.balance_nlpn =
            globals.balance_nlpn - d.deposited_nlpn + new.deposited_nlpn
    BY <1>0, <2>1, <2>2
  <2> QED
    BY <2>1, <2>2, <2>3, <2>4 DEF DepositReplaced
<1> QED
  BY <1>5, <1>6, <1>7 DEF LenderNext

(***************************************************************************)
(* The order of prices: a zero price is below any, and it is transitive.   *)
(***************************************************************************)
LEMMA PriceOrder ==
    ASSUME NEW p \in PriceType, NEW q \in PriceType
    PROVE  /\ NotAbove(NoPrice, p) /\ NotAbove(p, p)
           /\ \A r \in PriceType :
                  NotAbove(r, p) /\ NotAbove(p, q) => NotAbove(r, q)
<1>1. /\ p.amount \in Nat \ {0} /\ p.quote \in Nat
      /\ q.amount \in Nat \ {0} /\ q.quote \in Nat
  BY DEF PriceType
<1>2. NotAbove(NoPrice, p) /\ NotAbove(p, p)
  BY <1>1 DEF NotAbove, NoPrice, Price
<1>3. ASSUME NEW r \in PriceType, NotAbove(r, p), NotAbove(p, q)
      PROVE  NotAbove(r, q)
  <2>1. PICK ra, pa, qa \in Nat \ {0}, rq, pq, qq \in Nat :
            /\ ra = r.amount /\ rq = r.quote /\ pa = p.amount /\ pq = p.quote
            /\ qa = q.amount /\ qq = q.quote
    BY <1>1 DEF PriceType
  <2>2. rq * pa <= pq * ra /\ pq * qa <= qq * pa
    BY <1>3, <2>1 DEF NotAbove
  <2>3. (rq * pa) * qa <= (pq * ra) * qa
    <3>1. rq * pa \in Nat /\ pq * ra \in Nat
      OBVIOUS
    <3> QED
      BY <2>2, <3>1
  <2>4. (pq * qa) * ra <= (qq * pa) * ra
    <3>1. pq * qa \in Nat /\ qq * pa \in Nat
      OBVIOUS
    <3> QED
      BY <2>2, <3>1
  <2>5. PICK u, v \in Nat : u = rq * qa /\ v = qq * ra
    OBVIOUS
  <2>6. /\ (rq * pa) * qa = pa * (rq * qa) /\ (qq * pa) * ra = pa * (qq * ra)
        /\ (pq * ra) * qa = (pq * qa) * ra
    OBVIOUS
  <2>7. pa * u <= pa * v
    <3>1. pa * u \in Nat /\ pa * v \in Nat /\ (pq * qa) * ra \in Nat
      OBVIOUS
    <3> QED
      BY <2>3, <2>4, <2>5, <2>6, <3>1
  <2>8. pa * u <= pa * v => u <= v
    OBVIOUS
  <2> QED
    BY <2>1, <2>5, <2>7, <2>8 DEF NotAbove
<1> QED
  BY <1>2, <1>3

(***************************************************************************)
(* A step keeps the books, and changes a lender's reward only where NLS    *)
(* comes in or goes out.                                                   *)
(***************************************************************************)
RewardsKept ==
    nls' = nls =>
        \A lender \in Lenders :
            CalculateReward(deposits[lender])' = CalculateReward(deposits[lender])

(***************************************************************************)
(* The steps of a lender.                                                  *)
(***************************************************************************)
LEMMA LenderBooks ==
    ASSUME BooksInv, PoolInv', NEW lender \in Lenders, LenderNext(lender)
    PROVE  BooksInv' /\ RewardsKept
<1>0. /\ PoolInv /\ TypeOK /\ deposits \in [Lenders -> DepositType]
      /\ globals.reward_per_token \in PriceType
      /\ PrincipalsAddUp /\ ReceiptsAddUp /\ RewardsNotAhead
  BY DEF BooksInv, PoolInv, TypeOK
<1>1. UNCHANGED <<loans, total, dust>>
  BY DEF LenderNext, Deposit, Withdraw, ClaimRewards
<1>2. PICK new \in DepositType : DepositReplaced(lender, new)
  BY <1>0, LenderReplacesDeposit
<1>3. PrincipalsAddUp'
  BY <1>0, <1>1 DEF PrincipalsAddUp
<1>4. ReceiptsAddUp'
  BY <1>0, <1>2, ReceiptsChange DEF DepositReplaced
<1>5. RewardsNotAhead'
  <2>1. NotAbove(new.reward_per_token, globals.reward_per_token)
    BY <1>0, <1>2, PriceOrder DEF DepositReplaced
  <2>2. ~dust => \A l \in Lenders :
           NotAbove(deposits'[l].reward_per_token, globals'.reward_per_token)
    BY <1>0, <1>2, <2>1 DEF DepositReplaced, RewardsNotAhead
  <2> QED
    BY <1>1, <2>2 DEF RewardsNotAhead
<1>6. RewardsKept
  <2>1. SUFFICES ASSUME nls' = nls, NEW l \in Lenders
                 PROVE  CalculateReward(deposits[l])' = CalculateReward(deposits[l])
    BY DEF RewardsKept
  <2>2. CalculateReward(deposits[l])' = CalculateReward(deposits'[l])
    BY <1>2 DEF DepositReplaced, CalculateReward
  <2>3. CASE l = lender
    BY <1>0, <1>2, <2>1, <2>2, <2>3 DEF DepositReplaced
  <2>4. CASE l # lender
    BY <1>0, <1>2, <2>2, <2>4 DEF DepositReplaced
  <2> QED
    BY <2>3, <2>4
<1> QED
  BY <1>3, <1>4, <1>5, <1>6 DEF BooksInv

(***************************************************************************)
(* The steps that leave the deposits and the receipts alone.               *)
(***************************************************************************)
LEMMA SameDeposits ==
    ASSUME BooksInv, PoolInv', UNCHANGED <<deposits, globals, dust>>, PrincipalsAddUp'
    PROVE  BooksInv' /\ RewardsKept
BY DEF BooksInv, ReceiptsAddUp, RewardsNotAhead, RewardsKept, CalculateReward

(***************************************************************************)
(* A distribution does not lower the reward per token, unless it is dust.  *)
(***************************************************************************)
LEMMA DistributeBooks ==
    ASSUME BooksInv, PoolInv', NEW rewards \in RewardAmounts,
           DistributeRewards(rewards)
    PROVE  BooksInv' /\ RewardsKept
<1> DEFINE p == globals.reward_per_token
           q == RewardPerToken(rewards)
<1>1. /\ globals \in [balance_nlpn : Nat, reward_per_token : PriceType]
      /\ deposits \in [Lenders -> DepositType] /\ nls \in Nat
      /\ TypeOK /\ PrincipalsAddUp /\ ReceiptsAddUp /\ RewardsNotAhead
      /\ rewards \in Nat \ {0}
  BY ConstantsAssumption DEF BooksInv, PoolInv, TypeOK
<1>2. /\ UNCHANGED <<deposits, loans, total>> /\ nls' = nls + rewards
      /\ globals.balance_nlpn > 0 /\ q # Panic
      /\ globals' = [globals EXCEPT !.reward_per_token = q]
      /\ dust' = (dust \/ IsDust(rewards))
  BY DEF DistributeRewards
<1>3. /\ globals'.balance_nlpn = globals.balance_nlpn
      /\ globals'.reward_per_token = q
  BY <1>1, <1>2
<1>4. p \in PriceType /\ q \in PriceType /\ (~IsDust(rewards) => NotAbove(p, q))
  BY <1>1, <1>2, RewardPerTokenGrows
<1>5. PrincipalsAddUp' /\ ReceiptsAddUp'
  BY <1>1, <1>2, <1>3 DEF PrincipalsAddUp, ReceiptsAddUp
<1>6. RewardsNotAhead'
  <2>0. \A l \in Lenders : deposits[l].reward_per_token \in PriceType
    BY <1>1 DEF DepositType
  <2>1. ~dust => \A l \in Lenders : NotAbove(deposits[l].reward_per_token, p)
    BY <1>1 DEF RewardsNotAhead
  <2> HIDE DEF p, q
  <2>2. ~dust /\ ~IsDust(rewards) =>
            \A l \in Lenders : NotAbove(deposits[l].reward_per_token, q)
    BY <1>4, <2>0, <2>1, PriceOrder
  <2> QED
    BY <1>2, <1>3, <2>2 DEF RewardsNotAhead
<1>7. nls' # nls
  BY <1>1, <1>2
<1> QED
  BY <1>5, <1>6, <1>7 DEF BooksInv, RewardsKept

(***************************************************************************)
(* One step of the pool.                                                   *)
(***************************************************************************)
LEMMA BooksStep ==
    ASSUME BooksInv, [Next]_vars
    PROVE  BooksInv' /\ RewardsKept
<1>1. PoolInv /\ PoolInv' /\ PrincipalsAddUp
  BY PoolStep DEF BooksInv
<1>2. ASSUME NEW lender \in Lenders, LenderNext(lender)
      PROVE  BooksInv' /\ RewardsKept
  BY <1>1, <1>2, LenderBooks
<1>3. ASSUME NEW lease \in Leases, LeaseNext(lease)
      PROVE  BooksInv' /\ RewardsKept
  <2>1. UNCHANGED <<deposits, globals, dust>>
    BY <1>3 DEF LeaseNext, OpenLoan, RepayLoan, MigrateLease
  <2>2. MigrateLease(lease) => UNCHANGED <<loans, total>>
    BY DEF MigrateLease
  <2>3. PrincipalsAddUp'
    BY <1>1, <1>3, <2>2, LoanBooks DEF LeaseNext, PrincipalsAddUp
  <2> QED
    BY <1>1, <2>1, <2>3, SameDeposits
<1>4. ASSUME NEW rewards \in RewardAmounts, DistributeRewards(rewards)
      PROVE  BooksInv' /\ RewardsKept
  BY <1>1, <1>4, DistributeBooks
<1>5. CASE UNCHANGED <<deposits, globals, dust, loans, total>>
  <2>1. PrincipalsAddUp'
    BY <1>1, <1>5 DEF PrincipalsAddUp
  <2> QED
    BY <1>1, <1>5, <2>1, SameDeposits
<1>6. CASE \/ \E code \in Codes : NewLeaseCode(code)
           \/ \E rate \in BorrowRates : NewBorrowRate(rate)
           \/ \E percent \in MinUtilizations : MinUtilization(percent)
           \/ \E amount \in DonationAmounts : Donate(amount)
           \/ Tick
           \/ UNCHANGED vars
  <2>1. UNCHANGED <<deposits, globals, dust, loans, total>>
    BY <1>6 DEF NewLeaseCode, NewBorrowRate, MinUtilization, Donate, Tick, vars
  <2> QED
    BY <1>5, <2>1
<1> QED
  BY <1>2, <1>3, <1>4, <1>6 DEF Next

(***************************************************************************)
(* The books of a pool just instantiated.                                  *)
(***************************************************************************)
LEMMA BooksInit == Init => BooksInv
<1> SUFFICES ASSUME Init PROVE BooksInv
  OBVIOUS
<1> DEFINE f == [l \in Leases |-> loans[l].principal_due]
           g == [l \in Lenders |-> deposits[l].deposited_nlpn]
<1>1. /\ \A l \in Leases : f[l] = 0
      /\ \A l \in Lenders : g[l] = 0
      /\ DOMAIN f = Leases /\ DOMAIN g = Lenders
  BY DEF Init, NoLoan, NoDeposit
<1>2. IsFiniteSet(Leases) /\ IsFiniteSet(Lenders)
  BY ConstantsAssumption
<1>3. total.principal = 0 /\ globals.balance_nlpn = 0
  BY DEF Init, TotalNew
<1>4. PrincipalsAddUp /\ ReceiptsAddUp
  <2> HIDE DEF f, g
  <2>1. SumFunctionOnSet(f, Leases) = 0 /\ SumFunctionOnSet(g, Lenders) = 0
    BY <1>1, <1>2, SumZero
  <2> QED
    BY <1>1, <1>3, <2>1 DEF PrincipalsAddUp, ReceiptsAddUp, SumFunction, f, g
<1>5. RewardsNotAhead
  BY DEF RewardsNotAhead, Init, NoDeposit, NotAbove, NoPrice, Price
<1> QED
  BY <1>4, <1>5, PoolInit DEF BooksInv

(***************************************************************************)
(* The total principal is the sum over the open loans, in every reachable  *)
(* state.                                                                  *)
(***************************************************************************)
THEOREM PrincipalsAlwaysAddUp == Spec => []PrincipalsAddUp
<1>1. BooksInv => PrincipalsAddUp
  BY DEF BooksInv
<1>2. BooksInv /\ [Next]_vars => BooksInv'
  BY BooksStep
<1> QED
  BY <1>1, <1>2, BooksInit, PTL DEF Spec

(***************************************************************************)
(* The nLPN in circulation are exactly the ones on the lenders' accounts.  *)
(***************************************************************************)
THEOREM ReceiptsAlwaysAddUp == Spec => []ReceiptsAddUp
<1>1. BooksInv => ReceiptsAddUp
  BY DEF BooksInv
<1>2. BooksInv /\ [Next]_vars => BooksInv'
  BY BooksStep
<1> QED
  BY <1>1, <1>2, BooksInit, PTL DEF Spec

(***************************************************************************)
(* calculate_reward never underflows, so no lender's Deposit, Burn or      *)
(* ClaimRewards panics in it, while every distribution is of at least      *)
(* 1 / FACTOR per receipt, whatever its sums lose.                         *)
(***************************************************************************)
THEOREM RewardsComputable == Spec => []RewardsAlwaysComputable
<1>1. BooksInv => RewardsAlwaysComputable
  BY NotAheadComputable DEF BooksInv, PoolInv
<1>2. BooksInv /\ [Next]_vars => BooksInv'
  BY BooksStep
<1> QED
  BY <1>1, <1>2, BooksInit, PTL DEF Spec

(***************************************************************************)
(* A lender's reward changes only where NLS comes in or is paid.           *)
(***************************************************************************)
THEOREM RewardsKeptByDeposits == Spec => RewardsOnlyFromDistribution
<1>1. BooksInv /\ [Next]_vars => BooksInv'
  BY BooksStep
<1>2. BooksInv /\ [Next]_vars => [RewardsKept]_vars
  BY BooksStep
<1> QED
  BY <1>1, <1>2, BooksInit, PTL DEF Spec, RewardsOnlyFromDistribution, RewardsKept

\* the subtractions of Total::repay and of Deposit::withdraw stay at zero or above
NoUnderflow ==
    /\ \A lease \in Leases, amount \in RepayAmounts :
          RepayShares(loans[lease], now, amount).principal <= total.principal
    /\ \A lender \in Lenders :
          deposits[lender].deposited_nlpn <= globals.balance_nlpn

(***************************************************************************)
(* The two guards that stand for panics never refuse a step: a repayment   *)
(* takes no more than the total principal has ("Unexpected overflow" of    *)
(* Total::repay), and a lender has no more receipts to burn than there are *)
(* in circulation.                                                         *)
(***************************************************************************)
THEOREM TotalsNeverUnderflow == Spec => []NoUnderflow
<1>1. BooksInv => NoUnderflow
  <2> SUFFICES ASSUME BooksInv PROVE NoUnderflow
    OBVIOUS
  <2>1. /\ TypeOK /\ PrincipalsAddUp /\ ReceiptsAddUp /\ now \in Nat
        /\ total.principal \in Nat
    BY DEF BooksInv, PoolInv, TypeOK, TotalType
  <2>2. /\ \A l \in Leases : loans[l].principal_due <= total.principal
        /\ \A l \in Lenders : deposits[l].deposited_nlpn <= globals.balance_nlpn
    BY <2>1, PartsWithinTotals
  <2>3. ASSUME NEW lease \in Leases, NEW amount \in RepayAmounts
        PROVE  RepayShares(loans[lease], now, amount).principal <= total.principal
    <3>1. loans[lease] \in LoanType /\ amount \in Nat
      BY <2>1, ConstantsAssumption DEF TypeOK
    <3>2. /\ RepayShares(loans[lease], now, amount).principal \in Nat
          /\ RepayShares(loans[lease], now, amount).principal
                 <= loans[lease].principal_due
          /\ loans[lease].principal_due \in Nat
      BY <2>1, <3>1, RepaySharesSplit DEF LoanType
    <3> QED
      BY <2>1, <2>2, <3>2
  <2> QED
    BY <2>2, <2>3 DEF NoUnderflow
<1>2. BooksInv /\ [Next]_vars => BooksInv'
  BY BooksStep
<1> QED
  BY <1>1, <1>2, BooksInit, PTL DEF Spec
=============================================================================
