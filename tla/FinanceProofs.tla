--------------------------- MODULE FinanceProofs ---------------------------
(***************************************************************************)
(* The lemmas that the proofs about the components share: the arithmetic   *)
(* of modules Finance, Interest and Prices, the pool's loan, and sums over *)
(* a finite set of accounts.                                               *)
(***************************************************************************)
EXTENDS LppLoan, Prices, FiniteSets, Functions, TLAPS, FiniteSetTheorems,
        WellFoundedInduction

(***************************************************************************)
(* The rounded-down product of naturals is a natural.                      *)
(***************************************************************************)
LEMMA SafeMulNat ==
    ASSUME NEW a \in Nat, NEW b \in Nat, NEW c \in Nat \ {0}
    PROVE  SafeMul(a, b, c) \in Nat
BY DEF SafeMul

(***************************************************************************)
(* So is a percent, and a ratio, of a natural.                             *)
(***************************************************************************)
LEMMA PercentOfNat ==
    ASSUME NEW p \in Nat, NEW a \in Nat
    PROVE  PercentOf(p, a) \in Nat
<1>1. HUNDRED \in Nat \ {0}
  BY DEF HUNDRED
<1> QED
  BY <1>1, SafeMulNat DEF PercentOf

(***************************************************************************)
(* It brackets the exact quotient.                                         *)
(***************************************************************************)
LEMMA SafeMulBounds ==
    ASSUME NEW a \in Nat, NEW b \in Nat, NEW c \in Nat \ {0}
    PROVE  /\ SafeMul(a, b, c) * c <= a * b
           /\ a * b < SafeMul(a, b, c) * c + c
BY DEF SafeMul

(***************************************************************************)
(* It grows with the parts.                                                *)
(***************************************************************************)
LEMMA SafeMulMonotone ==
    ASSUME NEW a \in Nat, NEW b \in Nat, NEW d \in Nat, NEW c \in Nat \ {0},
           b <= d
    PROVE  SafeMul(a, b, c) <= SafeMul(a, d, c)
<1>1. a * b <= a * d
  OBVIOUS
<1>2. a * b \in Nat /\ a * d \in Nat
  OBVIOUS
<1>3. (a * b) \div c <= (a * d) \div c
  BY <1>1, <1>2
<1> QED
  BY <1>3 DEF SafeMul

(***************************************************************************)
(* A part of the whole is not more than the whole.                         *)
(***************************************************************************)
LEMMA SafeMulPart ==
    ASSUME NEW a \in Nat, NEW b \in Nat, NEW c \in Nat \ {0}, b <= c
    PROVE  SafeMul(a, b, c) <= a
BY DEF SafeMul

(***************************************************************************)
(* Paying for the whole pays the whole.                                    *)
(***************************************************************************)
LEMMA SafeMulWhole ==
    ASSUME NEW a \in Nat, NEW c \in Nat \ {0}
    PROVE  SafeMul(a, c, c) = a /\ SafeMul(a, 0, c) = 0
BY DEF SafeMul

(***************************************************************************)
(* interest::pay takes the due interest out of the payment, not more, and  *)
(* the period paid for is a part of the whole one.                         *)
(***************************************************************************)
LEMMA PayInterestSplit ==
    ASSUME NEW due \in Nat, NEW payment \in Nat, NEW period \in Nat
    PROVE  /\ PayInterest(due, payment, period).change =
                  payment - (IF due <= payment THEN due ELSE payment)
           /\ PayInterest(due, payment, period).change \in Nat
           /\ PayInterest(due, payment, period).change <= payment
           /\ PayInterest(due, payment, period).paid_for \in Nat
           /\ PayInterest(due, payment, period).paid_for <= period
           /\ 0 < due /\ due <= payment =>
                 PayInterest(due, payment, period).paid_for = period
<1>1. CASE due = 0
  BY <1>1 DEF PayInterest
<1>2. CASE due # 0
  <2> DEFINE repayment == IF due <= payment THEN due ELSE payment
  <2>1. repayment \in Nat /\ repayment <= due /\ repayment <= payment
    OBVIOUS
  <2> HIDE DEF repayment
  <2>2. /\ SafeMul(period, repayment, due) \in Nat
        /\ SafeMul(period, repayment, due) <= period
    BY <1>2, <2>1, SafeMulNat, SafeMulPart
  <2>3. SafeMul(period, due, due) = period
    BY <1>2, SafeMulWhole
  <2>4. PayInterest(due, payment, period) =
            [paid_for |-> SafeMul(period, repayment, due),
             change   |-> payment - repayment]
    BY <1>2 DEF PayInterest, repayment
  <2>5. due <= payment => repayment = due
    BY DEF repayment
  <2>6. payment - repayment \in Nat
    BY <2>1
  <2> QED
    BY <2>1, <2>2, <2>3, <2>4, <2>5, <2>6 DEF repayment
<1> QED
  BY <1>1, <1>2

(***************************************************************************)
(* The interest over what is left of a period, once a part of the interest *)
(* is paid, is not less than the unpaid part: the rounding of the period   *)
(* paid for is never at the expense of the creditor.                       *)
(***************************************************************************)
LEMMA RestOfInterest ==
    ASSUME NEW perYear \in Nat, NEW period \in Nat,
           NEW payment \in Nat,
           payment <= InterestOver(perYear, period)
    PROVE  LET due  == InterestOver(perYear, period)
               paid == PayInterest(due, payment, period)
           IN  InterestOver(perYear, period - paid.paid_for)
                   >= due - payment
<1> USE YearAssumption
<1> DEFINE due == InterestOver(perYear, period)
           q == PayInterest(due, payment, period).paid_for
           rest == InterestOver(perYear, period - q)
<1>1. due \in Nat
  BY SafeMulNat DEF InterestOver
<1>2. due * YEAR <= perYear * period
  BY SafeMulBounds DEF InterestOver
<1>3. payment <= due
  OBVIOUS
<1> HIDE DEF due
<1>4. q \in Nat /\ q <= period
  BY <1>1, PayInterestSplit
<1>5. CASE due = 0
  <2>1. period - q \in Nat
    BY <1>4
  <2>2. rest \in Nat
    BY <2>1, SafeMulNat DEF InterestOver
  <2> QED
    BY <1>3, <1>5, <2>2 DEF due
<1>6. CASE due # 0
  <2>1. q = SafeMul(period, payment, due)
    <3>1. (IF due <= payment THEN due ELSE payment) = payment
      BY <1>1, <1>3
    <3> QED
      BY <1>6, <3>1 DEF PayInterest
  <2>2. q * due <= period * payment
    BY <1>1, <1>6, <2>1, SafeMulBounds
  <2> HIDE DEF q
  <2> DEFINE left == period - q
  <2>3. left \in Nat /\ left * due >= period * (due - payment)
    <3>1. (period - q) * due = period * due - q * due
      BY <1>1, <1>4
    <3>2. period * (due - payment) = period * due - period * payment
      BY <1>1
    <3>3. /\ period * due \in Nat /\ q * due \in Nat
          /\ period * payment \in Nat
      BY <1>1, <1>4
    <3> QED
      BY <1>4, <2>2, <3>1, <3>2, <3>3
  <2> HIDE DEF left
  <2> DEFINE unpaid == due - payment
  <2>4. unpaid \in Nat
    BY <1>1, <1>3
  <2>5. left * due >= period * unpaid
    BY <2>3
  <2> HIDE DEF unpaid
  <2>6. perYear * (left * due) >= perYear * (period * unpaid)
    <3>1. left * due \in Nat /\ period * unpaid \in Nat
      BY <1>1, <2>3, <2>4
    <3> QED
      BY <2>5, <3>1
  <2>7. (perYear * period) * unpaid >= (due * YEAR) * unpaid
    <3>1. perYear * period \in Nat /\ due * YEAR \in Nat
      BY <1>1
    <3> QED
      BY <1>2, <2>4, <3>1
  <2>8. (perYear * left) * due >= (YEAR * unpaid) * due
    <3>1. perYear * (left * due) = (perYear * left) * due
      BY <1>1, <2>3
    <3>2. perYear * (period * unpaid) = (perYear * period) * unpaid
      BY <2>4
    <3>3. (due * YEAR) * unpaid = (YEAR * unpaid) * due
      BY <1>1, <2>4
    <3>4. /\ (perYear * left) * due \in Nat /\ (perYear * period) * unpaid \in Nat
          /\ (YEAR * unpaid) * due \in Nat
      BY <1>1, <2>3, <2>4
    <3> QED
      BY <2>6, <2>7, <3>1, <3>2, <3>3, <3>4
  <2>9. perYear * left >= YEAR * unpaid
    <3>1. perYear * left \in Nat /\ YEAR * unpaid \in Nat
      BY <2>3, <2>4
    <3> QED
      BY <1>1, <1>6, <2>8, <3>1
  <2>10. SafeMul(perYear, left, YEAR) >= unpaid
    <3>1. perYear * left \in Nat
      BY <2>3
    <3>2. (perYear * left) \div YEAR >= unpaid
      BY <2>4, <2>9, <3>1
    <3> QED
      BY <3>2 DEF SafeMul
  <2> QED
    BY <2>10 DEF InterestOver, left, unpaid, due, q
<1> QED
  BY <1>5, <1>6 DEF due

-----------------------------------------------------------------------------
(* The pool's loan *)

(***************************************************************************)
(* The interest due is a natural that only grows in time.                  *)
(***************************************************************************)
LEMMA LoanInterestNat ==
    ASSUME NEW ln \in LoanType, NEW by \in Nat
    PROVE  /\ DuePeriod(ln, by) \in Nat
           /\ PercentOf(ln.annual_interest_rate, ln.principal_due) \in Nat
           /\ LoanInterestDue(ln, by) \in Nat
<1>1. /\ ln.principal_due \in Nat /\ ln.annual_interest_rate \in Nat
      /\ ln.interest_paid \in Nat
  BY DEF LoanType
<1>2. DuePeriod(ln, by) \in Nat
  BY <1>1 DEF DuePeriod
<1>3. PercentOf(ln.annual_interest_rate, ln.principal_due) \in Nat
  BY <1>1, PercentOfNat
<1> QED
  BY <1>2, <1>3, SafeMulNat, YearAssumption DEF LoanInterestDue, InterestOver

(***************************************************************************)
(* The interest due on a loan of the pool does not decrease with time.     *)
(***************************************************************************)
LEMMA LoanInterestGrows ==
    ASSUME NEW ln \in LoanType, NEW x \in Nat, NEW y \in Nat, x <= y
    PROVE  LoanInterestDue(ln, x) <= LoanInterestDue(ln, y)
<1>1. /\ DuePeriod(ln, x) \in Nat /\ DuePeriod(ln, y) \in Nat
      /\ PercentOf(ln.annual_interest_rate, ln.principal_due) \in Nat
  BY LoanInterestNat
<1>2. DuePeriod(ln, x) <= DuePeriod(ln, y)
  BY DEF DuePeriod, LoanType
<1> QED
  BY <1>1, <1>2, SafeMulMonotone, YearAssumption
  DEF LoanInterestDue, InterestOver

(***************************************************************************)
(* A repayment is split into interest, principal and excess, none of them  *)
(* negative, and never takes more principal than the loan owes.            *)
(***************************************************************************)
LEMMA RepaySharesSplit ==
    ASSUME NEW ln \in LoanType, NEW by \in Nat, NEW amount \in Nat
    PROVE  LET shares == RepayShares(ln, by, amount)
           IN  /\ shares.interest \in Nat /\ shares.principal \in Nat
               /\ shares.excess \in Nat
               /\ shares.interest + shares.principal + shares.excess = amount
               /\ shares.principal <= ln.principal_due
               /\ shares.loan \in LoanType
<1> DEFINE due == LoanInterestDue(ln, by)
           period == DuePeriod(ln, by)
           paid == PayInterest(due, amount, period)
<1>1. /\ ln.principal_due \in Nat /\ ln.annual_interest_rate \in Nat
      /\ ln.interest_paid \in Nat
  BY DEF LoanType
<1>2. period \in Nat
  BY <1>1 DEF DuePeriod
<1>3. due \in Nat
  <2>1. PercentOf(ln.annual_interest_rate, ln.principal_due) \in Nat
    BY <1>1, PercentOfNat
  <2> QED
    BY <1>2, <2>1, SafeMulNat, YearAssumption
    DEF LoanInterestDue, InterestOver
<1> HIDE DEF due, period
<1>4. paid.change \in Nat /\ paid.change <= amount /\ paid.paid_for \in Nat
  <2>1. CASE due = 0
    BY <2>1 DEF PayInterest
  <2>2. CASE due # 0
    <3>1. SafeMul(period, due, due) \in Nat /\ SafeMul(period, amount, due) \in Nat
      BY <1>2, <1>3, <2>2, SafeMulNat
    <3> QED
      BY <1>3, <2>2, <3>1 DEF PayInterest
  <2> QED
    BY <2>1, <2>2
<1> HIDE DEF paid
<1>5. RepayShares(ln, by, amount) =
        [interest  |-> amount - paid.change,
         principal |-> IF paid.change <= ln.principal_due
                       THEN paid.change ELSE ln.principal_due,
         excess    |-> paid.change - (IF paid.change <= ln.principal_due
                                      THEN paid.change ELSE ln.principal_due),
         loan      |-> IF (IF paid.change <= ln.principal_due
                           THEN paid.change ELSE ln.principal_due)
                            = ln.principal_due
                       THEN NoLoan
                       ELSE Loan(ln.principal_due
                                   - (IF paid.change <= ln.principal_due
                                      THEN paid.change ELSE ln.principal_due),
                                 ln.annual_interest_rate,
                                 ln.interest_paid + paid.paid_for)]
  BY DEF RepayShares, paid, due, period
<1> QED
  BY <1>1, <1>4, <1>5 DEF LoanType, NoLoan, Loan

-----------------------------------------------------------------------------
(* Sums over a finite set of accounts *)

(***************************************************************************)
(* A set of naturals that is not empty has a least member.                 *)
(***************************************************************************)
LEMMA NatMinimum ==
    ASSUME NEW S \in SUBSET Nat, S # {}
    PROVE  \E x \in S : \A y \in S : x <= y
<1> DEFINE Less == {p \in Nat \X Nat : p[1] < p[2]}
<1>1. IsWellFoundedOn(Less, Nat)
  BY NatLessThanWellFounded, Zenon DEF OpToRel
<1> HIDE DEF Less
<1>2. PICK x \in S : \A y \in S : ~(<<y, x>> \in Less)
  BY <1>1, WFMin
<1>3. ASSUME NEW y \in S PROVE x <= y
  <2>1. <<y, x>> \in Nat \X Nat /\ <<y, x>>[1] = y /\ <<y, x>>[2] = x
    OBVIOUS
  <2>2. y < x => <<y, x>> \in Less
    BY <2>1 DEF Less
  <2> QED
    BY <1>2, <2>2
<1> QED
  BY <1>3

(***************************************************************************)
(* Induction over the subsets of a finite set, with the property given as  *)
(* the set Good of those that have it: a smallest subset without it would  *)
(* be a counterexample to the step.                                        *)
(***************************************************************************)
LEMMA SubsetInduction ==
    ASSUME NEW D, IsFiniteSet(D), NEW Good,
           {} \in Good,
           \A T \in SUBSET D :
               T # {} /\ (\A x \in T : T \ {x} \in Good) => T \in Good
    PROVE  \A T \in SUBSET D : T \in Good
<1> SUFFICES ASSUME NEW B \in SUBSET D, B \notin Good PROVE FALSE
  OBVIOUS
<1> DEFINE Bad == {T \in SUBSET D : T \notin Good}
           Sizes == {Cardinality(T) : T \in Bad}
<1>1. \A T \in Bad : IsFiniteSet(T) /\ Cardinality(T) \in Nat
  BY FS_Subset, FS_CardinalityType
<1>2. Sizes \in SUBSET Nat /\ Sizes # {}
  BY <1>1
<1>3. PICK n \in Sizes : \A m \in Sizes : n <= m
  <2> HIDE DEF Sizes
  <2> QED
    BY <1>2, NatMinimum
<1>4. PICK T \in Bad : Cardinality(T) = n
  BY <1>3
<1>5. T # {}
  BY <1>4
<1>6. ASSUME NEW x \in T PROVE T \ {x} \in Good
  <2>1. Cardinality(T \ {x}) = Cardinality(T) - 1
    BY <1>1, FS_RemoveElement
  <2>2. T \ {x} \in Bad => Cardinality(T \ {x}) \in Sizes
    OBVIOUS
  <2>3. T \ {x} \in SUBSET D
    OBVIOUS
  <2>4. T \ {x} \notin Bad
    <3> HIDE DEF Bad, Sizes
    <3> QED
      BY <1>1, <1>2, <1>3, <1>4, <2>1, <2>2
  <2> QED
    BY <2>3, <2>4
<1> QED
  BY <1>4, <1>5, <1>6

(***************************************************************************)
(* Induction over the naturals, with the property given as the set G.      *)
(***************************************************************************)
LEMMA NatSetInduction ==
    ASSUME NEW G, 0 \in G, \A n \in Nat : n \in G => n + 1 \in G
    PROVE  \A n \in Nat : n \in G
<1> SUFFICES ASSUME NEW b \in Nat, b \notin G PROVE FALSE
  OBVIOUS
<1> DEFINE Bad == {n \in Nat : n \notin G}
<1>1. PICK x \in Bad : \A y \in Bad : x <= y
  <2>1. Bad \in SUBSET Nat /\ Bad # {}
    OBVIOUS
  <2> QED
    BY <2>1, NatMinimum
<1>2. x # 0 /\ x \in Nat
  OBVIOUS
<1>3. x - 1 \in Nat /\ x - 1 \notin Bad
  BY <1>1, <1>2
<1> QED
  BY <1>2, <1>3

\* the element that a fold over s takes first
AnyOf(s) == CHOOSE x \in s : TRUE

\* one step of the sum of f, g being that of the smaller sets
AddOne(f, g, s) == IF s = {} THEN 0 ELSE f[AnyOf(s)] + g[s \ {AnyOf(s)}]

\* the sums of f over all subsets of S
PartialSum(f, S) == CHOOSE g : g = [s \in SUBSET S |-> AddOne(f, g, s)]

(***************************************************************************)
(* The library's sum, folded over the set, is that function at the set.    *)
(***************************************************************************)
LEMMA SumIsPartial ==
    ASSUME NEW f, NEW S
    PROVE  SumFunctionOnSet(f, S) = PartialSum(f, S)[S]
BY Zenon DEF SumFunctionOnSet, FoldFunctionOnSet, MapThenFoldSet, PartialSum, AddOne, AnyOf

(***************************************************************************)
(* The element picked from a set is in the set.                            *)
(***************************************************************************)
LEMMA AnyOfIn ==
    ASSUME NEW s, s # {}
    PROVE  AnyOf(s) \in s
BY DEF AnyOf

(***************************************************************************)
(* The recursion that the fold is defined by has a solution over a finite  *)
(* set, so the function chosen satisfies it.                               *)
(***************************************************************************)
LEMMA PartialAt ==
    ASSUME NEW f, NEW S, IsFiniteSet(S)
    PROVE  \A T \in SUBSET S : PartialSum(f, S)[T] = AddOne(f, PartialSum(f, S), T)
<1> DEFINE Small(n) == {s \in SUBSET S : Cardinality(s) <= n}
           G == {n \in Nat : \E g : g = [s \in Small(n) |-> AddOne(f, g, s)]}
<1>0. \A s \in SUBSET S : IsFiniteSet(s) /\ Cardinality(s) \in Nat
  BY FS_Subset, FS_CardinalityType
<1>1. 0 \in G
  <2> DEFINE g == [s \in Small(0) |-> 0]
  <2>1. \A s \in Small(0) : s = {}
    BY <1>0, FS_EmptySet
  <2>2. g = [s \in Small(0) |-> AddOne(f, g, s)]
    BY <2>1 DEF AddOne
  <2> QED
    BY <2>2
<1>2. ASSUME NEW n \in Nat, n \in G PROVE n + 1 \in G
  <2>1. PICK g : g = [s \in Small(n) |-> AddOne(f, g, s)]
    BY <1>2
  <2> DEFINE h == [s \in Small(n + 1) |-> AddOne(f, g, s)]
  <2>2. \A s \in Small(n) : s \in Small(n + 1) /\ h[s] = g[s]
    <3>1. \A s \in Small(n) : s \in Small(n + 1)
      BY <1>0
    <3> QED
      BY <2>1, <3>1
  <2>3. \A s \in Small(n + 1) : s # {} => s \ {AnyOf(s)} \in Small(n)
    BY <1>0, FS_RemoveElement, AnyOfIn
  <2>4. \A s \in Small(n + 1) : AddOne(f, g, s) = AddOne(f, h, s)
    <3> HIDE DEF h, Small
    <3> QED
      BY <2>2, <2>3 DEF AddOne
  <2>5. h = [s \in Small(n + 1) |-> AddOne(f, h, s)]
    <3> HIDE DEF Small
    <3>1. h = [s \in Small(n + 1) |-> AddOne(f, g, s)]
      OBVIOUS
    <3> HIDE DEF h
    <3> QED
      BY <2>4, <3>1
  <2> HIDE DEF h, Small
  <2> QED
    BY <2>5
<1>3. Cardinality(S) \in G
  <2>1. Cardinality(S) \in Nat
    BY FS_CardinalityType
  <2> HIDE DEF G
  <2> QED
    BY <1>1, <1>2, <2>1, NatSetInduction
<1>4. Small(Cardinality(S)) = SUBSET S
  BY FS_Subset
<1>5. \E g : g = [s \in SUBSET S |-> AddOne(f, g, s)]
  BY <1>3, <1>4
<1>6. PICK p : p = PartialSum(f, S)
  OBVIOUS
<1>7. p = [s \in SUBSET S |-> AddOne(f, p, s)]
  BY <1>5, <1>6, Zenon DEF PartialSum
<1>8. \A T \in SUBSET S : p[T] = AddOne(f, p, T)
  BY <1>7
<1> QED
  BY <1>6, <1>8

(***************************************************************************)
(* The sum over a set depends on the values at its elements only.          *)
(***************************************************************************)
LEMMA PartialSame ==
    ASSUME NEW f, NEW g, NEW S, IsFiniteSet(S), NEW R, IsFiniteSet(R),
           NEW D, D \subseteq S, D \subseteq R, \A x \in D : f[x] = g[x]
    PROVE  PartialSum(f, S)[D] = PartialSum(g, R)[D]
<1> DEFINE Good == {T \in SUBSET D : PartialSum(f, S)[T] = PartialSum(g, R)[T]}
<1>1. \A T \in SUBSET D :
         /\ PartialSum(f, S)[T] = AddOne(f, PartialSum(f, S), T)
         /\ PartialSum(g, R)[T] = AddOne(g, PartialSum(g, R), T)
  <2> TAKE T \in SUBSET D
  <2>1. T \in SUBSET S /\ T \in SUBSET R
    OBVIOUS
  <2> QED
    BY <2>1, PartialAt
<1>2. {} \in Good
  BY <1>1 DEF AddOne
<1>3. ASSUME NEW T \in SUBSET D, T # {}, \A x \in T : T \ {x} \in Good
      PROVE  T \in Good
  BY <1>1, <1>3, AnyOfIn DEF AddOne
<1>4. IsFiniteSet(D)
  BY FS_Subset
<1>5. \A T \in SUBSET D : T \in Good
  <2> HIDE DEF Good
  <2> QED
    BY <1>2, <1>3, <1>4, SubsetInduction
<1> QED
  BY <1>5

(***************************************************************************)
(* There is nothing to sum over the empty set.                             *)
(***************************************************************************)
LEMMA SumEmpty ==
    ASSUME NEW f
    PROVE  SumFunctionOnSet(f, {}) = 0
<1>1. IsFiniteSet({})
  BY FS_EmptySet
<1>2. PartialSum(f, {})[{}] = AddOne(f, PartialSum(f, {}), {})
  BY <1>1, PartialAt
<1> QED
  BY <1>2, SumIsPartial DEF AddOne

(***************************************************************************)
(* Equal terms have equal sums.                                            *)
(***************************************************************************)
LEMMA SumSame ==
    ASSUME NEW f, NEW g, NEW S, IsFiniteSet(S), \A x \in S : f[x] = g[x]
    PROVE  SumFunctionOnSet(f, S) = SumFunctionOnSet(g, S)
<1>1. PartialSum(f, S)[S] = PartialSum(g, S)[S]
  BY PartialSame
<1> QED
  BY <1>1, SumIsPartial

(***************************************************************************)
(* The sum is that of the element picked and of the others.                *)
(***************************************************************************)
LEMMA SumStep ==
    ASSUME NEW f, NEW S, IsFiniteSet(S), S # {}
    PROVE  SumFunctionOnSet(f, S) =
               f[AnyOf(S)] + SumFunctionOnSet(f, S \ {AnyOf(S)})
<1> DEFINE T == S \ {AnyOf(S)}
<1>1. IsFiniteSet(T) /\ T \in SUBSET S
  BY FS_RemoveElement
<1>2. PartialSum(f, S)[S] = f[AnyOf(S)] + PartialSum(f, S)[T]
  <2>1. S \in SUBSET S
    OBVIOUS
  <2>2. PartialSum(f, S)[S] = AddOne(f, PartialSum(f, S), S)
    BY <2>1, PartialAt
  <2> QED
    BY <2>2, Zenon DEF AddOne
<1>3. PartialSum(f, S)[T] = PartialSum(f, T)[T]
  <2> HIDE DEF T
  <2> QED
    BY <1>1, PartialSame
<1> QED
  BY <1>2, <1>3, SumIsPartial

(***************************************************************************)
(* A sum of integers is an integer.                                        *)
(***************************************************************************)
LEMMA SumInt ==
    ASSUME NEW f, NEW S, IsFiniteSet(S), \A x \in S : f[x] \in Int
    PROVE  SumFunctionOnSet(f, S) \in Int
<1> DEFINE Good == {T \in SUBSET S : SumFunctionOnSet(f, T) \in Int}
<1>1. {} \in Good
  BY SumEmpty
<1>2. ASSUME NEW T \in SUBSET S, T # {}, \A x \in T : T \ {x} \in Good
      PROVE  T \in Good
  <2>1. IsFiniteSet(T)
    BY FS_Subset
  <2>2. SumFunctionOnSet(f, T) = f[AnyOf(T)] + SumFunctionOnSet(f, T \ {AnyOf(T)})
    BY <1>2, <2>1, SumStep
  <2> QED
    BY <1>2, <2>2, AnyOfIn
<1>3. \A T \in SUBSET S : T \in Good
  <2> HIDE DEF Good
  <2> QED
    BY <1>1, <1>2, SubsetInduction
<1> QED
  BY <1>3

(***************************************************************************)
(* A sum of naturals is a natural.                                         *)
(***************************************************************************)
LEMMA SumNat ==
    ASSUME NEW f, NEW S, IsFiniteSet(S), \A x \in S : f[x] \in Nat
    PROVE  SumFunctionOnSet(f, S) \in Nat
<1> DEFINE Good == {T \in SUBSET S : SumFunctionOnSet(f, T) \in Nat}
<1>1. {} \in Good
  BY SumEmpty
<1>2. ASSUME NEW T \in SUBSET S, T # {}, \A x \in T : T \ {x} \in Good
      PROVE  T \in Good
  <2>1. IsFiniteSet(T)
    BY FS_Subset
  <2>2. SumFunctionOnSet(f, T) = f[AnyOf(T)] + SumFunctionOnSet(f, T \ {AnyOf(T)})
    BY <1>2, <2>1, SumStep
  <2> QED
    BY <1>2, <2>2, AnyOfIn
<1>3. \A T \in SUBSET S : T \in Good
  <2> HIDE DEF Good
  <2> QED
    BY <1>1, <1>2, SubsetInduction
<1> QED
  BY <1>3

(***************************************************************************)
(* Any of the elements may be taken out of the sum first: the order in     *)
(* which the fold picks them does not matter.                              *)
(***************************************************************************)
LEMMA SumRemove ==
    ASSUME NEW f, NEW S, IsFiniteSet(S), \A x \in S : f[x] \in Int, NEW a \in S
    PROVE  SumFunctionOnSet(f, S) = f[a] + SumFunctionOnSet(f, S \ {a})
<1> DEFINE Sum(T) == SumFunctionOnSet(f, T)
           Good == {T \in SUBSET S : \A x \in T : Sum(T) = f[x] + Sum(T \ {x})}
<1>1. {} \in Good
  OBVIOUS
<1>0. \A T \in SUBSET S : IsFiniteSet(T) /\ Sum(T) \in Int
  BY FS_Subset, SumInt
<1>2. ASSUME NEW T \in SUBSET S, T # {}, \A x \in T : T \ {x} \in Good
      PROVE  T \in Good
  <2> SUFFICES ASSUME NEW x \in T PROVE Sum(T) = f[x] + Sum(T \ {x})
    OBVIOUS
  <2> DEFINE p == AnyOf(T)
  <2>1. p \in T
    BY <1>2, AnyOfIn
  <2>2. Sum(T) = f[p] + Sum(T \ {p})
    BY <1>0, <1>2, SumStep
  <2>3. CASE x = p
    BY <2>2, <2>3
  <2>4. CASE x # p
    <3>0. x \in T \ {p} /\ p \in T \ {x} /\ (T \ {p}) \ {x} = (T \ {x}) \ {p}
      BY <2>1, <2>4
    <3>1. Sum(T \ {p}) = f[x] + Sum((T \ {p}) \ {x})
      BY <1>2, <2>1, <3>0
    <3>2. Sum(T \ {x}) = f[p] + Sum((T \ {x}) \ {p})
      BY <1>2, <3>0
    <3>3. /\ Sum((T \ {x}) \ {p}) \in Int
          /\ f[x] \in Int /\ f[p] \in Int
      BY <1>0, <2>1
    <3>4. Sum(T) = f[p] + (f[x] + Sum((T \ {x}) \ {p}))
      BY <2>2, <3>0, <3>1, Zenon
    <3>5. f[p] + (f[x] + Sum((T \ {x}) \ {p})) = f[x] + (f[p] + Sum((T \ {x}) \ {p}))
      <4> HIDE DEF Sum, p
      <4> QED
        BY <3>3
    <3> QED
      BY <3>2, <3>4, <3>5, Zenon
  <2> QED
    BY <2>3, <2>4
<1>3. \A T \in SUBSET S : T \in Good
  <2> HIDE DEF Good
  <2> QED
    BY <1>1, <1>2, SubsetInduction
<1> QED
  BY <1>3

(***************************************************************************)
(* Where one of the terms changes, the sum changes by the difference.      *)
(***************************************************************************)
LEMMA SumUpdate ==
    ASSUME NEW f, NEW g, NEW S, IsFiniteSet(S), NEW a \in S,
           \A x \in S : f[x] \in Int, g[a] \in Int,
           \A x \in S \ {a} : g[x] = f[x]
    PROVE  SumFunctionOnSet(g, S) = SumFunctionOnSet(f, S) - f[a] + g[a]
<1>1. IsFiniteSet(S \ {a})
  BY FS_RemoveElement
<1>2. SumFunctionOnSet(g, S \ {a}) = SumFunctionOnSet(f, S \ {a})
  BY <1>1, SumSame
<1>3. SumFunctionOnSet(f, S) = f[a] + SumFunctionOnSet(f, S \ {a})
  BY SumRemove
<1>4. SumFunctionOnSet(g, S) = g[a] + SumFunctionOnSet(g, S \ {a})
  BY SumRemove
<1>5. SumFunctionOnSet(f, S \ {a}) \in Int
  BY <1>1, SumInt
<1> QED
  BY <1>2, <1>3, <1>4, <1>5

(***************************************************************************)
(* One element more adds its term.                                         *)
(***************************************************************************)
LEMMA SumInsert ==
    ASSUME NEW f, NEW S, IsFiniteSet(S), NEW a, a \notin S,
           \A x \in S \cup {a} : f[x] \in Int
    PROVE  SumFunctionOnSet(f, S \cup {a}) = SumFunctionOnSet(f, S) + f[a]
<1>1. IsFiniteSet(S \cup {a}) /\ (S \cup {a}) \ {a} = S
  BY FS_AddElement
<1>2. SumFunctionOnSet(f, S \cup {a}) = f[a] + SumFunctionOnSet(f, S)
  BY <1>1, SumRemove
<1> QED
  BY <1>2, SumInt

(***************************************************************************)
(* No term is greater than a sum of naturals.                              *)
(***************************************************************************)
LEMMA SumMember ==
    ASSUME NEW f, NEW S, IsFiniteSet(S), \A x \in S : f[x] \in Nat, NEW a \in S
    PROVE  f[a] <= SumFunctionOnSet(f, S)
<1>1. IsFiniteSet(S \ {a})
  BY FS_RemoveElement
<1>2. SumFunctionOnSet(f, S \ {a}) \in Nat
  BY <1>1, SumNat
<1>3. SumFunctionOnSet(f, S) = f[a] + SumFunctionOnSet(f, S \ {a})
  BY SumRemove
<1> QED
  BY <1>2, <1>3

(***************************************************************************)
(* A sum of zeros is zero.                                                 *)
(***************************************************************************)
LEMMA SumZero ==
    ASSUME NEW f, NEW S, IsFiniteSet(S), \A x \in S : f[x] = 0
    PROVE  SumFunctionOnSet(f, S) = 0
<1> DEFINE Good == {T \in SUBSET S : SumFunctionOnSet(f, T) = 0}
<1>1. {} \in Good
  BY SumEmpty
<1>2. ASSUME NEW T \in SUBSET S, T # {}, \A x \in T : T \ {x} \in Good
      PROVE  T \in Good
  <2>1. IsFiniteSet(T)
    BY FS_Subset
  <2>2. SumFunctionOnSet(f, T) = f[AnyOf(T)] + SumFunctionOnSet(f, T \ {AnyOf(T)})
    BY <1>2, <2>1, SumStep
  <2> QED
    BY <1>2, <2>2, AnyOfIn
<1>3. \A T \in SUBSET S : T \in Good
  <2> HIDE DEF Good
  <2> QED
    BY <1>1, <1>2, SubsetInduction
<1> QED
  BY <1>3

(***************************************************************************)
(* The sum of term-wise sums is the sum of the two sums.                   *)
(***************************************************************************)
LEMMA SumPlus ==
    ASSUME NEW f, NEW g, NEW h, NEW S, IsFiniteSet(S),
           \A x \in S : f[x] \in Int /\ g[x] \in Int /\ h[x] = f[x] + g[x]
    PROVE  SumFunctionOnSet(h, S) = SumFunctionOnSet(f, S) + SumFunctionOnSet(g, S)
<1> DEFINE Good == {T \in SUBSET S : SumFunctionOnSet(h, T) =
                       SumFunctionOnSet(f, T) + SumFunctionOnSet(g, T)}
<1>1. {} \in Good
  BY SumEmpty
<1>2. ASSUME NEW T \in SUBSET S, T # {}, \A x \in T : T \ {x} \in Good
      PROVE  T \in Good
  <2> DEFINE R == T \ {AnyOf(T)}
  <2>1. IsFiniteSet(T) /\ IsFiniteSet(R)
    BY FS_Subset, FS_RemoveElement
  <2>2. AnyOf(T) \in T
    BY <1>2, AnyOfIn
  <2>3. /\ SumFunctionOnSet(f, T) = f[AnyOf(T)] + SumFunctionOnSet(f, R)
        /\ SumFunctionOnSet(g, T) = g[AnyOf(T)] + SumFunctionOnSet(g, R)
        /\ SumFunctionOnSet(h, T) = h[AnyOf(T)] + SumFunctionOnSet(h, R)
    BY <1>2, <2>1, SumStep
  <2>4. SumFunctionOnSet(h, R) = SumFunctionOnSet(f, R) + SumFunctionOnSet(g, R)
    BY <1>2, <2>2
  <2>5. SumFunctionOnSet(f, R) \in Int /\ SumFunctionOnSet(g, R) \in Int
    BY <2>1, SumInt
  <2>6. h[AnyOf(T)] = f[AnyOf(T)] + g[AnyOf(T)] /\ f[AnyOf(T)] \in Int /\ g[AnyOf(T)] \in Int
    BY <2>2
  <2> HIDE DEF R
  <2> QED
    BY <2>3, <2>4, <2>5, <2>6
<1>3. \A T \in SUBSET S : T \in Good
  <2> HIDE DEF Good
  <2> QED
    BY <1>1, <1>2, SubsetInduction
<1> QED
  BY <1>3

(***************************************************************************)
(* The image of a finite set is finite, and not larger.                    *)
(***************************************************************************)
LEMMA ImageFinite ==
    ASSUME NEW S, IsFiniteSet(S), NEW f
    PROVE  /\ IsFiniteSet({f[x] : x \in S})
           /\ Cardinality({f[x] : x \in S}) <= Cardinality(S)
<1> DEFINE T == {f[x] : x \in S}
           g == [x \in S |-> f[x]]
<1>1. g \in Surjection(S, T)
  BY DEF Surjection
<1> HIDE DEF T, g
<1>2. IsFiniteSet(T) /\ Cardinality(T) <= Cardinality(S)
  BY <1>1, FS_Surjection
<1> QED
  BY <1>2 DEF T

(***************************************************************************)
(* Renaming the elements, no two alike, leaves the sum as it is.           *)
(***************************************************************************)
LEMMA SumRenamed ==
    ASSUME NEW S, IsFiniteSet(S), NEW f, NEW g, NEW t,
           \A x \in S : f[x] \in Int /\ g[t[x]] = f[x],
           \A x, y \in S : t[x] = t[y] => x = y
    PROVE  SumFunctionOnSet(g, {t[x] : x \in S}) = SumFunctionOnSet(f, S)
<1> DEFINE Image(T) == {t[x] : x \in T}
           Good == {T \in SUBSET S :
                      SumFunctionOnSet(g, Image(T)) = SumFunctionOnSet(f, T)}
<1>1. {} \in Good
  <2>1. Image({}) = {}
    OBVIOUS
  <2> HIDE DEF Image
  <2> QED
    BY <2>1, SumEmpty
<1>2. ASSUME NEW T \in SUBSET S, T # {}, \A x \in T : T \ {x} \in Good
      PROVE  T \in Good
  <2>1. PICK a : a \in T
    BY <1>2
  <2>2. IsFiniteSet(T) /\ IsFiniteSet(Image(T))
    BY FS_Subset, ImageFinite
  <2>3. Image(T) \ {t[a]} = Image(T \ {a}) /\ t[a] \in Image(T)
    BY <2>1
  <2>4. \A y \in Image(T) : g[y] \in Int
    OBVIOUS
  <2>5. SumFunctionOnSet(g, Image(T \ {a})) = SumFunctionOnSet(f, T \ {a})
    BY <1>2, <2>1
  <2> HIDE DEF Image
  <2>6. SumFunctionOnSet(g, Image(T)) = g[t[a]] + SumFunctionOnSet(g, Image(T) \ {t[a]})
    BY <2>2, <2>3, <2>4, SumRemove
  <2>7. SumFunctionOnSet(f, T) = f[a] + SumFunctionOnSet(f, T \ {a})
    BY <2>1, <2>2, SumRemove
  <2>8. g[t[a]] = f[a]
    BY <2>1
  <2>9. SumFunctionOnSet(g, Image(T)) = SumFunctionOnSet(f, T)
    BY <2>3, <2>5, <2>6, <2>7, <2>8, Zenon
  <2> QED
    BY <2>9
<1>3. \A T \in SUBSET S : T \in Good
  <2> HIDE DEF Good
  <2> QED
    BY <1>1, <1>2, SubsetInduction
<1>4. S \in Good
  <2> HIDE DEF Good
  <2> QED
    BY <1>3
<1> QED
  BY <1>4
----------------------------------------------------------------------------
(* The greatest common divisor and prices in lowest terms *)

\* one step of Euclid's algorithm, g being that of the smaller divisors
GcdStep(g, b) == [a \in Nat |-> IF b = 0 THEN a ELSE g[a % b][b]]

\* g computes it up to n
GcdUpTo(g, n) == g = [b \in 0 .. n |-> GcdStep(g, b)]

(***************************************************************************)
(* A remainder of the division of naturals is below the divisor.           *)
(***************************************************************************)
LEMMA Remainder ==
    ASSUME NEW a \in Nat, NEW b \in Nat, b # 0
    PROVE  /\ a % b \in Nat /\ a % b < b /\ a \div b \in Nat
           /\ a = b * (a \div b) + (a % b)
OBVIOUS

(***************************************************************************)
(* Two computations agree as far as both go.                               *)
(***************************************************************************)
LEMMA GcdAgree ==
    ASSUME NEW m \in Nat, NEW n \in Nat, m <= n,
           NEW g, GcdUpTo(g, m), NEW h, GcdUpTo(h, n)
    PROVE  \A b \in 0 .. m : g[b] = h[b]
<1> DEFINE Bad == {b \in 0 .. m : g[b] # h[b]}
<1> SUFFICES ASSUME Bad # {} PROVE FALSE
  OBVIOUS
<1>1. Bad \in SUBSET Nat
  OBVIOUS
<1>2. PICK x \in Bad : \A y \in Bad : x <= y
  <2> HIDE DEF Bad
  <2> QED
    BY <1>1, NatMinimum
<1>3. x \in Nat /\ x <= m
  OBVIOUS
<1>4. ASSUME NEW a \in Nat, x # 0 PROVE g[a % x] = h[a % x]
  <2>1. a % x \in Nat /\ a % x < x
    BY <1>3, <1>4, Remainder
  <2>2. a % x \in 0 .. m /\ ~(x <= a % x)
    BY <1>3, <2>1
  <2> QED
    BY <1>2, <2>2
<1>5. GcdStep(g, x) = GcdStep(h, x)
  <2> HIDE DEF Bad
  <2> QED
    BY <1>4 DEF GcdStep
<1>6. g[x] = GcdStep(g, x)
  <2> HIDE DEF Bad
  <2> QED
    BY <1>3 DEF GcdUpTo
<1>7. h[x] = GcdStep(h, x)
  <2> HIDE DEF Bad
  <2> QED
    BY <1>3 DEF GcdUpTo
<1> QED
  BY <1>5, <1>6, <1>7

(***************************************************************************)
(* The algorithm goes as far as any natural.                               *)
(***************************************************************************)
LEMMA GcdGoesOn ==
    \A n \in Nat : \E g : GcdUpTo(g, n)
<1> DEFINE G == {n \in Nat : \E g : GcdUpTo(g, n)}
<1>1. 0 \in G
  <2> DEFINE g == [b \in 0 .. 0 |-> [a \in Nat |-> a]]
  <2>1. \A b \in 0 .. 0 : GcdStep(g, b) = [a \in Nat |-> a]
    BY DEF GcdStep
  <2>2. GcdUpTo(g, 0)
    <3>1. [b \in 0 .. 0 |-> GcdStep(g, b)] = [b \in 0 .. 0 |-> [a \in Nat |-> a]]
      BY <2>1
    <3> QED
      BY <3>1 DEF GcdUpTo
  <2> HIDE DEF g
  <2> QED
    BY <2>2
<1>2. ASSUME NEW n \in Nat, n \in G PROVE n + 1 \in G
  <2>1. PICK g : GcdUpTo(g, n)
    BY <1>2
  <2> DEFINE h == [b \in 0 .. n + 1 |-> GcdStep(g, b)]
  <2>2. ASSUME NEW b \in 0 .. n PROVE h[b] = g[b]
    <3>1. b \in 0 .. n + 1
      OBVIOUS
    <3> QED
      BY <2>1, <3>1 DEF GcdUpTo
  <2>3. ASSUME NEW b \in 0 .. n + 1 PROVE GcdStep(g, b) = GcdStep(h, b)
    <3>1. ASSUME NEW a \in Nat, b # 0 PROVE g[a % b] = h[a % b]
      <4>1. a % b \in Nat /\ a % b < b
        BY <3>1, Remainder
      <4>2. a % b \in 0 .. n
        BY <4>1
      <4> HIDE DEF h
      <4> QED
        BY <2>2, <4>2
    <3> HIDE DEF h
    <3> QED
      BY <3>1 DEF GcdStep
  <2>4. h = [b \in 0 .. n + 1 |-> GcdStep(g, b)]
    OBVIOUS
  <2> HIDE DEF h
  <2>5. GcdUpTo(h, n + 1)
    BY <2>3, <2>4 DEF GcdUpTo
  <2> QED
    BY <2>5
<1> HIDE DEF G
<1>3. \A n \in Nat : n \in G
  BY <1>1, <1>2, NatSetInduction
<1> QED
  BY <1>3 DEF G

(***************************************************************************)
(* gcd is computed by Euclid's algorithm.                                  *)
(***************************************************************************)
LEMMA GcdAt ==
    \A b \in Nat : gcd[b] = GcdStep(gcd, b)
<1> DEFINE upTo(n) == CHOOSE g : GcdUpTo(g, n)
           f == [b \in Nat |-> upTo(b)[b]]
<1>1. \A n \in Nat : GcdUpTo(upTo(n), n)
  BY GcdGoesOn
<1>2. ASSUME NEW b \in Nat PROVE f[b] = GcdStep(f, b)
  <2>1. f[b] = GcdStep(upTo(b), b)
    <3>1. GcdUpTo(upTo(b), b)
      BY <1>1
    <3> HIDE DEF upTo
    <3> QED
      BY <3>1 DEF GcdUpTo
  <2>2. ASSUME NEW a \in Nat, b # 0 PROVE f[a % b] = upTo(b)[a % b]
    <3>1. a % b \in Nat /\ a % b < b
      BY <2>2, Remainder
    <3>2. GcdUpTo(upTo(b), b) /\ GcdUpTo(upTo(a % b), a % b)
      BY <1>1, <3>1
    <3> HIDE DEF upTo
    <3>3. a % b <= b /\ a % b \in 0 .. (a % b)
      BY <3>1
    <3>4. upTo(a % b)[a % b] = upTo(b)[a % b]
      BY <3>1, <3>2, <3>3, GcdAgree
    <3> QED
      BY <3>1, <3>4
  <2> HIDE DEF f, upTo
  <2>3. GcdStep(upTo(b), b) = GcdStep(f, b)
    BY <2>2 DEF GcdStep
  <2> QED
    BY <2>1, <2>3
<1>3. f = [b \in Nat |-> f[b]]
  OBVIOUS
<1> HIDE DEF f
<1>4. f = [b \in Nat |-> GcdStep(f, b)]
  BY <1>2, <1>3
<1>5. PICK p : p = gcd
  OBVIOUS
<1>6. p = [b \in Nat |-> GcdStep(p, b)]
  <2>1. \E g : g = [b \in Nat |-> GcdStep(g, b)]
    BY <1>4
  <2> QED
    BY <1>5, <2>1, Zenon DEF gcd, GcdStep
<1>7. \A b \in Nat : p[b] = GcdStep(p, b)
  BY <1>6
<1> QED
  BY <1>5, <1>7

\* d divides both, with those results
Divides(d, a, b) == \E x, y \in Nat : a = d * x /\ b = d * y

(***************************************************************************)
(* gcd divides both, and is zero for two zeroes only.                      *)
(***************************************************************************)
LEMMA GcdDivides ==
    ASSUME NEW b \in Nat, NEW a \in Nat
    PROVE  /\ gcd[b][a] \in Nat
           /\ Divides(gcd[b][a], a, b)
           /\ a > 0 \/ b > 0 => gcd[b][a] > 0
<1> DEFINE Holds(m, n) == /\ gcd[m][n] \in Nat
                          /\ Divides(gcd[m][n], n, m)
                          /\ n > 0 \/ m > 0 => gcd[m][n] > 0
           Bad == {m \in Nat : \E n \in Nat : ~Holds(m, n)}
<1> SUFFICES ASSUME Bad # {} PROVE FALSE
  OBVIOUS
<1>1. Bad \in SUBSET Nat
  OBVIOUS
<1>2. PICK m \in Bad : \A y \in Bad : m <= y
  <2> HIDE DEF Bad
  <2> QED
    BY <1>1, NatMinimum
<1>3. m \in Nat
  OBVIOUS
<1>4. PICK n \in Nat : ~Holds(m, n)
  BY <1>2
<1>5. gcd[m][n] = IF m = 0 THEN n ELSE gcd[n % m][m]
  BY <1>3, GcdAt DEF GcdStep
<1>6. CASE m = 0
  <2>1. gcd[m][n] = n
    BY <1>5, <1>6
  <2>2. n = n * 1 /\ m = n * 0
    BY <1>6
  <2>3. Divides(n, n, m)
    BY <2>2 DEF Divides
  <2> QED
    BY <1>4, <1>6, <2>1, <2>3
<1>7. CASE m # 0
  <2> DEFINE r == n % m
             q == n \div m
             d == gcd[r][m]
  <2>1. r \in Nat /\ r < m /\ q \in Nat /\ n = m * q + r
    BY <1>3, <1>7, Remainder
  <2>2. Holds(r, m)
    <3> HIDE DEF r, Holds
    <3>1. r \notin Bad
      <4> HIDE DEF Bad
      <4> QED
        BY <1>2, <1>3, <2>1
    <3> QED
      BY <1>3, <2>1, <3>1
  <2>3. d \in Nat /\ d > 0
    <3> HIDE DEF r
    <3> QED
      BY <1>3, <1>7, <2>2
  <2>4. PICK x, y \in Nat : m = d * x /\ r = d * y
    <3>1. Divides(d, m, r)
      BY <2>2
    <3> HIDE DEF d, r
    <3> QED
      BY <3>1 DEF Divides
  <2>5. gcd[m][n] = d
    BY <1>5, <1>7
  <2> HIDE DEF d, r, q
  <2>6. n = d * (x * q + y)
    <3>1. (d * x) * q + d * y = d * (x * q + y)
      BY <2>1, <2>3
    <3> QED
      BY <2>1, <2>4, <3>1
  <2>7. x * q + y \in Nat
    BY <2>1
  <2>8. Divides(d, n, m)
    BY <2>4, <2>6, <2>7 DEF Divides
  <2> QED
    BY <1>4, <2>3, <2>5, <2>8
<1> QED
  BY <1>6, <1>7

\* The price of amounts a and b in lowest terms is y / x
Reduces(a, b, d, x, y) ==
    /\ d \in Nat \ {0} /\ x \in Nat \ {0} /\ y \in Nat
    /\ a = d * x /\ b = d * y /\ Coprime(a, b) = Price(x, y)
    /\ b > 0 => y > 0

(***************************************************************************)
(* A price is reduced by what divides both of its amounts, so that its     *)
(* ratio is kept.                                                          *)
(***************************************************************************)
LEMMA CoprimeOf ==
    ASSUME NEW a \in Nat \ {0}, NEW b \in Nat
    PROVE  \E d, x, y : Reduces(a, b, d, x, y)
<1> DEFINE d == gcd[b][a]
<1>1. d \in Nat /\ d > 0 /\ Divides(d, a, b)
  BY GcdDivides
<1>2. PICK x, y \in Nat : a = d * x /\ b = d * y
  <2> HIDE DEF d
  <2> QED
    BY <1>1 DEF Divides
<1>3. Coprime(a, b) = Price(a \div d, b \div d)
  BY DEF Coprime
<1> HIDE DEF d
<1>4. x # 0 /\ (b > 0 => y > 0)
  <2>1. x = 0 => d * x = 0
    BY <1>1
  <2>2. y = 0 => d * y = 0
    BY <1>1
  <2> QED
    BY <1>2, <2>1, <2>2
<1>5. a \div d = x /\ b \div d = y
  <2>1. (d * x) \div d = x
    BY <1>1
  <2>2. (d * y) \div d = y
    BY <1>1
  <2> QED
    BY <1>2, <2>1, <2>2
<1>6. Reduces(a, b, d, x, y)
  BY <1>1, <1>2, <1>3, <1>4, <1>5 DEF Reduces
<1> QED
  BY <1>6

\* The exact sum of b / a and r / n is t / s
SumsTo(a, b, n, r, g, s, t) ==
    /\ g \in Nat \ {0} /\ s \in Nat \ {0} /\ t \in Nat
    /\ a * n = g * s /\ b * n + r * a = g * t
    /\ ExactSum(Price(a, b), Price(n, r)) = Price(s, t)
    /\ b > 0 \/ r > 0 => t > 0

(***************************************************************************)
(* The exact sum of b / a and r / n, reduced in part.                      *)
(***************************************************************************)
LEMMA ExactSumOf ==
    ASSUME NEW a \in Nat \ {0}, NEW b \in Nat, NEW n \in Nat \ {0}, NEW r \in Nat
    PROVE  \E g, s, t : SumsTo(a, b, n, r, g, s, t)
<1> DEFINE g == gcd[n][a]
<1>1. g \in Nat /\ g > 0 /\ Divides(g, a, n)
  BY GcdDivides
<1>2. PICK x, y \in Nat : a = g * x /\ n = g * y
  <2> HIDE DEF g
  <2> QED
    BY <1>1 DEF Divides
<1>3. /\ Price(a, b).amount = a /\ Price(a, b).quote = b
      /\ Price(n, r).amount = n /\ Price(n, r).quote = r
  BY DEF Price
<1>4. ExactSum(Price(a, b), Price(n, r))
        = Price((a \div g) * (n \div g) * g, b * (n \div g) + r * (a \div g))
  BY <1>3, Zenon DEF ExactSum
<1> HIDE DEF g
<1>5. a \div g = x /\ n \div g = y
  <2>1. (g * x) \div g = x
    BY <1>1
  <2>2. (g * y) \div g = y
    BY <1>1
  <2> QED
    BY <1>2, <2>1, <2>2
<1>6. x > 0 /\ y > 0
  <2>1. x = 0 => g * x = 0
    BY <1>1
  <2>2. y = 0 => g * y = 0
    BY <1>1
  <2> QED
    BY <1>2, <2>1, <2>2
<1>7. PICK s, t \in Nat : s = x * y * g /\ t = b * y + r * x
  BY <1>1
<1>8. s > 0
  <2>1. x * y > 0 /\ x * y \in Nat
    BY <1>6
  <2> QED
    BY <1>1, <1>7, <2>1
<1>9. a * n = g * s
  <2>1. (g * x) * (g * y) = g * (x * y * g)
    BY <1>1
  <2> QED
    BY <1>2, <1>7, <2>1
<1>10. b * n + r * a = g * t
  <2>1. b * (g * y) + r * (g * x) = g * (b * y + r * x)
    BY <1>1
  <2> QED
    BY <1>2, <1>7, <2>1
<1>11. b > 0 \/ r > 0 => t > 0
  <2>1. b * y \in Nat /\ r * x \in Nat
    OBVIOUS
  <2>2. b > 0 => b * y > 0
    BY <1>6
  <2>3. r > 0 => r * x > 0
    BY <1>6
  <2> QED
    BY <1>7, <2>1, <2>2, <2>3
<1>12. ExactSum(Price(a, b), Price(n, r)) = Price(s, t)
  BY <1>4, <1>5, <1>7
<1>13. SumsTo(a, b, n, r, g, s, t)
  BY <1>1, <1>8, <1>9, <1>10, <1>11, <1>12 DEF SumsTo
<1> QED
  BY <1>13

(***************************************************************************)
(* Price::add, exact or not, gives a price or panics.  Whatever it loses,  *)
(* the sum with a price r / n of at least 1 / FACTOR is not below the      *)
(* other price, b / a.                                                     *)
(***************************************************************************)
LEMMA PriceAddGrows ==
    ASSUME NEW a \in Nat \ {0}, NEW b \in Nat, NEW n \in Nat \ {0}, NEW r \in Nat,
           PriceAdd(Price(a, b), Price(n, r)) # Panic
    PROVE  \E x \in Nat \ {0}, y \in Nat :
               /\ PriceAdd(Price(a, b), Price(n, r)) = Price(x, y)
               /\ n <= FACTOR * r => b * x <= y * a
<1>0. FACTOR \in Nat \ {0}
  BY PricesAssumption
<1>1. Price(a, b) # Panic /\ Price(n, r) # Panic
  BY DEF Price, Panic
<1>2. /\ Price(a, b).amount = a /\ Price(a, b).quote = b
      /\ Price(n, r).amount = n /\ Price(n, r).quote = r
  BY DEF Price
<1>3a. PICK g, s, t : SumsTo(a, b, n, r, g, s, t)
  BY ExactSumOf
<1>3. /\ g \in Nat \ {0} /\ s \in Nat \ {0} /\ t \in Nat
      /\ a * n = g * s /\ b * n + r * a = g * t
      /\ ExactSum(Price(a, b), Price(n, r)) = Price(s, t)
  BY <1>3a DEF SumsTo
<1>4. Price(s, t).amount = s /\ Price(s, t).quote = t
  BY DEF Price
<1>5. CASE Fits(s) /\ Fits(t)
  <2>1. PriceAdd(Price(a, b), Price(n, r)) = Coprime(s, t)
    BY <1>1, <1>3, <1>4, <1>5 DEF PriceAdd
  <2>2a. PICK d, x, y : Reduces(s, t, d, x, y)
    BY <1>3, CoprimeOf
  <2>2. /\ d \in Nat \ {0} /\ x \in Nat \ {0} /\ y \in Nat
        /\ s = d * x /\ t = d * y /\ Coprime(s, t) = Price(x, y)
    BY <2>2a DEF Reduces
  <2>3. b * s <= t * a
    <3>1. b * (a * n) <= (b * n + r * a) * a
      <4>1. (b * n + r * a) * a = b * (a * n) + r * a * a
        OBVIOUS
      <4>2. r * a * a \in Nat /\ b * (a * n) \in Nat
        OBVIOUS
      <4> QED
        BY <4>1, <4>2
    <3>2. b * (g * s) = g * (b * s) /\ (g * t) * a = g * (t * a)
      BY <1>3
    <3>3. g * (b * s) <= g * (t * a)
      BY <1>3, <3>1, <3>2
    <3>4. PICK u, v \in Nat : u = b * s /\ v = t * a
      BY <1>3
    <3>5. g * u <= g * v => u <= v
      BY <1>3
    <3> QED
      BY <3>3, <3>4, <3>5
  <2>4. b * x <= y * a
    <3>1. b * (d * x) = d * (b * x) /\ (d * y) * a = d * (y * a)
      BY <2>2
    <3>2. d * (b * x) <= d * (y * a)
      BY <2>2, <2>3, <3>1
    <3>3. PICK u, v \in Nat : u = b * x /\ v = y * a
      BY <2>2
    <3>4. d * u <= d * v => u <= v
      BY <2>2
    <3> QED
      BY <3>2, <3>3, <3>4
  <2> QED
    BY <2>1, <2>2, <2>4
<1>6. CASE ~(Fits(s) /\ Fits(t))
  <2> DEFINE T == (b * FACTOR) \div a
             U == (r * FACTOR) \div n
  <2>1. /\ T \in Nat /\ b * FACTOR < (T + 1) * a
        /\ U \in Nat /\ r * FACTOR < (U + 1) * n
    <3>1. ASSUME NEW k \in Nat, NEW m \in Nat \ {0}
          PROVE  k \div m \in Nat /\ k < ((k \div m) + 1) * m
      <4>1. k % m < m /\ k = m * (k \div m) + (k % m) /\ k \div m \in Nat
        BY Remainder
      <4>2. ((k \div m) + 1) * m = m * (k \div m) + m
        BY <4>1
      <4>3. m * (k \div m) \in Nat /\ k % m \in Nat
        BY <4>1
      <4> QED
        BY <4>1, <4>2, <4>3
    <3>2. b * FACTOR \in Nat /\ r * FACTOR \in Nat
      BY <1>0
    <3> QED
      BY <3>1, <3>2
  <2>2. Total(FACTOR, Price(a, b)) = T /\ Total(FACTOR, Price(n, r)) = U
    BY <1>2 DEF Total, SafeMul
  <2>3. PriceAdd(Price(a, b), Price(n, r)) = LossyAdd(Price(a, b), Price(n, r))
    BY <1>1, <1>3, <1>4, <1>6 DEF PriceAdd
  <2>4. LossyAdd(Price(a, b), Price(n, r))
          = IF Fits(T + U) THEN Coprime(FACTOR, T + U) ELSE Panic
    BY <2>2 DEF LossyAdd
  <2> HIDE DEF T, U
  <2>5. PriceAdd(Price(a, b), Price(n, r)) = Coprime(FACTOR, T + U)
    BY <2>3, <2>4
  <2>6a. PICK d, x, y : Reduces(FACTOR, T + U, d, x, y)
    <3>1. T + U \in Nat
      BY <2>1
    <3> QED
      BY <1>0, <3>1, CoprimeOf
  <2>6. /\ d \in Nat \ {0} /\ x \in Nat \ {0} /\ y \in Nat
        /\ FACTOR = d * x /\ T + U = d * y /\ Coprime(FACTOR, T + U) = Price(x, y)
    BY <2>6a DEF Reduces
  <2>7. ASSUME n <= FACTOR * r PROVE b * x <= y * a
    <3>1. U >= 1
      <4> SUFFICES ASSUME U = 0 PROVE FALSE
        BY <2>1
      <4>1. r * FACTOR < n
        BY <2>1
      <4>2. r * FACTOR = FACTOR * r /\ FACTOR * r \in Nat
        BY <1>0
      <4> QED
        BY <2>7, <4>1, <4>2
    <3>2. (T + 1) * a <= (T + U) * a
      <4>1. (T + U) * a = (T + 1) * a + (U - 1) * a
        BY <2>1
      <4>2. (U - 1) * a \in Nat /\ (T + 1) * a \in Nat
        BY <2>1, <3>1
      <4> QED
        BY <4>1, <4>2
    <3>3. b * FACTOR <= (T + U) * a
      <4>1. b * FACTOR \in Nat /\ (T + 1) * a \in Nat /\ (T + U) * a \in Nat
        BY <1>0, <2>1
      <4> QED
        BY <2>1, <3>2, <4>1
    <3>4. b * (d * x) = d * (b * x) /\ (d * y) * a = d * (y * a)
      BY <2>6
    <3>5. d * (b * x) <= d * (y * a)
      BY <2>6, <3>3, <3>4
    <3>6. PICK u, v \in Nat : u = b * x /\ v = y * a
      BY <2>6
    <3>7. d * u <= d * v => u <= v
      BY <2>6
    <3> QED
      BY <3>5, <3>6, <3>7
  <2> QED
    BY <2>5, <2>6, <2>7
<1> QED
  BY <1>5, <1>6
=============================================================================
