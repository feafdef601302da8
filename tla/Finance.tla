------------------------------ MODULE Finance ------------------------------
(***************************************************************************)
(* The integer arithmetic of the `finance` package that the protocol's     *)
(* contracts share.  Amounts are naturals (u128 in the code, whose         *)
(* overflow reverts the transaction, but for prices, see Prices), percents *)
(* are permille units, every multiplication by a ratio rounds down.        *)
(***************************************************************************)
EXTENDS Integers

\* Percent::HUNDRED in its units, the permilles
HUNDRED == 1000

(***************************************************************************)
(* Fractionable::safe_mul: whole * parts / total, rounded down.  The code  *)
(* computes the product in a type of double width.                         *)
(***************************************************************************)
SafeMul(whole, parts, total) == (whole * parts) \div total

\* Percent::of
PercentOf(percent, amount) == SafeMul(amount, percent, HUNDRED)

\* Rational, e.g. an interest rate kept as nominator / denominator
Rational(nominator, denominator) == [nom |-> nominator, den |-> denominator]

\* Fraction::of for Rational
RationalOf(rational, amount) == SafeMul(amount, rational.nom, rational.den)

(***************************************************************************)
(* Percent::from_ratio: HUNDRED scaled by the ratio.  The result is held   *)
(* in 32 bits and a bigger one panics, so each use is guarded by           *)
(* FromRatioFits with the greatest number of units.                        *)
(***************************************************************************)
FromRatio(nominator, denominator) == SafeMul(HUNDRED, nominator, denominator)

FromRatioFits(nominator, denominator, maxUnits) ==
    FromRatio(nominator, denominator) <= maxUnits

(***************************************************************************)
(* A price is the ratio quote / amount.  The code keeps it in lowest       *)
(* terms; `total` depends on the ratio only, so the model does not reduce. *)
(***************************************************************************)
Price(amt, amt_quote) == [amount |-> amt, quote |-> amt_quote]

\* Price::identity
Identity == Price(1, 1)

\* None of an Option<Price>: every total at it is the default, zero
NoPrice == Price(1, 0)

\* Price::inv
Inv(price) == Price(price.quote, price.amount)

\* price::total
Total(of, price) == SafeMul(price.quote, of, price.amount)

\* Price::cmp
PriceLe(p, q) == p.quote * q.amount <= q.quote * p.amount
=============================================================================
