------------------------------- MODULE Prices -------------------------------
(***************************************************************************)
(* The arithmetic of prices, finance/src/price/mod.rs.  A price is kept in *)
(* lowest terms, so that equal prices are equal records.  Its amounts are  *)
(* of a fixed width.  A sum that does not fit it is made over again with   *)
(* each price rounded down to a unit of 1 / FACTOR; of a product that does *)
(* not fit it the lowest bits are dropped.  So a sum is rounded down, and  *)
(* a product either way.                                                   *)
(***************************************************************************)
EXTENDS Finance, FiniteSetsExt

CONSTANTS
    AmountBits,     \* Amount::BITS, 128
    FACTOR          \* of lossy_add, 10^18

ASSUME PricesAssumption ==
    /\ AmountBits \in Nat \ {0}
    /\ FACTOR \in Nat \ {0}

\* The powers of two that an amount is shifted by
pow2[n \in 0 .. AmountBits] == IF n = 0 THEN 1 ELSE 2 * pow2[n - 1]

\* In the width of Amount
Amounts == pow2[AmountBits]
Fits(n) == n < Amounts

\* The outcome of an operation that panics, and with it the transaction
Panic == Price(0, 0)

\* gcd::binary_u128
gcd[b \in Nat] == [a \in Nat |-> IF b = 0 THEN a ELSE gcd[a % b][b]]

\* Price::new_inner over Coin::into_coprime_with
Coprime(amt, amt_quote) ==
    LET d == gcd[amt_quote][amt] IN Price(amt \div d, amt_quote \div d)

\* Price::precondition_check
Positive(price) == price.amount > 0 /\ price.quote > 0

----------------------------------------------------------------------------
\* Price::checked_add, past the check that the amounts of the sum fit
ExactSum(p, q) ==
    LET g  == gcd[q.amount][p.amount]
        a1 == p.amount \div g
        c1 == q.amount \div g
    IN  Price(a1 * c1 * g, p.quote * c1 + q.quote * a1)

(***************************************************************************)
(* Price::lossy_add.  The sum of two prices below 1 / FACTOR is a price of *)
(* zero in a build without debug assertions, as the production one is.     *)
(***************************************************************************)
LossyAdd(p, q) ==
    LET sum == Total(FACTOR, p) + Total(FACTOR, q)
    IN  IF Fits(sum) THEN Coprime(FACTOR, sum) ELSE Panic

\* Price::add.  A zero price is neutral
PriceAdd(p, q) ==
    IF p = Panic \/ q = Panic THEN Panic
    ELSE LET sum == ExactSum(p, q)
         IN  IF Fits(sum.amount) /\ Fits(sum.quote)
             THEN Coprime(sum.amount, sum.quote)
             ELSE LossyAdd(p, q)

\* What a product is scaled down by, to half of its bits at most
Scales == {pow2[e] : e \in 0 .. AmountBits}

\* The least scale at which both amounts fit, by the greater bits_above_max
ScaleOf(amt, amt_quote) ==
    CHOOSE scale \in Scales :
        /\ amt < Amounts * scale /\ amt_quote < Amounts * scale
        /\ \/ scale = 1
           \/ 2 * amt >= Amounts * scale \/ 2 * amt_quote >= Amounts * scale

\* trim_down of both amounts, which asserts that something is left of each
TrimDown(amt, amt_quote) ==
    LET scale == ScaleOf(amt, amt_quote)
    IN  IF amt < scale \/ amt_quote < scale THEN Panic
        ELSE Coprime(amt \div scale, amt_quote \div scale)

(***************************************************************************)
(* Price::lossy_mul by the ratio parts / total.  The amount and the parts, *)
(* the quote and the total are made coprime before they are multiplied.    *)
(***************************************************************************)
LossyMul(price, parts, total) ==
    IF price = Panic THEN Panic
    ELSE LET byParts == Coprime(price.amount, parts)
             byTotal == Coprime(price.quote, total)
         IN  TrimDown(byParts.amount * byTotal.quote,
                      byTotal.amount * byParts.quote)

\* Fraction::of for Percent, of a price
PercentOfPrice(percent, price) == LossyMul(price, percent, HUNDRED)

\* Price::mul.  The price of C in QuoteC by the price of QuoteC
PriceMul(p, q) ==
    IF p = Panic \/ q = Panic THEN Panic
    ELSE LossyMul(Coprime(p.amount, q.quote), p.quote, q.amount)
=============================================================================
