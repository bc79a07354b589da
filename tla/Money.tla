------------------------------- MODULE Money -------------------------------
(***************************************************************************)
(* The arithmetic of prices: exact fractions rounded to cents that are     *)
(* kept in an integer of the machine's width (service/quotes.go, models/   *)
(* quotes.go).  A fraction is a numerator and a denominator; rates, grams, *)
(* minutes and watts are not negative, so neither is a fraction.           *)
(***************************************************************************)
EXTENDS Integers

CONSTANTS
  HalfRange,  \* 2^63: models.Money is an int64
  Whole       \* the basis points of 100 % (10000 in the code)

ASSUME HalfRangeAssumption == HalfRange \in Nat \ {0}
ASSUME WholeAssumption == Whole \in Nat \ {0}

MaxInt64 == HalfRange - 1

\* What is left of an integer in int64, two's complement: Int64() of a
\* big.Int, and every +, - and += of Money.
Int64(x) == ((x + HalfRange) % (2 * HalfRange)) - HalfRange

\* Variant: cuts the fraction of a cent.
NearestCut(n, d) == n \div d

\* The integer nearest to n / d, a half rounded up.
Nearest(n, d) == (n \div d) + (IF 2 * (n % d) >= d THEN 1 ELSE 0)

\* n / d cents as Money.  The fraction is exact, the result may not fit.
moneyFromRat(n, d) == Int64(Nearest(n, d))

\* Go's / and % truncate towards zero, so a negative amount is never raised.
divideMoney(value, divisor) ==
  IF value >= 0 THEN Nearest(value, divisor) ELSE -((-value) \div divisor)

\* The product is a big.Int; value is a stored total, thus not negative.
percentageOfMoney(value, basisPoints) == Int64(Nearest(value * basisPoints, Whole))

\* Variant: the tax is taken of the price before the discount.
FiguresTaxedFirst(price, discount, tax) ==
  LET off == percentageOfMoney(price, discount)
      iva == percentageOfMoney(price, tax)
  IN  [discountBasisPoints |-> discount, taxBasisPoints |-> tax,
       subtotal |-> price, discount |-> off, tax |-> iva, total |-> Int64(price - off + iva)]

\* The percentages that are accepted.
parsePercentage(basisPoints) == basisPoints \in 0..Whole

\* What GeneratePDF takes off a price, the tax on the rest, and what remains to pay.
Figures(price, discount, tax) ==
  LET off  == percentageOfMoney(price, discount)
      base == Int64(price - off)
      iva  == percentageOfMoney(base, tax)
  IN  [discountBasisPoints |-> discount, taxBasisPoints |-> tax,
       subtotal |-> price, discount |-> off, tax |-> iva, total |-> Int64(base + iva)]

Magnitude(x) == IF x < 0 THEN -x ELSE x

\* Figures that add up: the discount is within the subtotal, the total is what is left
\* after it with the tax on that, and it is within three half cents of the exact amount.
Agree(f) ==
  /\ f.discount \in 0..f.subtotal
  /\ f.total = f.subtotal - f.discount + f.tax
  /\ 2 * Magnitude(f.total * (Whole * Whole) -
                   f.subtotal * ((Whole - f.discountBasisPoints) * (Whole + f.taxBasisPoints)))
       <= 3 * (Whole * Whole)
=============================================================================
