------------------------ MODULE QuoteDocument_proofs ------------------------
(***************************************************************************)
(* What the rounding of prices guarantees for every amount, percentage and *)
(* width, where a run sees a few; that a stored quote is priced exactly    *)
(* and adds up, whatever its concepts; that the figures of every PDF do;   *)
(* that its pages read from top to bottom, whatever the texts, and that no *)
(* text could be set in fewer lines.                                       *)
(***************************************************************************)
EXTENDS QuoteDocument, WellFoundedInduction, TLAPS

-----------------------------------------------------------------------------
(***************************************************************************)
(* Rounding and percentages.                                               *)
(***************************************************************************)
\* Division as Go's big.Int and TLC do it, for amounts that are not negative.
LEMMA Division ==
  ASSUME NEW n \in Nat, NEW d \in Nat \ {0}
  PROVE  /\ n \div d \in Nat
         /\ n % d \in 0..(d - 1)
         /\ n = d * (n \div d) + (n % d)
  BY SMTT(30)

\* An amount that fits is not changed.
LEMMA Int64Fits ==
  ASSUME NEW x \in -HalfRange..MaxInt64
  PROVE  Int64(x) = x
<1>1. HalfRange \in Nat \ {0}
  BY HalfRangeAssumption
<1>2. x + HalfRange \in 0..(2 * HalfRange - 1)
  BY <1>1 DEF MaxInt64
<1>3. (x + HalfRange) % (2 * HalfRange) = x + HalfRange
  BY <1>1, <1>2, SMTT(30)
<1> QED
  BY <1>1, <1>3 DEF Int64, MaxInt64

\* Rounding to cents (moneyFromRat, divideMoney, percentageOfMoney) is off by half a cent
\* at most, and a half goes up.
THEOREM NearestIsNearest ==
  ASSUME NEW n \in Nat, NEW d \in Nat \ {0}
  PROVE  /\ Nearest(n, d) \in Nat
         /\ 2 * (d * Nearest(n, d) - n) <= d
         /\ 2 * (n - d * Nearest(n, d)) < d
<1> DEFINE q == n \div d
           r == n % d
<1>1. q \in Nat /\ r \in 0..(d - 1) /\ n = d * q + r
  BY Division
<1>2. d * (q + 1) = d * q + d
  BY <1>1
<1>3. CASE 2 * r >= d
  <2>1. Nearest(n, d) = q + 1
    BY <1>3, <1>1 DEF Nearest
  <2> QED
    BY <2>1, <1>1, <1>2, <1>3
<1>4. CASE ~(2 * r >= d)
  <2>1. Nearest(n, d) = q
    BY <1>4, <1>1 DEF Nearest
  <2> QED
    BY <2>1, <1>1, <1>4
<1> QED
  BY <1>3, <1>4
\* What is taken by a percentage is nearest to the exact part, and within the amount: a
\* discount never exceeds the price, so the taxed base is not negative.
THEOREM PercentageWithin ==
  ASSUME NEW value \in 0..MaxInt64, NEW basisPoints \in 0..Whole
  PROVE  /\ percentageOfMoney(value, basisPoints) \in 0..value
         /\ 2 * (Whole * percentageOfMoney(value, basisPoints) - value * basisPoints) <= Whole
         /\ 2 * (value * basisPoints - Whole * percentageOfMoney(value, basisPoints)) <= Whole
<1> DEFINE q == Nearest(value * basisPoints, Whole)
<1>1. value \in Nat /\ basisPoints \in Nat /\ Whole \in Nat \ {0} /\ HalfRange \in Nat \ {0}
  BY HalfRangeAssumption, WholeAssumption DEF MaxInt64
<1>2. value * basisPoints \in Nat
  BY <1>1
<1>3. /\ q \in Nat
      /\ 2 * (Whole * q - value * basisPoints) <= Whole
      /\ 2 * (value * basisPoints - Whole * q) < Whole
  BY <1>1, <1>2, NearestIsNearest
<1>4. value * basisPoints <= value * Whole
  BY <1>1, SMTT(30)
<1>5. q <= value
  <2>1. SUFFICES ASSUME q >= value + 1 PROVE FALSE
    BY <1>1, <1>3
  <2>2. Whole * q >= Whole * (value + 1)
    BY <2>1, <1>1, <1>3, SMTT(30)
  <2>3. Whole * (value + 1) = value * Whole + Whole
    BY <1>1
  <2> QED
    BY <2>2, <2>3, <1>1, <1>2, <1>3, <1>4, SMTT(30)
<1>6. percentageOfMoney(value, basisPoints) = q
  BY <1>1, <1>3, <1>5, Int64Fits DEF percentageOfMoney, MaxInt64
<1> QED
  BY <1>1, <1>2, <1>3, <1>5, <1>6

\* Discount and tax are rounded one after the other; the errors of both add to three half
\* cents at most.  Nothing is cut as long as twice the price fits.
THEOREM FiguresAgree ==
  ASSUME NEW price \in Nat, 2 * price <= MaxInt64,
         NEW d \in 0..Whole, NEW t \in 0..Whole
  PROVE  Agree(Figures(price, d, t))
<1> DEFINE off  == percentageOfMoney(price, d)
           base == price - off
           iva  == percentageOfMoney(base, t)
           e1   == Whole * off - price * d
           e2   == Whole * iva - base * t
<1>0. Whole \in Nat \ {0} /\ HalfRange \in Nat \ {0} /\ d \in Nat /\ t \in Nat
  BY HalfRangeAssumption, WholeAssumption
<1>1. off \in 0..price /\ 2 * e1 <= Whole /\ -(2 * e1) <= Whole
  <2>1. price \in 0..MaxInt64
    BY <1>0 DEF MaxInt64
  <2>2. price * d \in Int /\ Whole * off \in Int
    BY <2>1, <1>0, PercentageWithin
  <2> QED
    BY <2>1, <2>2, <1>0, PercentageWithin
<1>2. base \in 0..price /\ base \in 0..MaxInt64
  BY <1>0, <1>1 DEF MaxInt64
<1>3. iva \in 0..base /\ 2 * e2 <= Whole /\ -(2 * e2) <= Whole
  <2> HIDE DEF base
  <2>1. /\ iva \in 0..base
        /\ 2 * (Whole * iva - base * t) <= Whole
        /\ 2 * (base * t - Whole * iva) <= Whole
    BY <1>2, PercentageWithin
  <2>2. base * t \in Int /\ Whole * iva \in Int
    BY <2>1, <1>2, <1>0
  <2> QED
    BY <2>1, <2>2, <1>0
<1>4. Int64(base) = base /\ Int64(base + iva) = base + iva
  <2>1. base \in -HalfRange..MaxInt64 /\ base + iva \in -HalfRange..MaxInt64
    BY <1>0, <1>2, <1>3 DEF MaxInt64
  <2> QED
    BY <2>1, Int64Fits
<1>5. Figures(price, d, t) =
        [discountBasisPoints |-> d, taxBasisPoints |-> t,
         subtotal |-> price, discount |-> off, tax |-> iva, total |-> base + iva]
  BY <1>4 DEF Figures
<1> DEFINE exact == price * ((Whole - d) * (Whole + t))
           error == (base + iva) * (Whole * Whole) - exact
<1>6. error = Whole * e2 - (Whole + t) * e1
  <2>1. off \in Int /\ iva \in Int /\ price \in Int /\ Whole \in Int /\ d \in Int /\ t \in Int
    BY <1>0, <1>1, <1>3
  <2> QED
    BY <2>1, SMTT(60)
<1>7. e1 \in Int /\ e2 \in Int
  BY <1>0, <1>1, <1>2, <1>3
<1>8. 2 * (Whole * e2) <= Whole * Whole /\ -(2 * (Whole * e2)) <= Whole * Whole
  BY <1>0, <1>3, <1>7, SMTT(60)
<1>9. 2 * ((Whole + t) * e1) <= 2 * (Whole * Whole) /\ -(2 * ((Whole + t) * e1)) <= 2 * (Whole * Whole)
  <2> DEFINE s == Whole + t
  <2>1. s \in Nat /\ s <= 2 * Whole
    BY <1>0
  <2>2. s * Whole <= (2 * Whole) * Whole
    BY <2>1, <1>0, SMTT(60)
  <2>3. s * (2 * e1) <= s * Whole /\ s * (-(2 * e1)) <= s * Whole
    BY <2>1, <1>0, <1>1, <1>7, SMTT(60)
  <2>4. s * (2 * e1) = 2 * (s * e1) /\ s * (-(2 * e1)) = -(2 * (s * e1))
    BY <2>1, <1>7, SMTT(60)
  <2>5. (2 * Whole) * Whole = 2 * (Whole * Whole)
    BY <1>0, SMTT(60)
  <2>6. s * e1 \in Int /\ s * Whole \in Int /\ Whole * Whole \in Int
    BY <2>1, <1>0, <1>7
  <2> HIDE DEF s, e1
  <2> QED
    BY <2>2, <2>3, <2>4, <2>5, <2>6 DEF s
<1>10. 2 * Magnitude(error) <= 3 * (Whole * Whole)
  <2>1. Whole * e2 \in Int /\ (Whole + t) * e1 \in Int /\ Whole * Whole \in Int
    BY <1>0, <1>7
  <2> HIDE DEF e1, e2, error
  <2> QED
    BY <2>1, <1>6, <1>8, <1>9 DEF Magnitude
<1> QED
  BY <1>0, <1>1, <1>2, <1>3, <1>5, <1>10 DEF Agree

-----------------------------------------------------------------------------
(***************************************************************************)
(* The figures of a document.                                              *)
(***************************************************************************)
Unpriced == {"price", "refused"}
Undrawn == Unpriced \cup {"stored"}

\* What FiguresAddUp needs: a stored total is an amount its column takes, which is far
\* from the limits of int64, and a document is drawn with the figures of that total.
FiguresInv ==
  /\ totals.price \in Int /\ totals.cost \in Int
  /\ pc \notin Unpriced => totals.price \in 0..(ColumnLimit - 1)
  /\ pc \in Undrawn => page = 0
  /\ pc \notin Undrawn =>
       \E d \in 0..Whole, t \in 0..Whole : figures = Figures(totals.price, d, t)

LEMMA Int64Type ==
  ASSUME NEW x \in Int
  PROVE  Int64(x) \in Int
  BY HalfRangeAssumption, SMTT(30) DEF Int64

LEMMA NearestType ==
  ASSUME NEW n \in Nat, NEW d \in Nat \ {0}
  PROVE  moneyFromRat(n, d) \in Int
  BY NearestIsNearest, Int64Type DEF moneyFromRat

LEMMA CalculateType ==
  ASSUME NEW item \in Items
  PROVE  calculate(item).cost \in Int /\ calculate(item).price \in Int
<1> DEFINE M == moneyFromRat(item.material, item.unit)
           C == moneyFromRat(item.machine, item.unit)
           S == moneyFromRat(item.sale, item.unit)
           E == moneyFromRat(item.electricity, item.unit)
<1>1. M \in Int /\ C \in Int /\ S \in Int /\ E \in Int /\ item.preparation \in Int
  BY ItemsAssumption, NearestType
<1>2. calculate(item).cost = Int64(M + C + E + item.preparation)
  BY DEF calculate
<1>3. calculate(item).price = Int64(M + S + E + item.preparation)
  BY DEF calculate
<1> HIDE DEF M, C, S, E
<1>4. M + C + E + item.preparation \in Int /\ M + S + E + item.preparation \in Int
  BY <1>1
<1> QED
  BY <1>2, <1>3, <1>4, Int64Type

LEMMA FiguresInit == Init => FiguresInv
  BY DEF Init, FiguresInv, Unpriced, Undrawn

LEMMA FiguresNext == FiguresInv /\ [Next]_vars => FiguresInv'
<1> SUFFICES ASSUME FiguresInv, [Next]_vars PROVE FiguresInv'
  OBVIOUS
<1> USE DEF FiguresInv, Unpriced, Undrawn
<1>1. ASSUME NEW item \in Items, AddConcept(item) PROVE FiguresInv'
  <2> DEFINE c == calculate(item)
  <2>1. c.cost \in Int /\ c.price \in Int
    BY CalculateType
  <2>2. Added(totals, c).price \in Int /\ Added(totals, c).cost \in Int
    <3> HIDE DEF c
    <3>1. totals.cost + c.cost \in Int /\ totals.price + c.price \in Int
      BY <2>1
    <3> QED
      BY <3>1, Int64Type DEF Added
  <2>3. totals' = Added(totals, c) \/ totals' = totals
    BY <1>1 DEF AddConcept
  <2>4. pc = "price" /\ pc' \in Unpriced /\ page' = page
    BY <1>1 DEF AddConcept
  <2> QED
    BY <2>2, <2>3, <2>4
<1>2. CASE Create
  BY <1>2, ColumnLimitAssumption DEF Create, Storable
<1>3. ASSUME NEW option \in Options, GeneratePDF(option) PROVE FiguresInv'
  <2>1. option.discount \in 0..Whole /\ option.tax \in 0..Whole
    BY <1>3 DEF GeneratePDF, parsePercentage
  <2>2. figures' = Figures(totals'.price, option.discount, option.tax)
    BY <1>3 DEF GeneratePDF
  <2>3. pc = "stored" /\ pc' = "information" /\ totals' = totals
    BY <1>3 DEF GeneratePDF
  <2> QED
    BY <2>1, <2>2, <2>3
<1>4. CASE DrawRow \/ DrawTotals \/ DrawNoteLine \/ DrawSignature \/ Fail
           \/ (\E customer \in CustomerTexts, payment \in PaymentTexts :
                 DrawInformation(customer, payment))
           \/ (\E text \in NoteTexts : BeginParagraph(text))
  <2>1. pc \notin Undrawn /\ pc' \notin Undrawn /\ UNCHANGED <<totals, figures>>
    BY <1>4 DEF DrawRow, DrawTotals, DrawNoteLine, DrawSignature, Fail, DrawInformation,
                BeginParagraph
  <2> QED
    BY <2>1
<1>5. CASE UNCHANGED vars
  BY <1>5 DEF vars
<1> QED
  BY <1>1, <1>2, <1>3, <1>4, <1>5 DEF Next

\* Subtotal, discount, tax and TOTAL of a PDF agree with each other and with the total that
\* is stored, whatever was quoted and whatever percentages were asked for (GeneratePDF).
THEOREM FiguresAlwaysAddUp == Spec => []FiguresAddUp
<1>1. FiguresInv => FiguresAddUp
  <2> SUFFICES ASSUME FiguresInv, page > 0 PROVE figures.subtotal = totals.price /\ Agree(figures)
    BY DEF FiguresAddUp
  <2>1. pc \notin Undrawn
    BY DEF FiguresInv
  <2>2. PICK d \in 0..Whole, t \in 0..Whole : figures = Figures(totals.price, d, t)
    BY <2>1 DEF FiguresInv
  <2>3. totals.price \in Nat /\ 2 * totals.price <= MaxInt64
    BY <2>1, ColumnLimitAssumption, HalfRangeAssumption
    DEF FiguresInv, Undrawn, Unpriced, MaxInt64
  <2>4. figures.subtotal = totals.price
    BY <2>2 DEF Figures
  <2> QED
    BY <2>2, <2>3, <2>4, FiguresAgree
<1> QED
  BY <1>1, FiguresInit, FiguresNext, PTL DEF Spec
-----------------------------------------------------------------------------
(***************************************************************************)
(* Prices.                                                                 *)
(***************************************************************************)
\* One turn too far comes out negative, or too small.
LEMMA Int64Wraps ==
  ASSUME NEW x \in HalfRange..(3 * HalfRange - 1)
  PROVE  Int64(x) = x - 2 * HalfRange
<1>1. HalfRange \in Nat \ {0}
  BY HalfRangeAssumption
<1>2. x + HalfRange - 2 * HalfRange \in 0..(2 * HalfRange - 1)
  BY <1>1
<1>3. (x + HalfRange) % (2 * HalfRange) = x + HalfRange - 2 * HalfRange
  BY <1>1, <1>2, SMTT(30)
<1> QED
  BY <1>1, <1>3 DEF Int64

\* A fraction below the limit is rounded without a cut.
LEMMA RoundedFits ==
  ASSUME NEW n \in Nat, NEW d \in Nat \ {0}, n < d * MaxInt64
  PROVE  moneyFromRat(n, d) = Nearest(n, d) /\ Nearest(n, d) \in 0..MaxInt64
<1>1. Nearest(n, d) \in Nat /\ 2 * (d * Nearest(n, d) - n) <= d
  BY NearestIsNearest
<1>2. MaxInt64 \in Nat
  BY HalfRangeAssumption DEF MaxInt64
<1>3. Nearest(n, d) <= MaxInt64
  <2>1. SUFFICES ASSUME Nearest(n, d) >= MaxInt64 + 1 PROVE FALSE
    BY <1>1, <1>2
  <2>2. d * Nearest(n, d) >= d * (MaxInt64 + 1)
    BY <2>1, <1>1, <1>2, SMTT(30)
  <2>3. d * (MaxInt64 + 1) = d * MaxInt64 + d
    BY <1>2
  <2>4. d * Nearest(n, d) \in Int /\ d * MaxInt64 \in Int
    BY <1>1, <1>2
  <2> QED
    BY <2>2, <2>3, <2>4, <1>1
<1>4. Nearest(n, d) \in -HalfRange..MaxInt64
  BY <1>1, <1>2, <1>3, HalfRangeAssumption DEF MaxInt64
<1> QED
  BY <1>1, <1>3, <1>4, Int64Fits DEF moneyFromRat

\* One that rounds to the limit itself is cut to a negative amount.
LEMMA CutIsNegative ==
  ASSUME NEW n \in Nat, NEW d \in Nat \ {0}, n < d * HalfRange,
         moneyFromRat(n, d) >= 0
  PROVE  moneyFromRat(n, d) = Nearest(n, d)
<1>1. Nearest(n, d) \in Nat /\ 2 * (d * Nearest(n, d) - n) <= d
  BY NearestIsNearest
<1>2. HalfRange \in Nat \ {0}
  BY HalfRangeAssumption
<1>3. Nearest(n, d) <= HalfRange
  <2>1. SUFFICES ASSUME Nearest(n, d) >= HalfRange + 1 PROVE FALSE
    BY <1>1, <1>2
  <2>2. d * Nearest(n, d) >= d * (HalfRange + 1)
    BY <2>1, <1>1, <1>2, SMTT(30)
  <2>3. d * (HalfRange + 1) = d * HalfRange + d
    BY <1>2
  <2>4. d * Nearest(n, d) \in Int /\ d * HalfRange \in Int
    BY <1>1, <1>2
  <2> QED
    BY <2>2, <2>3, <2>4, <1>1
<1>4. CASE Nearest(n, d) = HalfRange
  <2>1. HalfRange \in HalfRange..(3 * HalfRange - 1)
    BY <1>2
  <2>2. moneyFromRat(n, d) = HalfRange - 2 * HalfRange
    BY <1>4, <2>1, Int64Wraps DEF moneyFromRat
  <2> QED
    BY <2>2, <1>2
<1>5. CASE Nearest(n, d) # HalfRange
  <2>1. Nearest(n, d) \in -HalfRange..MaxInt64
    BY <1>1, <1>2, <1>3, <1>5 DEF MaxInt64
  <2> QED
    BY <2>1, Int64Fits DEF moneyFromRat
<1> QED
  BY <1>4, <1>5

\* The error of rounding, in both directions.
LEMMA RoundingError ==
  ASSUME NEW n \in Nat, NEW d \in Nat \ {0}, NEW q, q = Nearest(n, d)
  PROVE  q \in Nat /\ 2 * (d * q - n) <= d /\ -(2 * (d * q - n)) <= d
<1>1. q \in Nat /\ 2 * (d * q - n) <= d /\ 2 * (n - d * q) < d
  BY NearestIsNearest
<1>2. d * q \in Int
  BY <1>1
<1> QED
  BY <1>1, <1>2

\* What the table lets in of a concept.
ConceptStored(c) ==
  \A a \in c.amounts \cup {c.cost, c.price, c.perPiece} : Storable(a)

\* The price of a stored concept and that of a piece, both rounded, are near the exact ones.
LEMMA StoredPriceIsNear ==
  ASSUME NEW item \in Items, NEW c, c = calculate(item), ConceptStored(c),
         item.electricity < item.unit * HalfRange
  PROVE  /\ 2 * Magnitude(c.price * item.unit - ExactPrice(item)) <= 3 * item.unit
         /\ 2 * Magnitude(c.perPiece * item.pieces - c.price) <= item.pieces
<1> DEFINE u == item.unit
           M == moneyFromRat(item.material, u)
           S == moneyFromRat(item.sale, u)
           E == moneyFromRat(item.electricity, u)
           p == item.preparation
           sum == M + S + E + p
<1>0. /\ u \in Nat \ {0} /\ item.pieces \in Nat \ {0} /\ item.material \in Nat
      /\ item.machine \in Nat /\ item.sale \in Nat /\ item.electricity \in Nat /\ p \in Nat
      /\ item.material + item.machine + item.sale + p * u < u * MaxInt64
      /\ HalfRange \in Nat \ {0} /\ MaxInt64 \in Nat /\ MaxInt64 = HalfRange - 1
      /\ ColumnLimit \in Nat /\ 2 * ColumnLimit <= HalfRange
  BY ItemsAssumption, HalfRangeAssumption, ColumnLimitAssumption DEF MaxInt64
<1>1. p * u \in Nat /\ u * MaxInt64 \in Nat
  BY <1>0
<1>2. /\ c.price = Int64(sum) /\ c.perPiece = divideMoney(c.price, item.pieces)
      /\ E \in c.amounts
  BY DEF calculate
<1>3. Storable(c.price) /\ Storable(E)
  BY <1>2 DEF ConceptStored
<1>4. M = Nearest(item.material, u) /\ S = Nearest(item.sale, u)
  BY <1>0, <1>1, RoundedFits
<1>5. E = Nearest(item.electricity, u)
  <2>1. moneyFromRat(item.electricity, u) >= 0
    BY <1>3 DEF Storable
  <2> QED
    BY <2>1, <1>0, CutIsNegative
<1> HIDE DEF M, S, E
<1> DEFINE eM == u * M - item.material
           eS == u * S - item.sale
           eE == u * E - item.electricity
<1>6. M \in Nat /\ 2 * eM <= u /\ -(2 * eM) <= u
  BY <1>0, <1>4, RoundingError
<1>7. S \in Nat /\ 2 * eS <= u /\ -(2 * eS) <= u
  BY <1>0, <1>4, RoundingError
<1>8. E \in Nat /\ 2 * eE <= u /\ -(2 * eE) <= u
  BY <1>0, <1>5, RoundingError
<1>9. u * M \in Int /\ u * S \in Int /\ u * E \in Int /\ eM \in Int /\ eS \in Int /\ eE \in Int
  BY <1>0, <1>6, <1>7, <1>8
<1>10. M + S + p <= MaxInt64
  <2>1. u * (M + S + p) = u * M + u * S + p * u
    BY <1>0, <1>6, <1>7, SMTT(30)
  <2>2. u * (M + S + p) < u * MaxInt64 + u
    <3> HIDE DEF u
    <3> QED
      BY <2>1, <1>0, <1>1, <1>6, <1>7, <1>9
  <2>3. u * MaxInt64 + u = u * (MaxInt64 + 1)
    BY <1>0, SMTT(30)
  <2>4. SUFFICES ASSUME M + S + p >= MaxInt64 + 1 PROVE FALSE
    BY <1>0, <1>6, <1>7
  <2>5. u * (M + S + p) >= u * (MaxInt64 + 1)
    BY <2>4, <1>0, <1>6, <1>7, SMTT(30)
  <2>6. u * (M + S + p) \in Int /\ u * (MaxInt64 + 1) \in Int
    BY <1>0, <1>6, <1>7
  <2> QED
    BY <2>2, <2>3, <2>5, <2>6
<1>11. c.price = sum /\ sum \in Nat
  <2>1. E < ColumnLimit
    BY <1>3 DEF Storable
  <2>2. sum \in Nat /\ sum < 2 * HalfRange
    BY <2>1, <1>0, <1>6, <1>7, <1>8, <1>10
  <2>3. CASE sum >= HalfRange
    <3>1. sum \in HalfRange..(3 * HalfRange - 1)
      BY <2>2, <2>3, <1>0
    <3> HIDE DEF sum
    <3>2. c.price = sum - 2 * HalfRange
      BY <3>1, <1>2, Int64Wraps
    <3> QED
      BY <3>2, <2>2, <1>0, <1>3 DEF Storable
  <2>4. CASE sum < HalfRange
    <3>1. sum \in -HalfRange..MaxInt64
      BY <2>2, <2>4, <1>0
    <3> HIDE DEF sum
    <3> QED
      BY <3>1, <2>2, <1>2, Int64Fits
  <2> QED
    BY <2>2, <2>3, <2>4, <1>0
<1>12. c.price * u - ExactPrice(item) = eM + eS + eE
  <2>1. sum * u = u * M + u * S + u * E + p * u
    BY <1>0, <1>6, <1>7, <1>8, SMTT(30)
  <2> QED
    BY <2>1, <1>0, <1>1, <1>9, <1>11 DEF ExactPrice
<1>13. 2 * Magnitude(c.price * u - ExactPrice(item)) <= 3 * u
  <2> HIDE DEF eM, eS, eE, u
  <2> QED
    BY <1>0, <1>6, <1>7, <1>8, <1>9, <1>12 DEF Magnitude
<1>14. 2 * Magnitude(c.perPiece * item.pieces - c.price) <= item.pieces
  <2> DEFINE k == item.pieces
             q == c.perPiece
  <2>1. q = Nearest(c.price, k)
    BY <1>2, <1>11, <1>0 DEF divideMoney
  <2>2. /\ q \in Nat /\ 2 * (k * q - c.price) <= k /\ 2 * (c.price - k * q) < k
    BY <2>1, <1>0, <1>11, NearestIsNearest
  <2>3. k * q = q * k /\ k * q \in Int
    BY <2>2, <1>0
  <2> HIDE DEF k, q, sum
  <2>4. 2 * Magnitude(q * k - c.price) <= k
    BY <2>2, <2>3, <1>0, <1>11 DEF Magnitude, k
  <2> QED
    BY <2>4 DEF k, q
<1> QED
  BY <1>13, <1>14
-----------------------------------------------------------------------------
(***************************************************************************)
(* Folds.  Nothing is assumed of induction but that a set of numbers has a *)
(* least one.                                                              *)
(***************************************************************************)
LEMMA LeastNumber ==
  ASSUME NEW T \in SUBSET Nat, T # {}
  PROVE  \E x \in T : \A i \in T : x <= i
<1> DEFINE R == OpToRel(<, Nat)
<1>1. IsWellFoundedOn(R, Nat)
  BY NatLessThanWellFounded
<1>2. \A i, j \in Nat : i < j => <<i, j>> \in R
  BY DEF OpToRel
<1> HIDE DEF R
<1>3. PICK x \in T : \A i \in T : ~ (<<i, x>> \in R)
  BY <1>1, WFMin
<1>4. \A i \in T : i \in Nat /\ x \in Nat /\ ~(i < x)
  BY <1>2, <1>3
<1> QED
  BY <1>4

\* What holds of 0, and of the number after one of which it holds, holds up to n.
LEMMA CountingUp ==
  ASSUME NEW n \in Nat, NEW G, 0 \in G,
         \A k \in 0..(n - 1) : k \in G => k + 1 \in G
  PROVE  \A k \in 0..n : k \in G
<1> DEFINE T == {k \in 0..n : k \notin G}
<1>1. SUFFICES ASSUME T # {} PROVE FALSE
  OBVIOUS
<1>2. T \in SUBSET Nat
  OBVIOUS
<1>3. PICK x \in T : \A i \in T : x <= i
  <2> HIDE DEF T
  <2> QED
    BY <1>1, <1>2, LeastNumber
<1>4. x # 0 /\ x \in 0..n
  OBVIOUS
<1>5. x - 1 \in 0..(n - 1) /\ x - 1 \in 0..n /\ ~(x <= x - 1) /\ (x - 1) + 1 = x
  BY <1>4
<1>6. x - 1 \in G
  BY <1>3, <1>5
<1>7. x \in G
  BY <1>5, <1>6
<1> QED
  BY <1>7

\* A set of numbers up to n has a greatest one.
LEMMA GreatestNumber ==
  ASSUME NEW n \in Nat, NEW T \in SUBSET (1..n), T # {}
  PROVE  Max(T) \in T /\ \A i \in T : i <= Max(T)
<1>0. \A i \in T : i \in Int
  OBVIOUS
<1> DEFINE D == {n - i : i \in T}
<1>1. D \in SUBSET Nat /\ D # {}
  <2>1. \A i \in T : n - i \in Nat
    OBVIOUS
  <2>2. D # {}
    OBVIOUS
  <2> QED
    BY <2>1, <2>2
<1>2. PICK x \in D : \A i \in D : x <= i
  <2> HIDE DEF D
  <2> QED
    BY <1>1, LeastNumber
<1>3. PICK m \in T : x = n - m
  OBVIOUS
<1>4. \A i \in T : n - i \in D
  OBVIOUS
<1> HIDE DEF D
<1>6. \A i \in T : m >= i
  <2> TAKE i \in T
  <2>1. x <= n - i
    BY <1>2, <1>4
  <2> QED
    BY <2>1, <1>0, <1>3
<1>7. Max(T) \in T /\ \A i \in T : Max(T) >= i
  BY <1>6 DEF Max
<1> QED
  BY <1>0, <1>7

LEMMA MaxOfPrefix ==
  ASSUME NEW n \in Nat, NEW T \in SUBSET (1..n), n \in T
  PROVE  Max(T) = n
<1>1. Max(T) \in T /\ \A i \in T : i <= Max(T)
  BY GreatestNumber
<1>2. Max(T) \in 1..n /\ n <= Max(T)
  BY <1>1
<1> QED
  BY <1>2

\* The function FoldLeft computes with, for a step that is itself a function.
FoldsTo(g, n, base, step) ==
  \A T \in SUBSET (1..n) :
    g[T] = IF T = {} THEN base ELSE step[g[T \ {Max(T)}], Max(T)]

\* There is one.
LEMMA FoldsExist ==
  ASSUME NEW n \in Nat, NEW A, NEW base \in A, NEW step \in [A \X (1..n) -> A]
  PROVE  \E g \in [SUBSET (1..n) -> A] : FoldsTo(g, n, base, step)
<1> DEFINE G == {k \in 0..n : \E g \in [SUBSET (1..k) -> A] : FoldsTo(g, k, base, step)}
<1>1. 0 \in G
  <2> DEFINE g == [T \in SUBSET (1..0) |-> base]
  <2>1. g \in [SUBSET (1..0) -> A]
    OBVIOUS
  <2>2. \A T \in SUBSET (1..0) : T = {} /\ g[T] = base
    OBVIOUS
  <2>3. FoldsTo(g, 0, base, step)
    BY <2>2 DEF FoldsTo
  <2> QED
    BY <2>1, <2>3
<1>2. ASSUME NEW k \in 0..(n - 1), k \in G PROVE k + 1 \in G
  <2>1. PICK g \in [SUBSET (1..k) -> A] : FoldsTo(g, k, base, step)
    BY <1>2
  <2> DEFINE h == [T \in SUBSET (1..(k + 1)) |->
                     IF k + 1 \in T THEN step[g[T \ {k + 1}], k + 1] ELSE g[T]]
  <2>2. ASSUME NEW T \in SUBSET (1..(k + 1)), k + 1 \in T
        PROVE  /\ T \ {k + 1} \in SUBSET (1..k)
               /\ h[T] = step[g[T \ {k + 1}], k + 1]
               /\ h[T] \in A
    <3>1. T \ {k + 1} \in SUBSET (1..k)
      BY <2>2
    <3>2. k + 1 \in 1..n /\ g[T \ {k + 1}] \in A
      BY <3>1
    <3> QED
      BY <3>1, <3>2, <2>2
  <2>3. ASSUME NEW T \in SUBSET (1..(k + 1)), k + 1 \notin T
        PROVE  T \in SUBSET (1..k) /\ h[T] = g[T] /\ h[T] \in A
    <3>1. T \in SUBSET (1..k)
      BY <2>3
    <3> QED
      BY <3>1, <2>3
  <2>4. h \in [SUBSET (1..(k + 1)) -> A]
    <3>1. \A T \in SUBSET (1..(k + 1)) : h[T] \in A
      BY <2>2, <2>3
    <3> QED
      BY <3>1
  <2>5. ASSUME NEW T \in SUBSET (1..(k + 1))
        PROVE  h[T] = IF T = {} THEN base ELSE step[h[T \ {Max(T)}], Max(T)]
    <3>1. CASE k + 1 \in T
      <4>1. Max(T) = k + 1
        <5>1. k + 1 \in Nat
          OBVIOUS
        <5> QED
          BY <3>1, <5>1, MaxOfPrefix
      <4>2. T \ {k + 1} \in SUBSET (1..(k + 1)) /\ k + 1 \notin T \ {k + 1}
        OBVIOUS
      <4>3. h[T \ {k + 1}] = g[T \ {k + 1}]
        BY <2>3, <4>2
      <4> HIDE DEF h
      <4> QED
        BY <2>2, <3>1, <4>1, <4>3
    <3>2. CASE k + 1 \notin T
      <4>1. T \in SUBSET (1..k) /\ h[T] = g[T]
        BY <2>3, <3>2
      <4>2. CASE T = {}
        <5>1. g[T] = base
          BY <2>1, <4>1, <4>2 DEF FoldsTo
        <5> HIDE DEF h
        <5> QED
          BY <5>1, <4>1, <4>2
      <4>3. CASE T # {}
        <5>1. Max(T) \in T
          <6>1. k \in Nat
            OBVIOUS
          <6> QED
            BY <6>1, <4>1, <4>3, GreatestNumber
        <5>2. T \ {Max(T)} \in SUBSET (1..(k + 1)) /\ k + 1 \notin T \ {Max(T)}
          BY <3>2
        <5>3. h[T \ {Max(T)}] = g[T \ {Max(T)}]
          BY <2>3, <5>2
        <5>4. g[T] = step[g[T \ {Max(T)}], Max(T)]
          BY <2>1, <4>1, <4>3 DEF FoldsTo
        <5> HIDE DEF h
        <5> QED
          BY <4>1, <4>3, <5>3, <5>4
      <4> QED
        BY <4>2, <4>3
    <3> QED
      BY <3>1, <3>2
  <2>6. FoldsTo(h, k + 1, base, step)
    <3> HIDE DEF h
    <3> QED
      BY <2>5 DEF FoldsTo
  <2>7. k + 1 \in 0..n
    OBVIOUS
  <2> HIDE DEF h
  <2> QED
    BY <2>4, <2>6, <2>7
<1>3. n \in G
  <2> HIDE DEF G
  <2>1. \A k \in 0..n : k \in G
    BY <1>1, <1>2, CountingUp
  <2> QED
    BY <2>1
<1> QED
  BY <1>3

\* The sets it is evaluated at are the prefixes.
LEMMA Prefix ==
  ASSUME NEW n \in Nat, NEW k \in 1..n
  PROVE  /\ 1..k \in SUBSET (1..n) /\ 1..k # {} /\ (1..k) \ {Max(1..k)} = 1..(k - 1)
         /\ Max(1..k) = k
<1>1. 1..k \in SUBSET (1..n) /\ 1..k # {} /\ (1..k) \ {k} = 1..(k - 1)
  OBVIOUS
<1>2. Max(1..k) = k
  <2>1. k \in Nat /\ 1..k \in SUBSET (1..k) /\ k \in 1..k
    OBVIOUS
  <2> QED
    BY <2>1, MaxOfPrefix
<1> QED
  BY <1>1, <1>2

LEMMA NoPrefix ==
  ASSUME NEW n \in Nat
  PROVE  1..0 \in SUBSET (1..n) /\ 1..0 = {}
  OBVIOUS

-----------------------------------------------------------------------------
(***************************************************************************)
(* Totals.                                                                 *)
(***************************************************************************)
\* f has the sums of the first 0, 1, 2, ... elements.
Runs(f, s) ==
  /\ f \in [0..Len(s) -> Int]
  /\ f[0] = 0
  /\ \A k \in 1..Len(s) : f[k] = f[k - 1] + s[k]

LEMMA TotalIsLast ==
  ASSUME NEW s \in Seq(Int)
  PROVE  \E f : Runs(f, s) /\ Total(s) = f[Len(s)]
<1> DEFINE n == Len(s)
           step == [p \in Int \X (1..n) |-> p[1] + s[p[2]]]
           Adds(g) == g = [T \in SUBSET DOMAIN s |->
                             IF T = {} THEN 0 ELSE g[T \ {Max(T)}] + s[Max(T)]]
           c == CHOOSE g : Adds(g)
<1>0. n \in Nat /\ DOMAIN s = 1..n /\ \A i \in 1..n : s[i] \in Int
  OBVIOUS
<1>1. Total(s) = c[DOMAIN s]
  BY DEF Total, FoldLeft, MapThenFoldSet
<1>2. \E g : Adds(g)
  <2>1. step \in [Int \X (1..n) -> Int]
    BY <1>0
  <2>2. PICK g \in [SUBSET (1..n) -> Int] : FoldsTo(g, n, 0, step)
    <3>1. 0 \in Int
      OBVIOUS
    <3> HIDE DEF step, n
    <3> QED
      BY <1>0, <2>1, <3>1, FoldsExist
  <2>3. ASSUME NEW T \in SUBSET (1..n)
        PROVE  g[T] = IF T = {} THEN 0 ELSE g[T \ {Max(T)}] + s[Max(T)]
    <3>1. CASE T = {}
      BY <2>2, <3>1 DEF FoldsTo
    <3>2. CASE T # {}
      <4>1. Max(T) \in 1..n
        BY <1>0, <3>2, GreatestNumber
      <4>2. g[T \ {Max(T)}] \in Int
        OBVIOUS
      <4>3. step[g[T \ {Max(T)}], Max(T)] = g[T \ {Max(T)}] + s[Max(T)]
        BY <4>1, <4>2
      <4> HIDE DEF step, n
      <4> QED
        BY <2>2, <3>2, <4>3 DEF FoldsTo
    <3> QED
      BY <3>1, <3>2
  <2>4. Adds(g)
    <3> HIDE DEF n
    <3> QED
      BY <1>0, <2>3
  <2> QED
    BY <2>4
<1>3. Adds(c)
  <2> HIDE DEF Adds
  <2> QED
    BY <1>2
<1>4. \A T \in SUBSET (1..n) : c[T] = IF T = {} THEN 0 ELSE c[T \ {Max(T)}] + s[Max(T)]
  <2> HIDE DEF c, n
  <2> QED
    BY <1>0, <1>3
<1> HIDE DEF c, n, Adds, step
<1>5. c[1..0] = 0
  BY <1>0, <1>4, NoPrefix
<1>6. ASSUME NEW k \in 1..n PROVE c[1..k] = c[1..(k - 1)] + s[k]
  BY <1>0, <1>4, Prefix
<1> DEFINE G == {k \in 0..n : c[1..k] \in Int}
<1>7. \A k \in 0..n : k \in G
  <2>1. 0 \in G
    BY <1>0, <1>5
  <2>2. ASSUME NEW k \in 0..(n - 1), k \in G PROVE k + 1 \in G
    <3>1. k + 1 \in 1..n /\ (k + 1) - 1 = k
      BY <1>0
    <3>2. c[1..(k + 1)] = c[1..k] + s[k + 1]
      BY <3>1, <1>6
    <3> QED
      BY <1>0, <2>2, <3>1, <3>2
  <2> HIDE DEF G
  <2> QED
    BY <1>0, <2>1, <2>2, CountingUp
<1> DEFINE f == [k \in 0..n |-> c[1..k]]
<1>8. f \in [0..n -> Int] /\ f[0] = 0 /\ f[n] = c[1..n]
  BY <1>0, <1>5, <1>7
<1>9. \A k \in 1..n : f[k] = f[k - 1] + s[k]
  <2> TAKE k \in 1..n
  <2>1. k \in 0..n /\ k - 1 \in 0..n
    BY <1>0
  <2> QED
    BY <1>6, <2>1
<1> HIDE DEF f
<1> QED
  BY <1>0, <1>1, <1>8, <1>9 DEF Runs, n

\* What is put at the end changes none of the sums before it.
LEMMA RunsAppend ==
  ASSUME NEW s \in Seq(Int), NEW x \in Int, NEW f, NEW g,
         Runs(f, s), Runs(g, Append(s, x))
  PROVE  /\ g[Len(s) + 1] = f[Len(s)] + x
         /\ f[Len(s)] \in Int
<1> DEFINE n == Len(s)
           more == Append(s, x)
           G == {k \in 0..n : f[k] = g[k]}
<1>0. /\ n \in Nat /\ more \in Seq(Int) /\ Len(more) = n + 1 /\ more[n + 1] = x
      /\ \A i \in 1..n : s[i] = more[i]
  OBVIOUS
<1>1. /\ f \in [0..n -> Int] /\ f[0] = 0 /\ g[0] = 0
      /\ \A k \in 1..n : f[k] = f[k - 1] + s[k]
      /\ \A k \in 1..(n + 1) : g[k] = g[k - 1] + more[k]
  BY <1>0 DEF Runs
<1> HIDE DEF more, n
<1>2. 0 \in G
  BY <1>0, <1>1
<1>3. ASSUME NEW k \in 0..(n - 1), k \in G PROVE k + 1 \in G
  <2>1. k + 1 \in 1..n /\ k + 1 \in 1..(n + 1) /\ (k + 1) - 1 = k /\ k + 1 \in 0..n
    BY <1>0
  <2>2. f[k + 1] = f[k] + s[k + 1] /\ g[k + 1] = g[k] + more[k + 1] /\ s[k + 1] = more[k + 1]
    BY <1>0, <1>1, <2>1
  <2> QED
    BY <1>3, <2>1, <2>2
<1>4. f[n] = g[n]
  <2> HIDE DEF G
  <2>1. \A k \in 0..n : k \in G
    BY <1>0, <1>2, <1>3, CountingUp
  <2>2. n \in 0..n
    BY <1>0
  <2> QED
    BY <2>1, <2>2 DEF G
<1>5. n + 1 \in 1..(n + 1) /\ (n + 1) - 1 = n /\ n \in 0..n
  BY <1>0
<1>6. g[n + 1] = g[n] + more[n + 1] /\ f[n] \in Int
  BY <1>1, <1>5
<1> QED
  BY <1>0, <1>4, <1>6 DEF n

LEMMA TotalAppend ==
  ASSUME NEW s \in Seq(Int), NEW x \in Int
  PROVE  Total(Append(s, x)) = Total(s) + x /\ Total(s) \in Int
<1> DEFINE more == Append(s, x)
<1>1. more \in Seq(Int) /\ Len(more) = Len(s) + 1
  OBVIOUS
<1>2. PICK f : Runs(f, s) /\ Total(s) = f[Len(s)]
  BY TotalIsLast
<1>3. PICK g : Runs(g, more) /\ Total(more) = g[Len(more)]
  <2> HIDE DEF more
  <2> QED
    BY <1>1, TotalIsLast
<1>4. g[Len(s) + 1] = f[Len(s)] + x /\ f[Len(s)] \in Int
  BY <1>2, <1>3, RunsAppend
<1> QED
  BY <1>1, <1>2, <1>3, <1>4

LEMMA TotalOfNone == Total(<<>>) = 0
<1>1. <<>> \in Seq(Int) /\ Len(<<>>) = 0
  OBVIOUS
<1>2. PICK f : Runs(f, <<>>) /\ Total(<<>>) = f[Len(<<>>)]
  BY <1>1, TotalIsLast
<1> QED
  BY <1>1, <1>2 DEF Runs
-----------------------------------------------------------------------------
(***************************************************************************)
(* The concepts of a quote and its totals.                                 *)
(***************************************************************************)
Priced == {calculate(item) : item \in Items}

Costs(cs) == [i \in DOMAIN cs |-> cs[i].cost]
Prices(cs) == [i \in DOMAIN cs |-> cs[i].price]

\* The guard of Create is exact although it subtracts in int64: as the totals are never
\* negative, it refuses what would leave int64 and every concept that is negative.
LEMMA GuardHolds ==
  ASSUME NEW total \in 0..MaxInt64, NEW amount \in -HalfRange..MaxInt64,
         ~Exceeds(total, amount)
  PROVE  Int64(total + amount) = total + amount /\ total + amount \in 0..MaxInt64
<1>1. HalfRange \in Nat \ {0} /\ MaxInt64 = HalfRange - 1
  BY HalfRangeAssumption DEF MaxInt64
<1>2. CASE amount >= 0
  <2>1. MaxInt64 - amount \in -HalfRange..MaxInt64
    BY <1>1, <1>2
  <2>2. ~(total > MaxInt64 - amount)
    BY <2>1, Int64Fits DEF Exceeds
  <2>3. total + amount \in -HalfRange..MaxInt64 /\ total + amount \in 0..MaxInt64
    BY <1>1, <1>2, <2>2
  <2> QED
    BY <2>3, Int64Fits
<1>3. CASE amount < 0
  <2>1. MaxInt64 - amount \in HalfRange..(3 * HalfRange - 1)
    BY <1>1, <1>3
  <2>2. Int64(MaxInt64 - amount) = MaxInt64 - amount - 2 * HalfRange
    BY <2>1, Int64Wraps
  <2> QED
    BY <1>1, <1>3, <2>2 DEF Exceeds
<1> QED
  BY <1>2, <1>3

LEMMA Int64Range ==
  ASSUME NEW x \in Int
  PROVE  Int64(x) \in -HalfRange..MaxInt64
  BY HalfRangeAssumption, SMTT(30) DEF Int64, MaxInt64

LEMMA PricedAmounts ==
  ASSUME NEW c \in Priced
  PROVE  c.cost \in -HalfRange..MaxInt64 /\ c.price \in -HalfRange..MaxInt64
<1>1. PICK item \in Items : c = calculate(item)
  BY DEF Priced
<1> DEFINE M == moneyFromRat(item.material, item.unit)
           C == moneyFromRat(item.machine, item.unit)
           S == moneyFromRat(item.sale, item.unit)
           E == moneyFromRat(item.electricity, item.unit)
<1>2. M \in Int /\ C \in Int /\ S \in Int /\ E \in Int /\ item.preparation \in Int
  BY ItemsAssumption, NearestType
<1>3. c.cost = Int64(M + C + E + item.preparation) /\ c.price = Int64(M + S + E + item.preparation)
  BY <1>1 DEF calculate
<1> HIDE DEF M, C, S, E
<1>4. M + C + E + item.preparation \in Int /\ M + S + E + item.preparation \in Int
  BY <1>2
<1> QED
  BY <1>3, <1>4, Int64Range

\* Amounts of the concepts, one more after the other.
LEMMA AmountsAppend ==
  ASSUME NEW cs \in Seq(Priced), NEW c \in Priced
  PROVE  /\ Costs(cs) \in Seq(Int) /\ Prices(cs) \in Seq(Int)
         /\ c.cost \in Int /\ c.price \in Int
         /\ Costs(Append(cs, c)) = Append(Costs(cs), c.cost)
         /\ Prices(Append(cs, c)) = Append(Prices(cs), c.price)
<1>1. \A d \in Priced : d.cost \in Int /\ d.price \in Int
  <2> TAKE d \in Priced
  <2>1. d.cost \in -HalfRange..MaxInt64 /\ d.price \in -HalfRange..MaxInt64
    BY PricedAmounts
  <2> QED
    BY <2>1, HalfRangeAssumption DEF MaxInt64
<1>2. Costs(cs) \in Seq(Int) /\ Prices(cs) \in Seq(Int)
  BY <1>1 DEF Costs, Prices
<1>3. Costs(Append(cs, c)) = Append(Costs(cs), c.cost)
  BY <1>1, <1>2 DEF Costs
<1>4. Prices(Append(cs, c)) = Append(Prices(cs), c.price)
  BY <1>1, <1>2 DEF Prices
<1> QED
  BY <1>1, <1>2, <1>3, <1>4

\* What PriceIsExact and QuoteAddsUp need: every concept is the price of an item, the totals
\* are their sums and within int64, and what is stored fits the columns.
SumsInv ==
  /\ concepts \in Seq(Priced)
  /\ totals = [cost |-> Total(Costs(concepts)), price |-> Total(Prices(concepts))]
  /\ totals.cost \in 0..MaxInt64 /\ totals.price \in 0..MaxInt64
  /\ Stored => \A i \in DOMAIN concepts : ConceptStored(concepts[i])

LEMMA SumsInit == Init => SumsInv
<1> SUFFICES ASSUME Init PROVE SumsInv
  OBVIOUS
<1>1. concepts = <<>> /\ totals = [cost |-> 0, price |-> 0] /\ ~Stored
  BY DEF Init, Stored
<1>2. Costs(concepts) = <<>> /\ Prices(concepts) = <<>>
  BY <1>1 DEF Costs, Prices
<1>3. 0 \in 0..MaxInt64
  BY HalfRangeAssumption DEF MaxInt64
<1> QED
  BY <1>1, <1>2, <1>3, TotalOfNone DEF SumsInv

LEMMA SumsNext == SumsInv /\ [Next]_vars => SumsInv'
<1> SUFFICES ASSUME SumsInv, [Next]_vars PROVE SumsInv'
  OBVIOUS
<1>1. ASSUME NEW item \in Items, AddConcept(item) PROVE SumsInv'
  <2> DEFINE c == calculate(item)
  <2>1. c \in Priced
    BY DEF Priced
  <2>2. pc = "price" /\ ~Stored'
    BY <1>1 DEF AddConcept, Stored
  <2>3. CASE concepts' = concepts /\ totals' = totals
    BY <2>2, <2>3 DEF SumsInv
  <2>4. CASE /\ ~(Exceeds(totals.cost, c.cost) \/ Exceeds(totals.price, c.price))
             /\ concepts' = Append(concepts, c) /\ totals' = Added(totals, c)
    <3> HIDE DEF c
    <3>1. /\ c.cost \in -HalfRange..MaxInt64 /\ c.price \in -HalfRange..MaxInt64
          /\ totals.cost \in 0..MaxInt64 /\ totals.price \in 0..MaxInt64
      BY <2>1, PricedAmounts DEF SumsInv
    <3>2. /\ Int64(totals.cost + c.cost) = totals.cost + c.cost
          /\ totals.cost + c.cost \in 0..MaxInt64
      BY <2>4, <3>1, GuardHolds
    <3>3. /\ Int64(totals.price + c.price) = totals.price + c.price
          /\ totals.price + c.price \in 0..MaxInt64
      BY <2>4, <3>1, GuardHolds
    <3>4. /\ totals' = [cost |-> totals.cost + c.cost, price |-> totals.price + c.price]
      BY <2>4, <3>2, <3>3 DEF Added
    <3>5. concepts \in Seq(Priced)
      BY DEF SumsInv
    <3>6. /\ Costs(concepts) \in Seq(Int) /\ Prices(concepts) \in Seq(Int)
          /\ c.cost \in Int /\ c.price \in Int
          /\ Costs(concepts') = Append(Costs(concepts), c.cost)
          /\ Prices(concepts') = Append(Prices(concepts), c.price)
      BY <2>1, <2>4, <3>5, AmountsAppend
    <3>7. /\ Total(Costs(concepts')) = Total(Costs(concepts)) + c.cost
          /\ Total(Prices(concepts')) = Total(Prices(concepts)) + c.price
      BY <3>6, TotalAppend
    <3>8. totals.cost = Total(Costs(concepts)) /\ totals.price = Total(Prices(concepts))
      BY DEF SumsInv
    <3>9. concepts' \in Seq(Priced)
      BY <2>1, <2>4, <3>5
    <3>10. totals' = [cost |-> Total(Costs(concepts')), price |-> Total(Prices(concepts'))]
      BY <3>4, <3>7, <3>8
    <3>11. totals'.cost \in 0..MaxInt64 /\ totals'.price \in 0..MaxInt64
      BY <3>2, <3>3, <3>4
    <3> QED
      BY <2>2, <3>9, <3>10, <3>11 DEF SumsInv
  <2> QED
    BY <1>1, <2>3, <2>4 DEF AddConcept
<1>2. CASE Create
  <2>1. UNCHANGED <<concepts, totals>>
    BY <1>2 DEF Create
  <2>2. Stored' => \A i \in DOMAIN concepts : ConceptStored(concepts[i])
    BY <1>2 DEF Create, Stored, ConceptStored
  <2> QED
    BY <2>1, <2>2 DEF SumsInv
<1>3. CASE DrawRow \/ DrawTotals \/ DrawNoteLine \/ DrawSignature \/ Fail
           \/ (\E option \in Options : GeneratePDF(option))
           \/ (\E customer \in CustomerTexts, payment \in PaymentTexts :
                 DrawInformation(customer, payment))
           \/ (\E text \in NoteTexts : BeginParagraph(text))
  <2>1. Stored /\ UNCHANGED <<concepts, totals>>
    BY <1>3 DEF DrawRow, DrawTotals, DrawNoteLine, DrawSignature, Fail, GeneratePDF,
                DrawInformation, BeginParagraph, Stored
  <2> QED
    BY <2>1 DEF SumsInv
<1>4. CASE UNCHANGED vars
  BY <1>4 DEF vars, SumsInv, Stored
<1> QED
  BY <1>1, <1>2, <1>3, <1>4 DEF Next

\* The totals of a stored quote are the sums of its concepts, for any number of them: the
\* guard of Create lets no addition leave int64.
THEOREM QuotesAddUp == Spec => []QuoteAddsUp
<1>1. SumsInv => QuoteAddsUp
  BY DEF SumsInv, QuoteAddsUp, Costs, Prices
<1> QED
  BY <1>1, SumsInit, SumsNext, PTL DEF Spec

\* The price of every stored concept is near the exact one, unless its electricity by itself
\* does not fit in int64.
THEOREM PricesAreExact == Spec => []PriceIsExact
<1>1. SumsInv => PriceIsExact
  <2> SUFFICES ASSUME SumsInv, Stored, NEW i \in DOMAIN concepts,
                      concepts[i].item.electricity < concepts[i].item.unit * HalfRange
               PROVE  LET c == concepts[i] IN
                      /\ 2 * Magnitude(c.price * c.item.unit - ExactPrice(c.item)) <= 3 * c.item.unit
                      /\ 2 * Magnitude(c.perPiece * c.item.pieces - c.price) <= c.item.pieces
    BY DEF PriceIsExact
  <2>1. concepts[i] \in Priced /\ ConceptStored(concepts[i])
    BY DEF SumsInv
  <2>2. PICK item \in Items : concepts[i] = calculate(item)
    BY <2>1 DEF Priced
  <2>3. concepts[i].item = item
    BY <2>2 DEF calculate
  <2> QED
    BY <2>1, <2>2, <2>3, StoredPriceIsNear
<1> QED
  BY <1>1, SumsInit, SumsNext, PTL DEF Spec
-----------------------------------------------------------------------------
(***************************************************************************)
(* Texts.                                                                  *)
(***************************************************************************)
\* f has what the first 0, 1, 2, ... sequences make together.
Joins(f, ss, A) ==
  /\ f \in [0..Len(ss) -> Seq(A)]
  /\ f[0] = <<>>
  /\ \A k \in 1..Len(ss) : f[k] = f[k - 1] \o ss[k]

LEMMA FlattenIsLast ==
  ASSUME NEW A, NEW ss \in Seq(Seq(A))
  PROVE  \E f : Joins(f, ss, A) /\ FlattenSeq(ss) = f[Len(ss)]
<1> DEFINE n == Len(ss)
           Flattens(g) == g = [i \in 1..n |-> IF i = 1 THEN ss[i] ELSE g[i - 1] \o ss[i]]
           c == CHOOSE g : Flattens(g)
<1>0. n \in Nat /\ \A i \in 1..n : ss[i] \in Seq(A)
  OBVIOUS
<1>1. FlattenSeq(ss) = IF n = 0 THEN ss ELSE c[n]
  BY DEF FlattenSeq
<1> HIDE DEF n
\* The function exists.
<1> DEFINE Up(f, m) == /\ f \in [0..m -> Seq(A)] /\ f[0] = <<>>
                       /\ \A k \in 1..m : f[k] = f[k - 1] \o ss[k]
           G == {m \in 0..n : \E f : Up(f, m)}
<1>2. n \in G
  <2>1. 0 \in G
    <3> DEFINE f == [i \in 0..0 |-> <<>>]
    <3>1. Up(f, 0)
      OBVIOUS
    <3> HIDE DEF Up
    <3> QED
      BY <1>0, <3>1
  <2>2. ASSUME NEW m \in 0..(n - 1), m \in G PROVE m + 1 \in G
    <3>1. PICK f : Up(f, m)
      BY <2>2
    <3> DEFINE h == [i \in 0..(m + 1) |-> IF i = m + 1 THEN f[m] \o ss[m + 1] ELSE f[i]]
    <3>2. m + 1 \in 1..n /\ m \in Nat /\ f[m] \in Seq(A) /\ ss[m + 1] \in Seq(A)
      BY <1>0, <3>1
    <3>3. h \in [0..(m + 1) -> Seq(A)] /\ h[0] = <<>>
      BY <3>1, <3>2
    <3>4. \A k \in 1..(m + 1) : h[k] = h[k - 1] \o ss[k]
      <4> TAKE k \in 1..(m + 1)
      <4>1. CASE k = m + 1
        <5>1. m + 1 \in 0..(m + 1) /\ m \in 0..(m + 1) /\ m # m + 1 /\ k - 1 = m
          BY <4>1, <3>2
        <5>2. h[m + 1] = f[m] \o ss[m + 1] /\ h[m] = f[m]
          BY <5>1
        <5> HIDE DEF h
        <5> QED
          BY <4>1, <5>1, <5>2
      <4>2. CASE k # m + 1
        <5>1. k \in 1..m /\ h[k] = f[k] /\ h[k - 1] = f[k - 1]
          BY <4>2, <3>2
        <5> QED
          BY <5>1, <3>1
      <4> QED
        BY <4>1, <4>2
    <3>5. Up(h, m + 1)
      <4> HIDE DEF h
      <4> QED
        BY <3>3, <3>4
    <3> HIDE DEF Up, h
    <3> QED
      BY <1>0, <3>2, <3>5
  <2>3. \A m \in 0..n : m \in G
    <3> HIDE DEF G
    <3> QED
      BY <1>0, <2>1, <2>2, CountingUp
  <2> HIDE DEF G
  <2> QED
    BY <1>0, <2>3
<1>3. PICK f : Up(f, n)
  BY <1>2
<1>4. Joins(f, ss, A)
  BY <1>3 DEF Joins, n
<1>5. CASE n = 0
  <2>1. ss = <<>> /\ f[n] = <<>>
    BY <1>3, <1>5 DEF n
  <2> QED
    BY <1>1, <1>4, <1>5, <2>1 DEF n
<1>6. CASE n # 0
  <2> DEFINE g == [i \in 1..n |-> f[i]]
  <2>1. \A i \in 1..n : g[i] = IF i = 1 THEN ss[i] ELSE g[i - 1] \o ss[i]
    <3> TAKE i \in 1..n
    <3>1. CASE i = 1
      <4>1. 1 \in 1..n /\ 1 - 1 = 0
        BY <3>1
      <4>2. f[1] = f[0] \o ss[1] /\ f[0] = <<>> /\ ss[1] \in Seq(A)
        BY <1>0, <1>3, <4>1
      <4>3. f[1] = ss[1]
        BY <4>2
      <4> QED
        BY <3>1, <4>1, <4>3
    <3>2. CASE i # 1
      <4>1. i - 1 \in 1..n /\ g[i] = f[i] /\ g[i - 1] = f[i - 1]
        BY <1>0, <3>2
      <4> QED
        BY <1>3, <3>2, <4>1
    <3> QED
      BY <3>1, <3>2
  <2>2. Flattens(g)
    BY <2>1
  <2>3. Flattens(c)
    <3> HIDE DEF Flattens, g
    <3> QED
      BY <2>2
  <2>4. \A i \in 1..n : c[i] = IF i = 1 THEN ss[i] ELSE c[i - 1] \o ss[i]
    <3> HIDE DEF c
    <3> QED
      BY <2>3
  <2> HIDE DEF c, g, Flattens, G
  <2> DEFINE H == {m \in 0..n : m = 0 \/ c[m] = f[m]}
  <2>5. 0 \in H
    BY <1>0
  <2>6. ASSUME NEW m \in 0..(n - 1), m \in H PROVE m + 1 \in H
    <3>1. m + 1 \in 1..n /\ (m + 1) - 1 = m
      BY <1>0
    <3>2. f[m + 1] = f[m] \o ss[m + 1]
      BY <1>3, <3>1
    <3>3. CASE m = 0
      <4>1. m + 1 = 1 /\ 1 \in 1..n
        BY <3>1, <3>3
      <4>2. f[1] = f[0] \o ss[1] /\ f[0] = <<>> /\ ss[1] \in Seq(A)
        BY <1>0, <1>3, <3>2, <3>3, <4>1
      <4>3. f[1] = ss[1]
        BY <4>2
      <4>4. c[1] = ss[1]
        BY <2>4, <4>1
      <4>5. m + 1 \in 0..n /\ c[m + 1] = f[m + 1]
        BY <3>1, <4>1, <4>3, <4>4
      <4> QED
        BY <4>5
    <3>4. CASE m # 0
      <4>0. m + 1 # 1 /\ m + 1 \in 0..n
        BY <3>1, <3>4
      <4>1. c[m + 1] = c[m] \o ss[m + 1]
        BY <2>4, <3>1, <4>0
      <4>2. c[m] = f[m]
        BY <2>6, <3>4
      <4>3. c[m + 1] = f[m + 1]
        BY <3>2, <4>1, <4>2
      <4> QED
        BY <4>0, <4>3
    <3> QED
      BY <3>3, <3>4
  <2>7. \A m \in 0..n : m \in H
    <3> HIDE DEF H
    <3> QED
      BY <1>0, <2>5, <2>6, CountingUp
  <2>8. c[n] = f[n]
    BY <1>0, <1>6, <2>7
  <2> QED
    BY <1>1, <1>4, <1>6, <2>8 DEF n
<1> QED
  BY <1>5, <1>6

LEMMA FlattenType ==
  ASSUME NEW A, NEW ss \in Seq(Seq(A))
  PROVE  FlattenSeq(ss) \in Seq(A)
<1>1. PICK f : Joins(f, ss, A) /\ FlattenSeq(ss) = f[Len(ss)]
  BY FlattenIsLast
<1> QED
  BY <1>1 DEF Joins
\* What holds of the empty sequence and goes on holding as elements are added holds of all.
LEMMA SeqInduction ==
  ASSUME NEW A, NEW G, <<>> \in G,
         \A s \in Seq(A) : s \in G => \A x \in A : Append(s, x) \in G
  PROVE  \A s \in Seq(A) : s \in G
<1> SUFFICES ASSUME NEW s \in Seq(A) PROVE s \in G
  OBVIOUS
<1> DEFINE n == Len(s)
           upTo(k) == [i \in 1..k |-> s[i]]
           H == {k \in 0..n : upTo(k) \in G}
<1>0. n \in Nat /\ DOMAIN s = 1..n
  OBVIOUS
<1>1. \A k \in 0..n : upTo(k) \in Seq(A)
  OBVIOUS
<1>2. upTo(0) = <<>> /\ upTo(n) = s
  OBVIOUS
<1>3. 0 \in H
  <2> HIDE DEF upTo
  <2> QED
    BY <1>0, <1>2
<1>4. ASSUME NEW k \in 0..(n - 1), k \in H PROVE k + 1 \in H
  <2>1. k \in 0..n /\ k + 1 \in 0..n /\ k + 1 \in 1..n
    BY <1>0
  <2>2. s[k + 1] \in A
    BY <2>1
  <2>3. upTo(k + 1) = Append(upTo(k), s[k + 1])
    BY <2>1
  <2>4. upTo(k) \in Seq(A) /\ upTo(k) \in G
    BY <1>1, <1>4, <2>1
  <2> HIDE DEF upTo
  <2>5. upTo(k + 1) \in G
    BY <2>2, <2>3, <2>4
  <2> QED
    BY <2>1, <2>5
<1>5. \A k \in 0..n : k \in H
  <2> HIDE DEF H, n
  <2> QED
    BY <1>0, <1>3, <1>4, CountingUp
<1> HIDE DEF upTo, n
<1>6. upTo(n) \in G
  BY <1>0, <1>5
<1> QED
  BY <1>2, <1>6

\* What is put at the end changes nothing that comes before it.
LEMMA FlattenAppend ==
  ASSUME NEW A, NEW ss \in Seq(Seq(A)), NEW t \in Seq(A)
  PROVE  FlattenSeq(Append(ss, t)) = FlattenSeq(ss) \o t
<1> DEFINE n == Len(ss)
           more == Append(ss, t)
<1>0. /\ n \in Nat /\ more \in Seq(Seq(A)) /\ Len(more) = n + 1 /\ more[n + 1] = t
      /\ \A i \in 1..n : ss[i] = more[i]
  OBVIOUS
<1>1. PICK f : Joins(f, ss, A) /\ FlattenSeq(ss) = f[n]
  BY FlattenIsLast
<1>2. PICK g : Joins(g, more, A) /\ FlattenSeq(more) = g[n + 1]
  <2> HIDE DEF more, n
  <2> QED
    BY <1>0, FlattenIsLast
<1>3. /\ f[0] = <<>> /\ g[0] = <<>>
      /\ \A k \in 1..n : f[k] = f[k - 1] \o ss[k]
      /\ \A k \in 1..(n + 1) : g[k] = g[k - 1] \o more[k]
  BY <1>0, <1>1, <1>2 DEF Joins
<1> HIDE DEF more, n
<1> DEFINE G == {k \in 0..n : f[k] = g[k]}
<1>4. 0 \in G
  BY <1>0, <1>3
<1>5. ASSUME NEW k \in 0..(n - 1), k \in G PROVE k + 1 \in G
  <2>1. k + 1 \in 1..n /\ k + 1 \in 1..(n + 1) /\ (k + 1) - 1 = k /\ k + 1 \in 0..n
    BY <1>0
  <2>2. f[k + 1] = f[k] \o ss[k + 1] /\ g[k + 1] = g[k] \o more[k + 1] /\ ss[k + 1] = more[k + 1]
    BY <1>0, <1>3, <2>1
  <2> QED
    BY <1>5, <2>1, <2>2
<1>6. f[n] = g[n]
  <2> HIDE DEF G
  <2>1. \A k \in 0..n : k \in G
    BY <1>0, <1>4, <1>5, CountingUp
  <2>2. n \in 0..n
    BY <1>0
  <2> QED
    BY <2>1, <2>2 DEF G
<1>7. n + 1 \in 1..(n + 1) /\ (n + 1) - 1 = n
  BY <1>0
<1>8. g[n + 1] = g[n] \o more[n + 1]
  BY <1>3, <1>7
<1> QED
  BY <1>0, <1>1, <1>2, <1>6, <1>8 DEF more

LEMMA FlattenOfNone == FlattenSeq(<<>>) = <<>>
  BY DEF FlattenSeq

\* The lines so far and the current one, as wrap's loops have them.
Part == [size : 0..Columns, more : BOOLEAN]
Wrapping == [lines : Seq(Seq(Nat)), current : Seq(Nat)]
NoLine == [lines |-> <<>>, current |-> <<>>]

LEMMA PutPartType ==
  ASSUME NEW at \in Wrapping, NEW part \in Part
  PROVE  PutPart(at, part) \in Wrapping
<1>1. /\ at.lines \in Seq(Seq(Nat)) /\ at.current \in Seq(Nat) /\ part.size \in Nat
      /\ at = [lines |-> at.lines, current |-> at.current]
  BY ColumnsAssumption DEF Wrapping, Part
<1>2. Append(at.current, part.size) \in Seq(Nat) /\ <<part.size>> \in Seq(Nat)
  BY <1>1
<1>3. Append(at.lines, at.current) \in Seq(Seq(Nat))
  BY <1>1
<1>4. [at EXCEPT !.current = Append(at.current, part.size)] \in Wrapping
  BY <1>1, <1>2 DEF Wrapping
<1>5. \A ls \in Seq(Seq(Nat)) : [lines |-> ls, current |-> <<part.size>>] \in Wrapping
  BY <1>2 DEF Wrapping
<1> QED
  BY <1>1, <1>3, <1>4, <1>5, Zenon DEF PutPart

\* The loops take one part after the other.
LEMMA PutPartSteps ==
  ASSUME NEW parts \in Seq(Part)
  PROVE  \E f \in [0..Len(parts) -> Wrapping] :
           /\ f[0] = NoLine
           /\ \A k \in 1..Len(parts) : f[k] = PutPart(f[k - 1], parts[k])
           /\ FoldLeft(PutPart, NoLine, parts) = f[Len(parts)]
<1> DEFINE n == Len(parts)
           step == [p \in Wrapping \X (1..n) |-> PutPart(p[1], parts[p[2]])]
           Puts(g) == g = [T \in SUBSET DOMAIN parts |->
                             IF T = {} THEN NoLine ELSE PutPart(g[T \ {Max(T)}], parts[Max(T)])]
           c == CHOOSE g : Puts(g)
<1>0. n \in Nat /\ DOMAIN parts = 1..n /\ (\A i \in 1..n : parts[i] \in Part) /\ NoLine \in Wrapping
  BY DEF NoLine, Wrapping
<1>1. FoldLeft(PutPart, NoLine, parts) = c[DOMAIN parts]
  BY DEF FoldLeft, MapThenFoldSet
<1>2. \E g : Puts(g)
  <2>1. step \in [Wrapping \X (1..n) -> Wrapping]
    BY <1>0, PutPartType
  <2>2. PICK g \in [SUBSET (1..n) -> Wrapping] : FoldsTo(g, n, NoLine, step)
    <3> HIDE DEF step, n
    <3> QED
      BY <1>0, <2>1, FoldsExist
  <2>3. ASSUME NEW T \in SUBSET (1..n)
        PROVE  g[T] = IF T = {} THEN NoLine ELSE PutPart(g[T \ {Max(T)}], parts[Max(T)])
    <3>1. CASE T = {}
      BY <2>2, <3>1 DEF FoldsTo
    <3>2. CASE T # {}
      <4>1. Max(T) \in 1..n
        BY <1>0, <3>2, GreatestNumber
      <4>2. g[T \ {Max(T)}] \in Wrapping
        OBVIOUS
      <4>3. step[g[T \ {Max(T)}], Max(T)] = PutPart(g[T \ {Max(T)}], parts[Max(T)])
        BY <4>1, <4>2
      <4> HIDE DEF step, n
      <4> QED
        BY <2>2, <3>2, <4>3 DEF FoldsTo
    <3> QED
      BY <3>1, <3>2
  <2>4. Puts(g)
    <3> HIDE DEF n
    <3> QED
      BY <1>0, <2>3
  <2> QED
    BY <2>4
<1>3. Puts(c)
  <2> HIDE DEF Puts
  <2> QED
    BY <1>2
<1>4. \A T \in SUBSET (1..n) :
        c[T] = IF T = {} THEN NoLine ELSE PutPart(c[T \ {Max(T)}], parts[Max(T)])
  <2> HIDE DEF c, n
  <2> QED
    BY <1>0, <1>3
<1> HIDE DEF c, n, Puts, step
<1>5. c[1..0] = NoLine
  BY <1>0, <1>4, NoPrefix
<1>6. ASSUME NEW k \in 1..n PROVE c[1..k] = PutPart(c[1..(k - 1)], parts[k])
  BY <1>0, <1>4, Prefix
<1> DEFINE G == {k \in 0..n : c[1..k] \in Wrapping}
<1>7. \A k \in 0..n : k \in G
  <2>1. 0 \in G
    BY <1>0, <1>5
  <2>2. ASSUME NEW k \in 0..(n - 1), k \in G PROVE k + 1 \in G
    <3>1. k + 1 \in 1..n /\ (k + 1) - 1 = k /\ k + 1 \in 0..n
      BY <1>0
    <3>2. c[1..(k + 1)] = PutPart(c[1..k], parts[k + 1])
      BY <3>1, <1>6
    <3>3. c[1..k] \in Wrapping /\ parts[k + 1] \in Part
      BY <1>0, <2>2, <3>1
    <3>4. c[1..(k + 1)] \in Wrapping
      BY <3>2, <3>3, PutPartType
    <3> QED
      BY <3>1, <3>4
  <2> HIDE DEF G
  <2> QED
    BY <1>0, <2>1, <2>2, CountingUp
<1> DEFINE f == [k \in 0..n |-> c[1..k]]
<1>8. f \in [0..n -> Wrapping] /\ f[0] = NoLine /\ f[n] = c[1..n]
  BY <1>0, <1>5, <1>7
<1>9. \A k \in 1..n : f[k] = PutPart(f[k - 1], parts[k])
  <2> TAKE k \in 1..n
  <2>1. k \in 0..n /\ k - 1 \in 0..n
    BY <1>0
  <2> QED
    BY <1>6, <2>1
<1> HIDE DEF f
<1> QED
  BY <1>0, <1>1, <1>8, <1>9 DEF n

LEMMA FunctionIsSeq ==
  ASSUME NEW A, NEW n \in Nat, NEW f \in [1..n -> A]
  PROVE  f \in Seq(A)
  OBVIOUS

LEMMA SeqIsFunction ==
  ASSUME NEW A, NEW s \in Seq(A)
  PROVE  Len(s) \in Nat /\ DOMAIN s = 1..Len(s) /\ \A i \in 1..Len(s) : s[i] \in A
  OBVIOUS

\* The pieces of a word are as many as it takes, none wider than the column.
LEMMA SplitType ==
  ASSUME NEW word \in Nat
  PROVE  splitWord(word) \in Seq(0..Columns)
<1> DEFINE k == (word + Columns - 1) \div Columns
<1>0. Columns \in Nat \ {0} /\ word + Columns - 1 \in Nat
  BY ColumnsAssumption
<1>1. k \in Nat
  BY <1>0, Division
<1>2. word % Columns \in 0..Columns /\ Columns \in 0..Columns
  BY <1>0, Division
<1>3. splitWord(word) = [i \in 1..k |-> IF i * Columns <= word THEN Columns ELSE word % Columns]
  BY DEF splitWord
<1> HIDE DEF k
<1>4. splitWord(word) \in [1..k -> 0..Columns]
  BY <1>2, <1>3
<1> QED
  BY <1>1, <1>4, FunctionIsSeq

LEMMA PartsType ==
  ASSUME NEW words \in Seq(Nat)
  PROVE  Parts(words) \in Seq(Part)
<1> DEFINE of(i) == [j \in DOMAIN splitWord(words[i]) |->
                       [size |-> splitWord(words[i])[j], more |-> j > 1]]
           ss == [i \in DOMAIN words |-> of(i)]
<1>1. ASSUME NEW i \in DOMAIN words PROVE of(i) \in Seq(Part)
  <2> DEFINE s == splitWord(words[i])
  <2>1. s \in Seq(0..Columns)
    BY SplitType
  <2> HIDE DEF s
  <2> DEFINE n == Len(s)
  <2>2. n \in Nat /\ DOMAIN s = 1..n /\ \A j \in 1..n : s[j] \in 0..Columns
    BY <2>1, SeqIsFunction
  <2>3. \A j \in 1..n : [size |-> s[j], more |-> j > 1] \in Part
    BY <2>2 DEF Part
  <2> HIDE DEF n
  <2>4. [j \in DOMAIN s |-> [size |-> s[j], more |-> j > 1]] \in [1..n -> Part]
    BY <2>2, <2>3
  <2>5. [j \in DOMAIN s |-> [size |-> s[j], more |-> j > 1]] \in Seq(Part)
    BY <2>2, <2>4, FunctionIsSeq
  <2> QED
    BY <2>5 DEF s
<1>2. ss \in Seq(Seq(Part))
  <2> HIDE DEF of
  <2> QED
    BY <1>1
<1>3. Parts(words) = FlattenSeq(ss)
  BY DEF Parts
<1> HIDE DEF ss
<1> QED
  BY <1>2, <1>3, FlattenType

LEMMA WrapParagraphType ==
  ASSUME NEW words \in Seq(Nat)
  PROVE  wrapParagraph(words) \in Seq(Seq(Nat))
<1> DEFINE parts == Parts(words)
<1>1. parts \in Seq(Part)
  BY PartsType
<1> HIDE DEF parts
<1>2. PICK f \in [0..Len(parts) -> Wrapping] : FoldLeft(PutPart, NoLine, parts) = f[Len(parts)]
  BY <1>1, PutPartSteps
<1>3. Len(parts) \in 0..Len(parts)
  BY <1>1
<1> DEFINE end == f[Len(parts)]
<1>4. end \in Wrapping
  BY <1>2, <1>3
<1>5. wrapParagraph(words) = Append(end.lines, end.current)
  BY <1>2 DEF wrapParagraph, NoLine, parts
<1> HIDE DEF end
<1> QED
  BY <1>4, <1>5 DEF Wrapping

LEMMA WrapType ==
  ASSUME NEW text \in Texts
  PROVE  wrap(text) \in Seq(Seq(Nat)) /\ Len(wrap(text)) \in Nat
<1> DEFINE ss == [i \in DOMAIN text |-> wrapParagraph(text[i])]
<1>1. \A i \in DOMAIN text : text[i] \in Seq(Nat)
  BY DEF Texts
<1>2. \A i \in DOMAIN text : wrapParagraph(text[i]) \in Seq(Seq(Nat))
  BY <1>1, WrapParagraphType
<1>3. ss \in Seq(Seq(Seq(Nat)))
  <2>1. Len(text) \in Nat /\ DOMAIN text = 1..Len(text)
    BY DEF Texts
  <2>2. ss \in [1..Len(text) -> Seq(Seq(Nat))]
    BY <1>2, <2>1
  <2> HIDE DEF ss
  <2> QED
    BY <2>1, <2>2, FunctionIsSeq
<1>4. wrap(text) = FlattenSeq(ss)
  BY DEF wrap
<1> HIDE DEF ss
<1>5. wrap(text) \in Seq(Seq(Nat))
  BY <1>3, <1>4, FlattenType
<1> QED
  BY <1>5
-----------------------------------------------------------------------------
(***************************************************************************)
(* The marks of one kind.                                                  *)
(***************************************************************************)
\* f has those among the first 0, 1, 2, ... marks.
Selects(f, what, d) ==
  /\ f[0] = <<>>
  /\ \A k \in 1..Len(d) :
       f[k] = IF d[k].what = what THEN Append(f[k - 1], d[k]) ELSE f[k - 1]

LEMMA OnlyIsLast ==
  ASSUME NEW what, NEW A, NEW d \in Seq(A)
  PROVE  \E f : Selects(f, what, d) /\ Only(what, d) = f[Len(d)]
<1> DEFINE n == Len(d)
           Chooses(g) == g = [i \in 0..n |->
                                IF i = 0 THEN <<>>
                                ELSE IF d[i].what = what THEN Append(g[i - 1], d[i]) ELSE g[i - 1]]
           c == CHOOSE g : Chooses(g)
           Up(f, m) == /\ f[0] = <<>>
                       /\ \A k \in 1..m : f[k] = IF d[k].what = what THEN Append(f[k - 1], d[k])
                                                 ELSE f[k - 1]
           G == {m \in 0..n : \E f : Up(f, m)}
<1>0. n \in Nat
  OBVIOUS
<1>1. Only(what, d) = c[n]
  BY DEF Only
<1> HIDE DEF n
<1>2. n \in G
  <2>1. 0 \in G
    <3> DEFINE f == [i \in 0..0 |-> <<>>]
    <3>1. Up(f, 0)
      OBVIOUS
    <3> HIDE DEF Up
    <3> QED
      BY <1>0, <3>1
  <2>2. ASSUME NEW m \in 0..(n - 1), m \in G PROVE m + 1 \in G
    <3>1. PICK f : Up(f, m)
      BY <2>2
    <3> DEFINE new == IF d[m + 1].what = what THEN Append(f[m], d[m + 1]) ELSE f[m]
               h == [i \in 0..(m + 1) |-> IF i = m + 1 THEN new ELSE f[i]]
    <3>2. m + 1 \in 1..n /\ m \in Nat /\ m + 1 \in 0..n
      BY <1>0
    <3> HIDE DEF new
    <3>3. h[0] = <<>>
      BY <3>1, <3>2
    <3>4. \A k \in 1..(m + 1) : h[k] = IF d[k].what = what THEN Append(h[k - 1], d[k]) ELSE h[k - 1]
      <4> TAKE k \in 1..(m + 1)
      <4>1. CASE k = m + 1
        <5>1. m + 1 \in 0..(m + 1) /\ m \in 0..(m + 1) /\ m # m + 1 /\ k - 1 = m
          BY <4>1, <3>2
        <5>2. h[m + 1] = new /\ h[m] = f[m]
          BY <5>1
        <5> HIDE DEF h
        <5> QED
          BY <4>1, <5>1, <5>2 DEF new
      <4>2. CASE k # m + 1
        <5>1. k \in 1..m /\ k \in 0..(m + 1) /\ k - 1 \in 0..(m + 1) /\ k - 1 # m + 1
          BY <4>2, <3>2
        <5>2. h[k] = f[k] /\ h[k - 1] = f[k - 1]
          BY <4>2, <5>1
        <5> HIDE DEF h
        <5> QED
          BY <5>1, <5>2, <3>1
      <4> QED
        BY <4>1, <4>2
    <3>5. Up(h, m + 1)
      <4> HIDE DEF h
      <4> QED
        BY <3>3, <3>4
    <3> HIDE DEF Up, h
    <3> QED
      BY <3>2, <3>5
  <2> HIDE DEF G
  <2>3. \A m \in 0..n : m \in G
    BY <1>0, <2>1, <2>2, CountingUp
  <2> QED
    BY <1>0, <2>3
<1>3. PICK f : Up(f, n)
  BY <1>2
<1> DEFINE g == [i \in 0..n |-> f[i]]
<1>4. Chooses(g)
  <2>1. \A i \in 0..n : g[i] = IF i = 0 THEN <<>>
                               ELSE IF d[i].what = what THEN Append(g[i - 1], d[i]) ELSE g[i - 1]
    <3> TAKE i \in 0..n
    <3>1. CASE i = 0
      BY <1>3, <3>1
    <3>2. CASE i # 0
      <4>1. i \in 1..n /\ i - 1 \in 0..n
        BY <1>0, <3>2
      <4>2. g[i] = f[i] /\ g[i - 1] = f[i - 1]
        BY <4>1
      <4> HIDE DEF g
      <4> QED
        BY <1>3, <3>2, <4>1, <4>2
    <3> QED
      BY <3>1, <3>2
  <2> QED
    BY <2>1
<1>5. Chooses(c)
  <2> HIDE DEF Chooses, g
  <2> QED
    BY <1>4
<1>6. \A i \in 0..n : c[i] = IF i = 0 THEN <<>>
                             ELSE IF d[i].what = what THEN Append(c[i - 1], d[i]) ELSE c[i - 1]
  <2> HIDE DEF c
  <2> QED
    BY <1>5
<1> HIDE DEF c
<1>7. Selects(c, what, d)
  <2>1. c[0] = <<>>
    BY <1>0, <1>6
  <2>2. \A k \in 1..n : k \in 0..n /\ k # 0
    BY <1>0
  <2> QED
    BY <1>6, <2>1, <2>2 DEF Selects, n
<1> QED
  BY <1>1, <1>7 DEF n

LEMMA OnlyAppend ==
  ASSUME NEW what, NEW A, NEW d \in Seq(A), NEW m \in A
  PROVE  Only(what, Append(d, m)) = IF m.what = what THEN Append(Only(what, d), m) ELSE Only(what, d)
<1> DEFINE n == Len(d)
           more == Append(d, m)
<1>0. /\ n \in Nat /\ more \in Seq(A) /\ Len(more) = n + 1 /\ more[n + 1] = m
      /\ \A i \in 1..n : d[i] = more[i]
  OBVIOUS
<1>1. PICK f : Selects(f, what, d) /\ Only(what, d) = f[n]
  BY OnlyIsLast
<1>2. PICK g : Selects(g, what, more) /\ Only(what, more) = g[n + 1]
  <2> HIDE DEF more, n
  <2> QED
    BY <1>0, OnlyIsLast
<1>3. /\ f[0] = <<>> /\ g[0] = <<>>
      /\ \A k \in 1..n : f[k] = IF d[k].what = what THEN Append(f[k - 1], d[k]) ELSE f[k - 1]
      /\ \A k \in 1..(n + 1) :
           g[k] = IF more[k].what = what THEN Append(g[k - 1], more[k]) ELSE g[k - 1]
  BY <1>0, <1>1, <1>2 DEF Selects
<1> HIDE DEF more, n
<1> DEFINE G == {k \in 0..n : f[k] = g[k]}
<1>4. 0 \in G
  BY <1>0, <1>3
<1>5. ASSUME NEW k \in 0..(n - 1), k \in G PROVE k + 1 \in G
  <2>1. k + 1 \in 1..n /\ k + 1 \in 1..(n + 1) /\ (k + 1) - 1 = k /\ k + 1 \in 0..n
    BY <1>0
  <2>2. /\ f[k + 1] = IF d[k + 1].what = what THEN Append(f[k], d[k + 1]) ELSE f[k]
        /\ g[k + 1] = IF more[k + 1].what = what THEN Append(g[k], more[k + 1]) ELSE g[k]
        /\ d[k + 1] = more[k + 1]
    BY <1>0, <1>3, <2>1
  <2>3. f[k] = g[k]
    BY <1>5
  <2>4. f[k + 1] = g[k + 1]
    BY <2>2, <2>3
  <2> QED
    BY <2>1, <2>4
<1>6. f[n] = g[n]
  <2> HIDE DEF G
  <2>1. \A k \in 0..n : k \in G
    BY <1>0, <1>4, <1>5, CountingUp
  <2>2. n \in 0..n
    BY <1>0
  <2> QED
    BY <2>1, <2>2 DEF G
<1>7. n + 1 \in 1..(n + 1) /\ (n + 1) - 1 = n
  BY <1>0
<1>8. g[n + 1] = IF more[n + 1].what = what THEN Append(g[n], more[n + 1]) ELSE g[n]
  BY <1>3, <1>7
<1> QED
  BY <1>0, <1>1, <1>2, <1>6, <1>8 DEF more

LEMMA OnlyOfNone ==
  ASSUME NEW what
  PROVE  Only(what, <<>>) = <<>>
<1> DEFINE d == <<>>
<1>1. d \in Seq({}) /\ Len(d) = 0
  OBVIOUS
<1> HIDE DEF d
<1>2. PICK f : Selects(f, what, d) /\ Only(what, d) = f[Len(d)]
  BY <1>1, OnlyIsLast
<1>3. f[0] = <<>>
  BY <1>2 DEF Selects
<1>4. Only(what, d) = <<>>
  BY <1>1, <1>2, <1>3
<1> QED
  BY <1>4 DEF d

LEMMA OnlyType ==
  ASSUME NEW what, NEW A
  PROVE  \A d \in Seq(A) : Only(what, d) \in Seq(A)
<1> DEFINE G == {d \in Seq(A) : Only(what, d) \in Seq(A)}
<1>1. <<>> \in G
  <2>1. <<>> \in Seq(A)
    OBVIOUS
  <2>2. Only(what, <<>>) = <<>>
    BY OnlyOfNone, Zenon
  <2>3. Only(what, <<>>) \in Seq(A)
    BY <2>1, <2>2, Zenon
  <2> QED
    BY <2>1, <2>3
<1>2. ASSUME NEW d \in Seq(A), d \in G, NEW m \in A PROVE Append(d, m) \in G
  <2>1. Only(what, d) \in Seq(A) /\ Append(d, m) \in Seq(A)
    BY <1>2
  <2>2. Only(what, Append(d, m)) \in {Append(Only(what, d), m), Only(what, d)}
    BY OnlyAppend
  <2>3. Append(Only(what, d), m) \in Seq(A)
    BY <2>1
  <2> QED
    BY <2>1, <2>2, <2>3
<1> HIDE DEF G
<1>3. \A d \in Seq(A) : d \in G
  BY <1>1, <1>2, SeqInduction
<1> QED
  BY <1>3 DEF G
-----------------------------------------------------------------------------
(***************************************************************************)
(* Pages.                                                                  *)
(***************************************************************************)
Kinds == {"header", "information", "title", "table", "row", "totals", "notes", "note",
          "signature", "footer", "continuation"}
Marks == [what : Kinds, page : Nat, top : Nat, bottom : Nat, n : Nat]

\* How a mark may come after another, and what a row and a note stand under.
Follows(a, b) ==
  /\ a.page <= b.page
  /\ a.page = b.page => a.bottom <= b.top \/ (Spills(a) /\ b.what = "footer")
Stands(a, b) ==
  /\ b.what = "row" => a.what \in {"table", "row"} /\ a.page = b.page
  /\ b.what = "note" => a.what \in {"notes", "note"} /\ a.page = b.page

Footers(s, k) == Len(s) = k /\ \A i \in 1..k : s[i].page = i /\ s[i].n = i
Rows(s, k) == Len(s) = k /\ \A i \in 1..k : s[i].n = i

\* A document that reads well so far: k pages are closed, n rows drawn, and m came last.
Laid(d, k, n, m) ==
  /\ d \in Seq(Marks) /\ Len(d) \in Nat \ {0} /\ d[Len(d)] = m
  /\ d[1].what \notin {"row", "note"}
  /\ \A i \in 2..Len(d) : Follows(d[i - 1], d[i]) /\ Stands(d[i - 1], d[i])
  /\ Footers(Only("footer", d), k)
  /\ Rows(Only("row", d), n)

Goes(a, m, k, n) ==
  /\ Follows(a, m) /\ Stands(a, m)
  /\ m.what = "footer" => m.page = k + 1 /\ m.n = k + 1
  /\ m.what = "row" => m.n = n + 1

LEMMA PutMark ==
  ASSUME NEW k \in Nat, NEW n \in Nat, NEW d, NEW a, NEW m \in Marks,
         Laid(d, k, n, a), Goes(a, m, k, n)
  PROVE  Laid(Append(d, m), IF m.what = "footer" THEN k + 1 ELSE k,
              IF m.what = "row" THEN n + 1 ELSE n, m)
<1> DEFINE e == Append(d, m)
           z == Len(d)
<1>1. d \in Seq(Marks) /\ z \in Nat \ {0} /\ d[z] = a
  BY DEF Laid
<1>2. /\ e \in Seq(Marks) /\ Len(e) = z + 1 /\ e[z + 1] = m
      /\ \A i \in 1..z : e[i] = d[i]
  BY <1>1
<1>3. e[1].what \notin {"row", "note"}
  <2>1. 1 \in 1..z
    BY <1>1
  <2> HIDE DEF e, z
  <2> QED
    BY <1>2, <2>1 DEF Laid
<1> HIDE DEF e
<1>4. \A i \in 2..Len(e) : Follows(e[i - 1], e[i]) /\ Stands(e[i - 1], e[i])
  <2> TAKE i \in 2..Len(e)
  <2> HIDE DEF z
  <2>1. CASE i = z + 1
    <3>1. i - 1 = z /\ z \in 1..z
      BY <1>1, <2>1
    <3>2. e[i - 1] = a /\ e[i] = m
      BY <1>1, <1>2, <2>1, <3>1
    <3> QED
      BY <3>2 DEF Goes
  <2>2. CASE i # z + 1
    <3>1. i \in 2..z /\ i \in 1..z /\ i - 1 \in 1..z
      BY <1>1, <1>2, <2>2
    <3>2. e[i - 1] = d[i - 1] /\ e[i] = d[i]
      BY <1>2, <3>1
    <3> QED
      BY <3>1, <3>2 DEF Laid, z
  <2> QED
    BY <2>1, <2>2
<1>5. Footers(Only("footer", e), IF m.what = "footer" THEN k + 1 ELSE k)
  <2> DEFINE s == Only("footer", d)
  <2>1. Only("footer", e) = IF m.what = "footer" THEN Append(s, m) ELSE s
    BY <1>1, OnlyAppend DEF e
  <2>2. s \in Seq(Marks) /\ Footers(s, k)
    BY <1>1, OnlyType DEF Laid
  <2> HIDE DEF s
  <2>3. CASE m.what = "footer"
    <3>1. Len(Append(s, m)) = k + 1 /\ \A i \in 1..k : Append(s, m)[i] = s[i]
      BY <2>2 DEF Footers
    <3>2. Append(s, m)[k + 1] = m
      BY <2>2 DEF Footers
    <3>3. m.page = k + 1 /\ m.n = k + 1
      BY <2>3 DEF Goes
    <3> DEFINE t == Append(s, m)
    <3> HIDE DEF t
    <3>4. Len(t) = k + 1 /\ \A i \in 1..(k + 1) : t[i].page = i /\ t[i].n = i
      BY <2>2, <3>1, <3>2, <3>3 DEF Footers, t
    <3> QED
      BY <2>1, <2>3, <3>4 DEF Footers, t
  <2> QED
    BY <2>1, <2>2, <2>3
<1>6. Rows(Only("row", e), IF m.what = "row" THEN n + 1 ELSE n)
  <2> DEFINE s == Only("row", d)
  <2>1. Only("row", e) = IF m.what = "row" THEN Append(s, m) ELSE s
    BY <1>1, OnlyAppend DEF e
  <2>2. s \in Seq(Marks) /\ Rows(s, n)
    BY <1>1, OnlyType DEF Laid
  <2> HIDE DEF s
  <2>3. CASE m.what = "row"
    <3>1. Len(Append(s, m)) = n + 1 /\ \A i \in 1..n : Append(s, m)[i] = s[i]
      BY <2>2 DEF Rows
    <3>2. Append(s, m)[n + 1] = m
      BY <2>2 DEF Rows
    <3>3. m.n = n + 1
      BY <2>3 DEF Goes
    <3> DEFINE t == Append(s, m)
    <3> HIDE DEF t
    <3>4. Len(t) = n + 1 /\ \A i \in 1..(n + 1) : t[i].n = i
      BY <2>2, <3>1, <3>2, <3>3 DEF Rows, t
    <3> QED
      BY <2>1, <2>3, <3>4 DEF Rows, t
  <2> QED
    BY <2>1, <2>2, <2>3
<1>7. Len(e) \in Nat \ {0} /\ e[Len(e)] = m
  BY <1>1, <1>2
<1> QED
  BY <1>2, <1>3, <1>4, <1>5, <1>6, <1>7 DEF Laid, e

\* What may reach over the footer.
Spilled(d) ==
  /\ Len(d) >= 2 /\ ~Spills(d[1])
  /\ \A i \in 1..Len(d) : Spills(d[i]) =>
       \/ d[i].what = "row" /\ d[i - 1].what = "table" /\ d[i].page > 1
       \/ /\ d[i].what \in {"information", "title", "table"}
          /\ d[i].page = 1
          /\ d[2].bottom + 28 + 24 + 28 > FooterTop

LEMMA PutSpill ==
  ASSUME NEW d \in Seq(Marks), NEW m \in Marks, Spilled(d),
         Spills(m) => m.what = "row" /\ d[Len(d)].what = "table" /\ m.page > 1
  PROVE  Spilled(Append(d, m))
<1> DEFINE e == Append(d, m)
           z == Len(d)
<1>1. z \in Nat /\ z >= 2
  BY DEF Spilled
<1>2. /\ Len(e) = z + 1 /\ e[z + 1] = m /\ (z + 1) - 1 = z
      /\ \A i \in 1..z : e[i] = d[i]
  BY <1>1
<1>3. z \in 1..z /\ 2 \in 1..z
  BY <1>1
<1>4. e[z] = d[z] /\ e[2] = d[2]
  BY <1>2, <1>3
<1> HIDE DEF e
<1> SUFFICES ASSUME NEW i \in 1..Len(e), Spills(e[i])
             PROVE  \/ e[i].what = "row" /\ e[i - 1].what = "table" /\ e[i].page > 1
                    \/ /\ e[i].what \in {"information", "title", "table"}
                       /\ e[i].page = 1
                       /\ e[2].bottom + 28 + 24 + 28 > FooterTop
  <2> HIDE DEF z
  <2>1. Len(e) >= 2
    BY <1>1, <1>2
  <2>2. 1 \in 1..z
    BY <1>1
  <2>3. ~Spills(e[1])
    BY <1>2, <2>2 DEF Spilled
  <2> QED
    BY <2>1, <2>3 DEF Spilled, e
<1>5. CASE i = z + 1
  <2> HIDE DEF z
  <2> QED
    BY <1>2, <1>4, <1>5 DEF z
<1>6. CASE i # z + 1
  <2>1. i \in 1..z
    BY <1>1, <1>2, <1>6
  <2>2. e[i] = d[i]
    BY <1>2, <2>1
  <2>3. e[i - 1] = d[i - 1]
    <3>1. i # 1
      BY <2>2 DEF Spilled
    <3>2. i - 1 \in 1..z
      BY <2>1, <3>1
    <3> QED
      BY <1>2, <3>2
  <2> QED
    BY <1>4, <2>1, <2>2, <2>3 DEF Spilled
<1> QED
  BY <1>5, <1>6

\* Both.
Page(d, k, n, m) == Laid(d, k, n, m) /\ Spilled(d)

LEMMA PutOn ==
  ASSUME NEW k \in Nat, NEW n \in Nat, NEW d, NEW a, NEW m \in Marks,
         Page(d, k, n, a), Goes(a, m, k, n),
         Spills(m) => m.what = "row" /\ a.what = "table" /\ m.page > 1
  PROVE  Page(Append(d, m), IF m.what = "footer" THEN k + 1 ELSE k,
              IF m.what = "row" THEN n + 1 ELSE n, m)
<1>1. Laid(d, k, n, a) /\ Spilled(d) /\ d \in Seq(Marks) /\ d[Len(d)] = a
  BY DEF Page, Laid
<1>2. Laid(Append(d, m), IF m.what = "footer" THEN k + 1 ELSE k,
           IF m.what = "row" THEN n + 1 ELSE n, m)
  BY <1>1, PutMark
<1>3. Spilled(Append(d, m))
  BY <1>1, PutSpill
<1> QED
  BY <1>2, <1>3 DEF Page

LEMMA PutOther ==
  ASSUME NEW k \in Nat, NEW n \in Nat, NEW d, NEW a, NEW m \in Marks,
         Page(d, k, n, a), m.what \notin {"footer", "row"}, Follows(a, m), Stands(a, m), ~Spills(m)
  PROVE  Page(Append(d, m), k, n, m)
<1>1. Goes(a, m, k, n)
  BY DEF Goes
<1>2. Page(Append(d, m), IF m.what = "footer" THEN k + 1 ELSE k,
           IF m.what = "row" THEN n + 1 ELSE n, m)
  BY <1>1, PutOn
<1> QED
  BY <1>2

LEMMA PutRow ==
  ASSUME NEW k \in Nat, NEW n \in Nat, NEW d, NEW a, NEW m \in Marks,
         Page(d, k, n, a), m.what = "row", m.n = n + 1,
         a.what \in {"table", "row"}, a.page = m.page, a.bottom <= m.top,
         Spills(m) => a.what = "table" /\ m.page > 1
  PROVE  Page(Append(d, m), k, n + 1, m)
<1>1. a \in Marks
  BY DEF Page, Laid
<1>2. Goes(a, m, k, n)
  BY <1>1 DEF Goes, Follows, Stands, Marks
<1>3. Page(Append(d, m), IF m.what = "footer" THEN k + 1 ELSE k,
           IF m.what = "row" THEN n + 1 ELSE n, m)
  BY <1>2, PutOn
<1> QED
  BY <1>3

LEMMA PutFooter ==
  ASSUME NEW p \in Nat \ {0}, NEW n \in Nat, NEW d, NEW a, NEW m, m = Mark("footer", p, FooterTop, 16, p),
         Page(d, p - 1, n, a), a.what # "footer", a.page = p
  PROVE  Page(Append(d, m), p, n, m) /\ m \in Marks
<1>1. a \in Marks
  BY DEF Page, Laid
<1>2. /\ m \in Marks
      /\ m.what = "footer" /\ m.page = p /\ m.top = FooterTop /\ m.n = p
  <2>1. "footer" \in Kinds /\ FooterTop \in Nat /\ 16 \in Nat /\ p \in Nat
    BY DEF Kinds, FooterTop
  <2> QED
    BY <2>1 DEF Mark, Marks
<1>3. p - 1 \in Nat /\ (p - 1) + 1 = p
  OBVIOUS
<1>4. a.bottom <= m.top \/ Spills(a)
  BY <1>1, <1>2 DEF Marks, Spills, FooterTop
<1>5. Goes(a, m, p - 1, n)
  BY <1>1, <1>2, <1>3, <1>4 DEF Goes, Follows, Stands, Marks
<1>6. ~Spills(m)
  BY <1>2 DEF Spills
<1>7. Page(Append(d, m), IF m.what = "footer" THEN (p - 1) + 1 ELSE p - 1,
           IF m.what = "row" THEN n + 1 ELSE n, m)
  BY <1>2, <1>3, <1>5, <1>6, PutOn
<1> QED
  BY <1>2, <1>3, <1>7

\* A page is closed and the next one headed.
LEMMA PageTurns ==
  ASSUME NEW p \in Nat \ {0}, NEW n \in Nat, NEW d, NEW a, NEW f, NEW h,
         f = Mark("footer", p, FooterTop, 16, p), h = Mark("continuation", p + 1, 38, 17, 0),
         Page(d, p - 1, n, a), a.what # "footer", a.page = p
  PROVE  /\ Page(Append(Append(d, f), h), p, n, h)
         /\ f \in Marks /\ h \in Marks
         /\ h.what = "continuation" /\ h.page = p + 1 /\ h.bottom = 55
<1>1. Page(Append(d, f), p, n, f) /\ f \in Marks
  BY PutFooter
<1>2. /\ h \in Marks
      /\ h.what = "continuation" /\ h.page = p + 1 /\ h.top = 38 /\ h.bottom = 38 + 17
  <2>1. "continuation" \in Kinds /\ p + 1 \in Nat /\ 38 \in Nat /\ 17 \in Nat /\ 0 \in Nat
    BY DEF Kinds
  <2> QED
    BY <2>1 DEF Mark, Marks
<1>3. f.page = p
  BY DEF Mark
<1>4. Follows(f, h) /\ Stands(f, h) /\ ~Spills(h)
  BY <1>2, <1>3 DEF Follows, Stands, Spills, FooterTop
<1>5. Page(Append(Append(d, f), h), p, n, h)
  BY <1>1, <1>2, <1>4, PutOther
<1> QED
  BY <1>1, <1>2, <1>5

LEMMA CatHeading ==
  ASSUME NEW d \in Seq(Marks), NEW a \in Marks, NEW b \in Marks, NEW c \in Marks
  PROVE  d \o (<<a>> \o <<b, c>>) = Append(Append(Append(d, a), b), c)
  OBVIOUS

LEMMA Cat ==
  ASSUME NEW A, NEW d \in Seq(A), NEW a \in A, NEW b \in A, NEW c \in A
  PROVE  /\ d \o <<a>> = Append(d, a)
         /\ d \o <<a, b>> = Append(Append(d, a), b)
         /\ d \o <<a, b, c>> = Append(Append(Append(d, a), b), c)
<1>1. d \o <<a>> = Append(d, a)
  OBVIOUS
<1>2. d \o <<a, b>> = Append(Append(d, a), b)
  OBVIOUS
<1>3. d \o <<a, b, c>> = Append(Append(Append(d, a), b), c)
  OBVIOUS
<1> QED
  BY <1>1, <1>2, <1>3
-----------------------------------------------------------------------------
(***************************************************************************)
(* The document.                                                           *)
(***************************************************************************)
LEMMA GreaterOfTwo ==
  ASSUME NEW a \in Nat, NEW b \in Nat
  PROVE  Max({a, b}) \in Nat /\ Max({a, b}) >= a /\ Max({a, b}) >= b
<1> DEFINE S == {a, b}
<1>1. \E x \in S : \A v \in S : x >= v
  <2>1. CASE a >= b
    BY <2>1
  <2>2. CASE b >= a
    BY <2>2
  <2> QED
    BY <2>1, <2>2
<1>2. Max(S) \in S /\ \A v \in S : Max(S) >= v
  BY <1>1 DEF Max
<1> QED
  BY <1>2

LEMMA Heights ==
  ASSUME NEW n \in Nat
  PROVE  InformationHeight(n) \in Nat
<1>1. 42 + 13 * n \in Nat /\ 92 \in Nat
  OBVIOUS
<1> QED
  BY <1>1, GreaterOfTwo DEF InformationHeight

LEMMA RowHeights ==
  ASSUME NEW lines, Len(lines) \in Nat
  PROVE  RowHeight(lines) \in Nat
<1>1. 11 * Len(lines) + 14 \in Nat /\ 36 \in Nat
  OBVIOUS
<1> QED
  BY <1>1, GreaterOfTwo DEF RowHeight

\* Only the header is drawn, or the first page is on its way.
Begun(d) == IF Len(d) = 1 THEN ~Spills(d[1]) ELSE Spilled(d)

\* What ReadingOrder and OnlyOversizedSpills need: how far the document has come, and what
\* was drawn last and where.
PageInv ==
  /\ pc \in Undrawn => page = 0 /\ drawn = <<>>
  /\ pc = "information" =>
       page = 1 /\ drawn = <<Mark("header", 1, 39, 57, 0)>>
  /\ pc = "rows" => \E m \in Marks :
       /\ page \in Nat \ {0}
       /\ Page(drawn, page - 1, RowsDrawn, m)
       /\ m.what \in {"table", "row"} /\ m.page = page /\ m.bottom = y
       /\ RowsDrawn \in 0..Len(concepts)
  /\ pc = "notes" => \E m \in Marks :
       /\ page \in Nat \ {0}
       /\ Page(drawn, page - 1, Len(concepts), m)
       /\ m.what \in {"notes", "note"} /\ m.page = page /\ m.bottom <= y
       /\ y \in Nat
  /\ pc = "done" => \E m \in Marks : page \in Nat \ {0} /\ Page(drawn, page, Len(concepts), m)
  /\ pc = "failed" =>
       /\ page \in Nat \ {0}
       /\ Begun(drawn)
       /\ \E n \in Nat, m \in Marks : Laid(drawn, page - 1, n, m)
  /\ pending.lines \in Nat
  /\ pc \in Undrawn \cup {"information", "rows", "notes", "done", "failed"}

LEMMA HeaderLaid ==
  ASSUME NEW h, h = Mark("header", 1, 39, 57, 0)
  PROVE  h \in Marks /\ Laid(<<h>>, 0, 0, h) /\ ~Spills(h)
<1>1. /\ h \in Marks
      /\ h.what = "header" /\ h.page = 1 /\ h.top = 39 /\ h.bottom = 39 + 57
  <2>1. "header" \in Kinds /\ 1 \in Nat /\ 39 \in Nat /\ 39 + 57 \in Nat /\ 0 \in Nat
    BY DEF Kinds
  <2> QED
    BY <2>1 DEF Mark, Marks
<1>2. ~Spills(h)
  BY <1>1 DEF Spills, FooterTop
<1>3. <<h>> = Append(<<>>, h) /\ <<>> \in Seq(Marks)
  OBVIOUS
<1>4. Only("footer", <<h>>) = <<>> /\ Only("row", <<h>>) = <<>>
  <2>1. h.what # "footer" /\ h.what # "row"
    BY <1>1
  <2> DEFINE z == <<>>
  <2>2. z \in Seq(Marks) /\ <<h>> = Append(z, h)
    BY <1>3
  <2>3. Only("footer", z) = <<>> /\ Only("row", z) = <<>>
    BY OnlyOfNone
  <2> HIDE DEF z
  <2>4. \A what : what # h.what => Only(what, Append(z, h)) = Only(what, z)
    BY <1>1, <2>2, OnlyAppend
  <2> QED
    BY <2>1, <2>2, <2>3, <2>4, Zenon
<1> DEFINE d == <<h>>
<1>5. d \in Seq(Marks) /\ Len(d) = 1 /\ d[1] = h
  BY <1>1
<1>6. Footers(Only("footer", d), 0) /\ Rows(Only("row", d), 0)
  <2>1. Len(<<>>) = 0
    OBVIOUS
  <2> QED
    BY <1>4, <2>1 DEF Footers, Rows
<1> HIDE DEF d
<1>7. Laid(d, 0, 0, h)
  <2>1. Len(d) \in Nat \ {0} /\ d[Len(d)] = h
    BY <1>5
  <2>2. d[1].what \notin {"row", "note"}
    BY <1>1, <1>5
  <2>3. \A i \in 2..Len(d) : FALSE
    BY <1>5
  <2> QED
    BY <1>5, <1>6, <2>1, <2>2, <2>3 DEF Laid
<1> QED
  BY <1>1, <1>2, <1>7 DEF d

LEMMA Appended ==
  ASSUME NEW A, NEW d \in Seq(A), NEW m \in A
  PROVE  /\ Append(d, m) \in Seq(A) /\ Len(Append(d, m)) = Len(d) + 1
         /\ Append(d, m)[Len(d) + 1] = m
  OBVIOUS

LEMMA Kept ==
  ASSUME NEW A, NEW d \in Seq(A), NEW m \in A
  PROVE  \A i \in 1..Len(d) : Append(d, m)[i] = d[i]
  OBVIOUS

LEMMA ThenThree ==
  ASSUME NEW A, NEW h \in A, NEW i \in A, NEW t \in A, NEW b \in A,
         NEW d, d \in Seq(A), Len(d) = 1, d[1] = h
  PROVE  LET e == Append(Append(Append(d, i), t), b)
         IN  /\ e \in Seq(A) /\ Len(e) = 4
             /\ e[1] = h /\ e[2] = i /\ e[3] = t /\ e[4] = b
<1> DEFINE d2 == Append(d, i)
           d3 == Append(d2, t)
           d4 == Append(d3, b)
<1>0. 1 + 1 = 2 /\ 2 + 1 = 3 /\ 3 + 1 = 4
      /\ 1 \in 1..1 /\ 1 \in 1..2 /\ 2 \in 1..2 /\ 1 \in 1..3 /\ 2 \in 1..3 /\ 3 \in 1..3
  OBVIOUS
<1>1. d2 \in Seq(A)
  BY Appended, Zenon
<1>2. Len(d2) = 2
  <2>1. Len(d2) = Len(d) + 1
    BY Appended, Zenon
  <2> QED
    BY <1>0, <2>1, Zenon
<1>3. d2[1] = h
  <2>1. 1 \in 1..Len(d)
    BY <1>0, Zenon
  <2>2. \A j \in 1..Len(d) : d2[j] = d[j]
    BY Kept, Zenon
  <2> QED
    BY <2>1, <2>2, Zenon
<1>4. d2[2] = i
  <2>1. d2[Len(d) + 1] = i
    BY Appended, Zenon
  <2> QED
    BY <1>0, <2>1, Zenon
<1> HIDE DEF d2
<1>5. d3 \in Seq(A)
  BY <1>1, Appended, Zenon
<1>6. Len(d3) = 3
  <2>1. Len(d3) = Len(d2) + 1
    BY <1>1, Appended, Zenon
  <2> QED
    BY <1>0, <1>2, <2>1, Zenon
<1>7. d3[1] = h /\ d3[2] = i
  <2>1. 1 \in 1..Len(d2) /\ 2 \in 1..Len(d2)
    BY <1>0, <1>2, Zenon
  <2>2. d3[1] = d2[1] /\ d3[2] = d2[2]
    <3>1. \A j \in 1..Len(d2) : d3[j] = d2[j]
      BY <1>1, Kept, Zenon
    <3> QED
      BY <2>1, <3>1, Zenon
  <2> QED
    BY <2>2, <1>3, <1>4, Zenon
<1>8. d3[3] = t
  <2>1. d3[Len(d2) + 1] = t
    BY <1>1, Appended, Zenon
  <2> QED
    BY <1>0, <1>2, <2>1, Zenon
<1> HIDE DEF d3
<1>9. d4 \in Seq(A)
  BY <1>5, Appended, Zenon
<1>10. Len(d4) = 4
  <2>1. Len(d4) = Len(d3) + 1
    BY <1>5, Appended, Zenon
  <2> QED
    BY <1>0, <1>6, <2>1, Zenon
<1>11. d4[1] = h /\ d4[2] = i /\ d4[3] = t
  <2>1. 1 \in 1..Len(d3) /\ 2 \in 1..Len(d3) /\ 3 \in 1..Len(d3)
    BY <1>0, <1>6, Zenon
  <2>2. d4[1] = d3[1] /\ d4[2] = d3[2] /\ d4[3] = d3[3]
    <3>1. \A j \in 1..Len(d3) : d4[j] = d3[j]
      BY <1>5, Kept, Zenon
    <3> QED
      BY <2>1, <3>1, Zenon
  <2> QED
    BY <2>2, <1>7, <1>8, Zenon
<1>12. d4[4] = b
  <2>1. d4[Len(d3) + 1] = b
    BY <1>5, Appended, Zenon
  <2> QED
    BY <1>0, <1>6, <2>1, Zenon
<1> HIDE DEF d4
<1>13. /\ d4 \in Seq(A) /\ Len(d4) = 4
       /\ d4[1] = h /\ d4[2] = i /\ d4[3] = t /\ d4[4] = b
  BY <1>9, <1>10, <1>11, <1>12
<1> QED
  BY <1>13, Zenon DEF d4, d3, d2

LEMMA PutPlain ==
  ASSUME NEW k \in Nat, NEW n \in Nat, NEW d, NEW a, NEW m \in Marks,
         Laid(d, k, n, a), m.what \notin {"footer", "row"}, Follows(a, m), Stands(a, m)
  PROVE  Laid(Append(d, m), k, n, m)
<1>1. Goes(a, m, k, n)
  BY DEF Goes
<1>2. Laid(Append(d, m), IF m.what = "footer" THEN k + 1 ELSE k,
           IF m.what = "row" THEN n + 1 ELSE n, m)
  BY <1>1, PutMark
<1> QED
  BY <1>2

\* The first page, as far as DrawInformation fills it.
LEMMA InformationLaid ==
  ASSUME NEW height \in Nat, NEW h, h = Mark("header", 1, 39, 57, 0),
         NEW i, i = Mark("information", 1, 118, height, 0),
         NEW t, t = Mark("title", 1, 118 + height + 28, 14, 0),
         NEW b, b = Mark("table", 1, 118 + height + 28 + 24, 28, 0)
  PROVE  /\ Page(<<h>> \o <<i, t, b>>, 0, 0, b)
         /\ b \in Marks
         /\ b.what = "table" /\ b.page = 1 /\ b.bottom = 118 + height + 28 + 24 + 28
<1>1. h \in Marks /\ Laid(<<h>>, 0, 0, h) /\ ~Spills(h)
  BY HeaderLaid
<1>2. h.what = "header" /\ h.page = 1 /\ h.bottom = 39 + 57
  BY DEF Mark
<1>3. /\ i \in Marks
      /\ i.what = "information" /\ i.page = 1 /\ i.top = 118 /\ i.bottom = 118 + height
  <2>1. "information" \in Kinds /\ 1 \in Nat /\ 118 \in Nat /\ 118 + height \in Nat /\ 0 \in Nat
    BY DEF Kinds
  <2> QED
    BY <2>1 DEF Mark, Marks
<1>4. /\ t \in Marks
      /\ t.what = "title" /\ t.page = 1 /\ t.top = 118 + height + 28
      /\ t.bottom = 118 + height + 28 + 14
  <2>1. /\ "title" \in Kinds /\ 1 \in Nat /\ 0 \in Nat
        /\ 118 + height + 28 \in Nat /\ 118 + height + 28 + 14 \in Nat
    BY DEF Kinds
  <2> QED
    BY <2>1 DEF Mark, Marks
<1>5. /\ b \in Marks
      /\ b.what = "table" /\ b.page = 1 /\ b.top = 118 + height + 28 + 24
      /\ b.bottom = 118 + height + 28 + 24 + 28
  <2>1. /\ "table" \in Kinds /\ 1 \in Nat /\ 0 \in Nat
        /\ 118 + height + 28 + 24 \in Nat /\ 118 + height + 28 + 24 + 28 \in Nat
    BY DEF Kinds
  <2> QED
    BY <2>1 DEF Mark, Marks
<1> DEFINE d1 == <<h>>
           d2 == Append(d1, i)
           d3 == Append(d2, t)
           d4 == Append(d3, b)
<1>6. <<h>> \o <<i, t, b>> = d4
  <2>1. d1 \in Seq(Marks)
    BY <1>1
  <2> HIDE DEF d1
  <2>2. d1 \o <<i, t, b>> = d4
    BY <1>3, <1>4, <1>5, <2>1, Cat
  <2> QED
    BY <2>2 DEF d1
<1>7. /\ d4 \in Seq(Marks) /\ Len(d4) = 4
      /\ d4[1] = h /\ d4[2] = i /\ d4[3] = t /\ d4[4] = b
  <2>1. d1 \in Seq(Marks) /\ Len(d1) = 1 /\ d1[1] = h
    BY <1>1
  <2> HIDE DEF d1
  <2> QED
    <3>1. h \in Marks /\ i \in Marks /\ t \in Marks /\ b \in Marks
      BY <1>1, <1>3, <1>4, <1>5
    <3> QED
      BY <2>1, <3>1, ThenThree
<1> HIDE DEF d1
<1>8. Laid(d2, 0, 0, i)
  <2>1. Follows(h, i) /\ Stands(h, i)
    BY <1>2, <1>3 DEF Follows, Stands
  <2> QED
    BY <1>1, <1>3, <2>1, PutPlain DEF d1
<1> HIDE DEF d2
<1>9. Laid(d3, 0, 0, t)
  <2>1. Follows(i, t) /\ Stands(i, t)
    BY <1>3, <1>4 DEF Follows, Stands
  <2> QED
    BY <1>8, <1>4, <2>1, PutPlain
<1> HIDE DEF d3
<1>10. Laid(d4, 0, 0, b)
  <2>1. Follows(t, b) /\ Stands(t, b)
    BY <1>4, <1>5 DEF Follows, Stands
  <2> QED
    BY <1>9, <1>5, <2>1, PutPlain
<1> HIDE DEF d4
<1>11. Spilled(d4)
  <2>1. \A j \in 1..Len(d4) : j \in {1, 2, 3, 4}
    BY <1>7
  <2>2. \A j \in {2, 3, 4} : Spills(d4[j]) =>
          /\ d4[j].what \in {"information", "title", "table"}
          /\ d4[j].page = 1
          /\ d4[2].bottom + 28 + 24 + 28 > FooterTop
    BY <1>3, <1>4, <1>5, <1>7 DEF Spills, FooterTop
  <2>3. Len(d4) >= 2 /\ ~Spills(d4[1])
    BY <1>1, <1>7
  <2>4. \A j \in 1..Len(d4) : Spills(d4[j]) =>
          /\ d4[j].what \in {"information", "title", "table"}
          /\ d4[j].page = 1
          /\ d4[2].bottom + 28 + 24 + 28 > FooterTop
    BY <2>1, <2>2, <2>3
  <2> QED
    BY <2>3, <2>4 DEF Spilled
<1> QED
  BY <1>5, <1>6, <1>10, <1>11 DEF Page

\* A row below the last one, or on a page of its own.
LEMMA RowBelow ==
  ASSUME NEW p \in Nat \ {0}, NEW n \in Nat, NEW d, NEW a, NEW height \in Nat, NEW top,
         Page(d, p - 1, n, a), a.what \in {"table", "row"}, a.page = p, a.bottom = top,
         ~(top + height > 650),
         NEW r, r = Mark("row", p, top, height, n + 1)
  PROVE  /\ Page(d \o <<r>>, p - 1, n + 1, r)
         /\ r \in Marks
         /\ r.what = "row" /\ r.page = p /\ r.bottom = top + height
<1>1. a \in Marks /\ d \in Seq(Marks) /\ top \in Nat
  <2>1. d \in Seq(Marks) /\ Len(d) \in Nat \ {0} /\ d[Len(d)] = a
    BY DEF Page, Laid
  <2>2. a \in Marks
    BY <2>1
  <2> QED
    BY <2>1, <2>2 DEF Marks
<1>2. /\ r \in Marks
      /\ r.what = "row" /\ r.page = p /\ r.top = top /\ r.bottom = top + height /\ r.n = n + 1
  <2>1. "row" \in Kinds /\ top + height \in Nat /\ n + 1 \in Nat
    BY <1>1 DEF Kinds
  <2> QED
    BY <1>1, <2>1 DEF Mark, Marks
<1>3. ~Spills(r)
  BY <1>1, <1>2 DEF Spills, FooterTop
<1>4. a.bottom <= r.top /\ p - 1 \in Nat
  BY <1>1, <1>2
<1>5. Page(Append(d, r), p - 1, n + 1, r)
  BY <1>2, <1>3, <1>4, PutRow
<1>6. d \o <<r>> = Append(d, r)
  BY <1>1
<1> QED
  BY <1>2, <1>5, <1>6

\* The next page: the footer of this one and the head of that.
LEMMA NextPage ==
  ASSUME NEW p \in Nat \ {0}, NEW n \in Nat, NEW d, NEW a, NEW f, NEW h,
         f = Mark("footer", p, FooterTop, 16, p), h = Mark("continuation", p + 1, 38, 17, 0),
         Page(d, p - 1, n, a), a.what # "footer", a.page = p
  PROVE  /\ Page(d \o <<f, h>>, p, n, h) /\ d \o <<f, h>> \in Seq(Marks) /\ h \in Marks
         /\ h.what = "continuation" /\ h.page = p + 1 /\ h.bottom = 55
<1>1. /\ Page(Append(Append(d, f), h), p, n, h)
      /\ f \in Marks /\ h \in Marks
      /\ h.what = "continuation" /\ h.page = p + 1 /\ h.bottom = 55
  BY PageTurns
<1>2. d \in Seq(Marks)
  BY DEF Page, Laid
<1>3. d \o <<f, h>> = Append(Append(d, f), h)
  BY <1>1, <1>2, Cat
<1>4. Append(Append(d, f), h) \in Seq(Marks)
  BY <1>1 DEF Page, Laid
<1> QED
  BY <1>1, <1>3, <1>4

\* Where a mark is.
At(m, what, p, top, height) ==
  m \in Marks /\ m.what = what /\ m.page = p /\ m.top = top /\ m.bottom = top + height

LEMMA MarkAt ==
  ASSUME NEW what \in Kinds, NEW p \in Nat, NEW top \in Nat, NEW height \in Nat, NEW n \in Nat
  PROVE  At(Mark(what, p, top, height, n), what, p, top, height)
<1>1. top + height \in Nat
  OBVIOUS
<1> QED
  BY <1>1 DEF At, Mark, Marks

LEMMA RowOnNext ==
  ASSUME NEW q \in Nat, q > 1, NEW k \in Nat, NEW n \in Nat, NEW s \in Seq(Marks),
         NEW height \in Nat,
         NEW h, Page(s, k, n, h), At(h, "continuation", q, 38, 17),
         NEW t, At(t, "table", q, 92, 28),
         NEW r, At(r, "row", q, 120, height), r.n = n + 1
  PROVE  Page(s \o Append(<<t>>, r), k, n + 1, r)
<1>1. t \in Marks /\ r \in Marks
  BY DEF At
<1>2. Page(Append(s, t), k, n, t)
  <2>1. Follows(h, t) /\ Stands(h, t) /\ ~Spills(t) /\ t.what = "table"
    BY DEF At, Follows, Stands, Spills, FooterTop
  <2> QED
    BY <1>1, <2>1, PutOther
<1>3. Page(Append(Append(s, t), r), k, n + 1, r)
  <2>1. /\ t.bottom <= r.top /\ r.page > 1 /\ r.what = "row" /\ t.what = "table"
        /\ t.page = r.page
    BY DEF At
  <2> QED
    BY <1>1, <1>2, <2>1, PutRow
<1>4. s \o Append(<<t>>, r) = Append(Append(s, t), r)
  BY <1>1
<1> QED
  BY <1>3, <1>4

\* The summary and the title of the notes, below something that ends at `top` or above.
LEMMA SummaryBelow ==
  ASSUME NEW q \in Nat, NEW k \in Nat, NEW n \in Nat, NEW s \in Seq(Marks),
         NEW top \in Nat, top <= 500,
         NEW a, Page(s, k, n, a), a.page = q, a.bottom <= top,
         NEW u, At(u, "totals", q, top, 4 * 27),
         NEW v, At(v, "notes", q, top + 116, 14)
  PROVE  Page(Append(Append(s, u), v), k, n, v) /\ u \in Marks /\ v \in Marks
<1>1. u \in Marks /\ v \in Marks
  BY DEF At
<1>2. Page(Append(s, u), k, n, u)
  <2>1. Follows(a, u) /\ Stands(a, u) /\ ~Spills(u) /\ u.what = "totals"
    BY DEF At, Follows, Stands, Spills, FooterTop
  <2> QED
    BY <1>1, <2>1, PutOther
<1>3. Page(Append(Append(s, u), v), k, n, v)
  <2>1. Follows(u, v) /\ Stands(u, v) /\ ~Spills(v) /\ v.what = "notes"
    BY DEF At, Follows, Stands, Spills, FooterTop
  <2> QED
    BY <1>1, <1>2, <2>1, PutOther
<1> QED
  BY <1>1, <1>3

LEMMA SummaryOnNext ==
  ASSUME NEW q \in Nat, NEW k \in Nat, NEW n \in Nat, NEW s \in Seq(Marks),
         NEW h, Page(s, k, n, h), At(h, "continuation", q, 38, 17),
         NEW t, At(t, "title", q, 92, 14),
         NEW top \in Nat, 106 <= top, top <= 500,
         NEW u, At(u, "totals", q, top, 4 * 27),
         NEW v, At(v, "notes", q, top + 116, 14)
  PROVE  Page(s \o (<<t>> \o <<u, v>>), k, n, v)
<1>1. t \in Marks /\ t.page = q /\ t.bottom <= top
  BY DEF At
<1>2. Page(Append(s, t), k, n, t)
  <2>1. Follows(h, t) /\ Stands(h, t) /\ ~Spills(t) /\ t.what = "title"
    BY DEF At, Follows, Stands, Spills, FooterTop
  <2> QED
    BY <1>1, <2>1, PutOther
<1>3. Append(s, t) \in Seq(Marks)
  BY <1>1
<1>4. Page(Append(Append(Append(s, t), u), v), k, n, v) /\ u \in Marks /\ v \in Marks
  BY <1>1, <1>2, <1>3, SummaryBelow
<1>5. s \o (<<t>> \o <<u, v>>) = Append(Append(Append(s, t), u), v)
  <2>1. t \in Marks /\ u \in Marks /\ v \in Marks
    BY <1>1, <1>4
  <2> QED
    BY <2>1, CatHeading
<1> QED
  BY <1>4, <1>5

\* A line of the notes.
LEMMA NoteBelow ==
  ASSUME NEW q \in Nat, NEW k \in Nat, NEW n \in Nat, NEW s \in Seq(Marks),
         NEW top \in Nat, ~(top + 12 > 720),
         NEW a, Page(s, k, n, a), a.what \in {"notes", "note"}, a.page = q, a.bottom <= top,
         NEW m, At(m, "note", q, top, 12)
  PROVE  Page(Append(s, m), k, n, m)
<1>1. m \in Marks /\ m.what = "note" /\ Follows(a, m) /\ Stands(a, m) /\ ~Spills(m)
  BY DEF At, Follows, Stands, Spills, FooterTop
<1> QED
  BY <1>1, PutOther

LEMMA NoteOnNext ==
  ASSUME NEW q \in Nat, NEW k \in Nat, NEW n \in Nat, NEW s \in Seq(Marks),
         NEW h, Page(s, k, n, h), At(h, "continuation", q, 38, 17),
         NEW t, At(t, "notes", q, 90, 14),
         NEW top \in Nat, 104 <= top, ~(top + 12 > 720),
         NEW m, At(m, "note", q, top, 12)
  PROVE  Page(s \o (<<t>> \o <<m>>), k, n, m)
<1>1. t \in Marks /\ t.page = q /\ t.bottom <= top /\ t.what \in {"notes", "note"} /\ m \in Marks
  BY DEF At
<1>2. Page(Append(s, t), k, n, t)
  <2>1. Follows(h, t) /\ Stands(h, t) /\ ~Spills(t) /\ t.what = "notes"
    BY DEF At, Follows, Stands, Spills, FooterTop
  <2> QED
    BY <1>1, <2>1, PutOther
<1>3. Append(s, t) \in Seq(Marks)
  BY <1>1
<1>4. Page(Append(Append(s, t), m), k, n, m)
  BY <1>1, <1>2, <1>3, NoteBelow
<1>5. s \o (<<t>> \o <<m>>) = Append(Append(s, t), m)
  BY <1>1
<1> QED
  BY <1>4, <1>5

\* The line to sign on, and the last footer.
LEMMA Signed ==
  ASSUME NEW q \in Nat \ {0}, NEW n \in Nat, NEW s \in Seq(Marks),
         NEW top \in Nat, top + 51 <= 730,
         NEW a, Page(s, q - 1, n, a), a.page = q, a.bottom <= top,
         NEW g, At(g, "signature", q, top, 19),
         NEW f, f = Mark("footer", q, FooterTop, 16, q)
  PROVE  Page(s \o <<g, f>>, q, n, f) /\ f \in Marks
<1>1. g \in Marks /\ g.what = "signature" /\ g.page = q
  BY DEF At
<1>2. Page(Append(s, g), q - 1, n, g)
  <2>1. Follows(a, g) /\ Stands(a, g) /\ ~Spills(g) /\ q - 1 \in Nat
    BY DEF At, Follows, Stands, Spills, FooterTop
  <2> QED
    BY <1>1, <2>1, PutOther
<1>3. Page(Append(Append(s, g), f), q, n, f) /\ f \in Marks
  BY <1>1, <1>2, PutFooter
<1>4. s \o <<g, f>> = Append(Append(s, g), f)
  BY <1>1, <1>3
<1> QED
  BY <1>3, <1>4

LEMMA PageInit == Init => PageInv
<1> SUFFICES ASSUME Init PROVE PageInv
  OBVIOUS
<1>1. pc = "price" /\ page = 0 /\ drawn = <<>> /\ pending = [lines |-> 0, paragraphs |-> 3]
  BY DEF Init
<1>2. pending.lines \in Nat
  BY <1>1
<1> QED
  BY <1>1, <1>2 DEF PageInv, Undrawn, Unpriced

\* What is drawn when the next thing is.
LEMMA RowsOf ==
  ASSUME NEW d, NEW k, NEW n, NEW m, Page(d, k, n, m)
  PROVE  Len(Only("row", d)) = n /\ d \in Seq(Marks) /\ m \in Marks
<1>1. d \in Seq(Marks) /\ Len(d) \in Nat \ {0} /\ d[Len(d)] = m /\ Rows(Only("row", d), n)
  BY DEF Page, Laid
<1> QED
  BY <1>1 DEF Rows

\* The document with this page closed and the next one headed.
Turned == drawn \o <<drawFooter, addPage>>

LEMMA TurnedLaid ==
  ASSUME page \in Nat \ {0}, NEW n \in Nat, NEW m,
         Page(drawn, page - 1, n, m), m.what # "footer", m.page = page
  PROVE  /\ Page(Turned, page, n, addPage) /\ Turned \in Seq(Marks)
         /\ At(addPage, "continuation", page + 1, 38, 17)
<1>1. Page(Turned, page, n, addPage) /\ Turned \in Seq(Marks)
  <2>1. drawFooter = Mark("footer", page, FooterTop, 16, page)
    BY DEF drawFooter
  <2>2. addPage = Mark("continuation", page + 1, 38, 17, 0)
    BY DEF addPage
  <2> QED
    BY <2>1, <2>2, NextPage DEF Turned
<1>2. At(addPage, "continuation", page + 1, 38, 17)
  <2>1. "continuation" \in Kinds /\ page + 1 \in Nat
    BY DEF Kinds
  <2> QED
    BY <2>1, MarkAt DEF addPage
<1> QED
  BY <1>1, <1>2

LEMMA HeaderNext ==
  ASSUME PageInv, NEW option \in Options, GeneratePDF(option)
  PROVE  PageInv'
<1>1. /\ pc = "stored" /\ pc' = "information" /\ page' = 1
      /\ drawn' = drawn \o <<drawHeader>> /\ pending' = pending
  BY DEF GeneratePDF, Draw
<1>2. drawn = <<>> /\ pending.lines \in Nat
  BY <1>1 DEF PageInv, Undrawn
<1>3. drawn' = <<Mark("header", 1, 39, 57, 0)>>
  BY <1>1, <1>2 DEF drawHeader
<1> QED
  BY <1>1, <1>2, <1>3 DEF PageInv, Undrawn, Unpriced

LEMMA InformationNext ==
  ASSUME SumsInv, PageInv, NEW customer \in CustomerTexts, NEW payment \in PaymentTexts,
         DrawInformation(customer, payment)
  PROVE  PageInv'
<1> DEFINE height == InformationHeight(Max({Len(wrap(customer)), Len(wrap(payment))}))
           h == Mark("header", 1, 39, 57, 0)
           i == Mark("information", 1, 118, height, 0)
           t == Mark("title", 1, 118 + height + 28, 14, 0)
           b == Mark("table", 1, 118 + height + 28 + 24, 28, 0)
<1>1. height \in Nat
  <2>1. customer \in Texts /\ payment \in Texts
    BY TextsAssumption
  <2>2. Len(wrap(customer)) \in Nat /\ Len(wrap(payment)) \in Nat
    BY <2>1, WrapType
  <2>3. Max({Len(wrap(customer)), Len(wrap(payment))}) \in Nat
    BY <2>2, GreaterOfTwo
  <2> QED
    BY <2>3, Heights
<1>2. pc = "information" /\ page = 1 /\ drawn = <<h>> /\ pending.lines \in Nat
  BY DEF DrawInformation, PageInv
<1>3. /\ pc' = "rows" /\ page' = 1 /\ pending' = pending
      /\ drawn' = <<h>> \o <<i, t, b>>
      /\ y' = 118 + height + 28 + 24 + 28
      /\ concepts' = concepts
  BY <1>2 DEF DrawInformation, Draw
<1> HIDE DEF height
<1>4. /\ Page(<<h>> \o <<i, t, b>>, 0, 0, b)
      /\ b \in Marks
      /\ b.what = "table" /\ b.page = 1 /\ b.bottom = 118 + height + 28 + 24 + 28
  BY <1>1, InformationLaid
<1> HIDE DEF h, i, t, b
<1>5. Page(drawn', 0, 0, b)
  BY <1>3, <1>4
<1>6. RowsDrawn' = 0
  BY <1>5, RowsOf DEF RowsDrawn
<1>7. Len(concepts) \in Nat
  BY DEF SumsInv
<1> QED
  BY <1>2, <1>3, <1>4, <1>5, <1>6, <1>7 DEF PageInv, Undrawn, Unpriced

LEMMA RowNext ==
  ASSUME SumsInv, PageInv, DrawRow
  PROVE  PageInv'
<1> DEFINE n == RowsDrawn
           lines == wrap(concepts[n + 1].item.text)
           height == RowHeight(lines)
<1>1. PICK m \in Marks :
        /\ page \in Nat \ {0}
        /\ Page(drawn, page - 1, n, m)
        /\ m.what \in {"table", "row"} /\ m.page = page /\ m.bottom = y
        /\ n \in 0..Len(concepts)
  BY DEF DrawRow, PageInv
<1>2. n + 1 \in 1..Len(concepts) /\ n \in Nat
  <2>1. concepts \in Seq(Priced) /\ Len(concepts) \in Nat
    BY DEF SumsInv
  <2>2. n + 1 <= Len(concepts)
    BY DEF DrawRow
  <2> QED
    BY <1>1, <2>1, <2>2
<1>3. height \in Nat
  <2>1. concepts[n + 1] \in Priced
    BY <1>2 DEF SumsInv
  <2>2. PICK item \in Items : concepts[n + 1] = calculate(item)
    BY <2>1 DEF Priced
  <2>3. concepts[n + 1].item.text \in Texts
    BY <2>2, ItemsAssumption DEF calculate
  <2>4. Len(lines) \in Nat
    BY <2>3, WrapType
  <2> HIDE DEF lines
  <2> QED
    BY <2>4, RowHeights
<1>4. pc = "rows" /\ pc' = "rows" /\ concepts' = concepts /\ pending' = pending
  BY DEF DrawRow
<1>5. y \in Nat /\ m.what # "footer" /\ page \in Nat
  BY <1>1 DEF Marks
<1>6. CASE BreaksRow(height)
  <2> DEFINE q == page + 1
             t == Mark("table", q, 92, 28, 0)
             r == Mark("row", q, 120, height, n + 1)
  <2>1. /\ drawn' = Turned \o Append(<<t>>, r)
        /\ page' = q /\ y' = 120 + height
    BY <1>6 DEF DrawRow, TurnPage, Turned, RowHeadings, drawConceptRow
  <2>2. /\ Page(Turned, page, n, addPage) /\ Turned \in Seq(Marks)
        /\ At(addPage, "continuation", q, 38, 17)
    <3> HIDE DEF n
    <3> QED
      BY <1>1, <1>2, <1>5, TurnedLaid
  <2>3. q \in Nat /\ q > 1 /\ q \in Nat \ {0} /\ q - 1 = page
    BY <1>1
  <2> HIDE DEF q, n, height
  <2>4. At(t, "table", q, 92, 28)
    <3>1. "table" \in Kinds
      BY DEF Kinds
    <3> QED
      BY <2>3, <3>1, MarkAt
  <2>5. At(r, "row", q, 120, height) /\ r.n = n + 1
    <3>1. "row" \in Kinds /\ n + 1 \in Nat
      BY <1>2 DEF Kinds
    <3>2. r.n = n + 1
      BY DEF Mark
    <3> QED
      BY <1>3, <2>3, <3>1, <3>2, MarkAt
  <2> HIDE DEF t, r
  <2>6. Page(drawn', page, n + 1, r)
    BY <1>2, <1>3, <1>5, <2>1, <2>2, <2>3, <2>4, <2>5, RowOnNext
  <2>7. RowsDrawn' = n + 1
    BY <2>6, RowsOf DEF RowsDrawn
  <2>8. /\ r \in Marks /\ r.what \in {"table", "row"} /\ r.page = page' /\ r.bottom = y'
        /\ page' \in Nat \ {0} /\ Page(drawn', page' - 1, RowsDrawn', r)
        /\ RowsDrawn' \in 0..Len(concepts')
    BY <1>2, <1>4, <2>1, <2>3, <2>5, <2>6, <2>7 DEF At
  <2> QED
    BY <1>4, <2>8 DEF PageInv, Undrawn, Unpriced
<1>7. CASE ~BreaksRow(height)
  <2> DEFINE r == Mark("row", page, y, height, n + 1)
  <2>1. drawn' = drawn \o <<r>> /\ page' = page /\ y' = y + height
    BY <1>7 DEF DrawRow, Draw, drawConceptRow
  <2>2. ~(y + height > 650)
    BY <1>7 DEF BreaksRow
  <2> HIDE DEF n, height
  <2>3. /\ Page(drawn \o <<r>>, page - 1, n + 1, r)
        /\ r \in Marks
        /\ r.what = "row" /\ r.page = page /\ r.bottom = y + height
    BY <1>1, <1>2, <1>3, <2>2, RowBelow
  <2> HIDE DEF r
  <2>4. Page(drawn', page - 1, n + 1, r)
    BY <2>1, <2>3
  <2>5. RowsDrawn' = n + 1
    BY <2>4, RowsOf DEF RowsDrawn
  <2>6. /\ r \in Marks /\ r.what \in {"table", "row"} /\ r.page = page' /\ r.bottom = y'
        /\ page' \in Nat \ {0} /\ Page(drawn', page' - 1, RowsDrawn', r)
        /\ RowsDrawn' \in 0..Len(concepts')
    BY <1>1, <1>2, <1>4, <2>1, <2>3, <2>4, <2>5
  <2> QED
    BY <1>4, <2>6 DEF PageInv, Undrawn, Unpriced
<1> QED
  BY <1>6, <1>7

LEMMA TotalsNext ==
  ASSUME SumsInv, PageInv, DrawTotals
  PROVE  PageInv'
<1> DEFINE n == Len(concepts)
           top == IF TotalsBreak THEN 92 + 28 ELSE y
           q == IF TotalsBreak THEN page + 1 ELSE page
           u == Mark("totals", q, top, 4 * 27, 0)
           v == Mark("notes", q, top + 116, 14, 0)
<1>1. PICK m \in Marks :
        /\ page \in Nat \ {0}
        /\ Page(drawn, page - 1, n, m)
        /\ m.what \in {"table", "row"} /\ m.page = page /\ m.bottom = y
  BY DEF DrawTotals, PageInv
<1>2. n \in Nat /\ y \in Nat /\ m.what # "footer" /\ page \in Nat /\ page - 1 \in Nat
      /\ drawn \in Seq(Marks)
  <2>1. concepts \in Seq(Priced)
    BY DEF SumsInv
  <2>2. n \in Nat /\ y \in Nat /\ m.what # "footer" /\ page \in Nat /\ page - 1 \in Nat
    BY <1>1, <2>1 DEF Marks
  <2>3. drawn \in Seq(Marks)
    BY <1>1, RowsOf
  <2> QED
    BY <2>2, <2>3
<1>3. /\ pc' = "notes" /\ concepts' = concepts /\ pending' = pending
      /\ page' = q /\ y' = top + 116 + 22
      /\ pending.lines \in Nat
  BY DEF DrawTotals, PageInv
<1>4. top \in Nat /\ top <= 500 /\ q \in Nat \ {0}
  BY <1>1, <1>2 DEF TotalsBreak
<1>5. At(u, "totals", q, top, 4 * 27) /\ At(v, "notes", q, top + 116, 14)
  <2>1. {"totals", "notes"} \subseteq Kinds
    BY DEF Kinds
  <2> HIDE DEF top, q
  <2>2. top + 116 \in Nat /\ 4 * 27 \in Nat /\ q \in Nat
    BY <1>4
  <2> QED
    BY <1>4, <2>1, <2>2, MarkAt
<1>6. Page(drawn', q - 1, n, v)
  <2>1. CASE TotalsBreak
    <3> DEFINE t == Mark("title", page + 1, 92, 14, 0)
    <3>1. drawn' = Turned \o (<<t>> \o <<u, v>>)
      BY <2>1 DEF DrawTotals, TurnPage, Turned
    <3>2. q = page + 1 /\ q - 1 = page /\ 106 <= top
      BY <1>1, <2>1
    <3> HIDE DEF u, v, n, q, top
    <3>3. /\ Page(Turned, page, n, addPage) /\ Turned \in Seq(Marks)
          /\ At(addPage, "continuation", q, 38, 17)
      BY <1>1, <1>2, <3>2, TurnedLaid
    <3>4. At(t, "title", q, 92, 14)
      <4>1. "title" \in Kinds /\ page + 1 \in Nat
        BY <1>2 DEF Kinds
      <4> QED
        BY <3>2, <4>1, MarkAt
    <3> HIDE DEF t
    <3>5. Page(Turned \o (<<t>> \o <<u, v>>), page, n, v)
      BY <1>2, <1>4, <1>5, <3>2, <3>3, <3>4, SummaryOnNext
    <3> QED
      BY <3>1, <3>2, <3>5
  <2>2. CASE ~TotalsBreak
    <3>1. drawn' = drawn \o <<u, v>>
      BY <2>2 DEF DrawTotals, Draw
    <3>2. q = page /\ m.bottom <= top
      BY <1>1, <1>2, <2>2
    <3> HIDE DEF u, v, n, q, top
    <3>3. Page(Append(Append(drawn, u), v), page - 1, n, v) /\ u \in Marks /\ v \in Marks
      BY <1>1, <1>2, <1>4, <1>5, <3>2, SummaryBelow
    <3>4. drawn \o <<u, v>> = Append(Append(drawn, u), v)
      BY <1>2, <3>3
    <3> QED
      BY <3>1, <3>2, <3>3, <3>4
  <2> QED
    BY <2>1, <2>2
<1> HIDE DEF u, v, n, q, top
<1>7. v \in Marks /\ v.what = "notes" /\ v.page = q /\ v.bottom <= y' /\ y' \in Nat
  BY <1>3, <1>4, <1>5 DEF At
<1>8. n = Len(concepts')
  BY <1>3 DEF n
<1> QED
  BY <1>3, <1>4, <1>6, <1>7, <1>8 DEF PageInv, Undrawn, Unpriced

LEMMA NoteNext ==
  ASSUME SumsInv, PageInv, DrawNoteLine
  PROVE  PageInv'
<1> DEFINE n == Len(concepts)
           top == IF BreaksNote THEN NotesTop ELSE y
           q == IF BreaksNote THEN page + 1 ELSE page
           l == Mark("note", q, top, 12, 0)
<1>1. PICK m \in Marks :
        /\ page \in Nat \ {0}
        /\ Page(drawn, page - 1, n, m)
        /\ m.what \in {"notes", "note"} /\ m.page = page /\ m.bottom <= y
        /\ y \in Nat
  BY DEF DrawNoteLine, PageInv
<1>2. n \in Nat /\ m.what # "footer" /\ page \in Nat /\ page - 1 \in Nat
      /\ drawn \in Seq(Marks)
  <2>1. concepts \in Seq(Priced)
    BY DEF SumsInv
  <2> QED
    BY <1>1, <2>1, RowsOf
<1>3. /\ pc' = "notes" /\ concepts' = concepts
      /\ page' = q
      /\ pending.lines \in Nat /\ pending.lines > 0
      /\ pending' = [pending EXCEPT !.lines = @ - 1]
  BY DEF DrawNoteLine, PageInv
<1>4. top \in Nat /\ ~(top + 12 > 720) /\ q \in Nat \ {0} /\ q \in Nat
  BY <1>1, <1>2 DEF BreaksNote, NotesTop
<1>5. At(l, "note", q, top, 12)
  <2>1. "note" \in Kinds
    BY DEF Kinds
  <2> HIDE DEF top, q
  <2> QED
    BY <1>4, <2>1, MarkAt
<1>6. Page(drawn', q - 1, n, l)
  <2>1. CASE BreaksNote
    <3> DEFINE t == Mark("notes", page + 1, 90, 14, 0)
    <3>1. drawn' = Turned \o (<<t>> \o <<l>>)
      BY <2>1 DEF DrawNoteLine, TurnPage, Turned
    <3>2. q = page + 1 /\ q - 1 = page /\ 104 <= top
      BY <1>1, <2>1 DEF NotesTop
    <3> HIDE DEF l, n, q, top
    <3>3. /\ Page(Turned, page, n, addPage) /\ Turned \in Seq(Marks)
          /\ At(addPage, "continuation", q, 38, 17)
      BY <1>1, <1>2, <3>2, TurnedLaid
    <3>4. At(t, "notes", q, 90, 14)
      <4>1. "notes" \in Kinds /\ page + 1 \in Nat
        BY <1>2 DEF Kinds
      <4> QED
        BY <3>2, <4>1, MarkAt
    <3> HIDE DEF t
    <3>5. Page(Turned \o (<<t>> \o <<l>>), page, n, l)
      BY <1>2, <1>4, <1>5, <3>2, <3>3, <3>4, NoteOnNext
    <3> QED
      BY <3>1, <3>2, <3>5
  <2>2. CASE ~BreaksNote
    <3>1. drawn' = drawn \o <<l>>
      BY <2>2 DEF DrawNoteLine, Draw
    <3>2. q = page /\ m.bottom <= top
      BY <1>1, <2>2
    <3> HIDE DEF l, n, q, top
    <3>3. Page(Append(drawn, l), page - 1, n, l) /\ l \in Marks
      BY <1>1, <1>2, <1>4, <1>5, <3>2, NoteBelow DEF At
    <3>4. drawn \o <<l>> = Append(drawn, l)
      BY <1>2, <3>3
    <3> QED
      BY <3>1, <3>2, <3>3, <3>4
  <2> QED
    BY <2>1, <2>2
<1>7. y' = top + 12 + (IF pending.lines = 1 THEN 6 ELSE 0)
  BY DEF DrawNoteLine
<1>8. pending'.lines \in Nat
  <2>1. pending'.lines = pending.lines - 1 \/ pending'.lines = pending.lines
    BY <1>3
  <2> QED
    BY <1>3, <2>1
<1> HIDE DEF l, n, q, top
<1>9. l \in Marks /\ l.what = "note" /\ l.page = q /\ l.bottom <= y' /\ y' \in Nat
  BY <1>4, <1>5, <1>7 DEF At
<1>10. n = Len(concepts')
  BY <1>3 DEF n
<1> QED
  BY <1>3, <1>4, <1>6, <1>8, <1>9, <1>10 DEF PageInv, Undrawn, Unpriced

LEMMA SignatureNext ==
  ASSUME SumsInv, PageInv, DrawSignature
  PROVE  PageInv'
<1> DEFINE n == Len(concepts)
           breaks == y + 75 > 730
           top == IF breaks THEN 100 + 24 ELSE y + 24
           q == IF breaks THEN page + 1 ELSE page
           g == Mark("signature", q, top, 19, 0)
           f == Mark("footer", q, FooterTop, 16, q)
<1>1. PICK m \in Marks :
        /\ page \in Nat \ {0}
        /\ Page(drawn, page - 1, n, m)
        /\ m.what \in {"notes", "note"} /\ m.page = page /\ m.bottom <= y
        /\ y \in Nat
  BY DEF DrawSignature, PageInv
<1>2. n \in Nat /\ m.what # "footer" /\ m \in Marks /\ page \in Nat
  <2>1. concepts \in Seq(Priced)
    BY DEF SumsInv
  <2> QED
    BY <1>1, <2>1
<1>3. drawn \in Seq(Marks)
  BY <1>1, RowsOf
<1>4. /\ pc' = "done" /\ concepts' = concepts /\ pending' = pending /\ page' = q
      /\ pending.lines \in Nat
  BY DEF DrawSignature, PageInv
<1>5. top \in Nat /\ top + 51 <= 730 /\ q \in Nat \ {0} /\ q \in Nat
  BY <1>1
<1>6. At(g, "signature", q, top, 19)
  <2>1. "signature" \in Kinds
    BY DEF Kinds
  <2> HIDE DEF top, q
  <2> QED
    BY <1>5, <2>1, MarkAt
<1>7. Page(drawn', q, n, f) /\ f \in Marks
  <2>1. CASE breaks
    <3>1. drawn' = Turned \o <<g, f>>
      BY <2>1 DEF DrawSignature, TurnPage, Turned
    <3>2. q = page + 1 /\ q - 1 = page /\ 55 <= top
      BY <1>1, <2>1
    <3>3. f = Mark("footer", q, FooterTop, 16, q)
      OBVIOUS
    <3> HIDE DEF g, f, n, q, top, breaks
    <3>4. /\ Page(Turned, page, n, addPage) /\ Turned \in Seq(Marks)
          /\ At(addPage, "continuation", q, 38, 17)
      BY <1>1, <1>2, <3>2, TurnedLaid
    <3>5. addPage.page = q /\ addPage.bottom <= top
      BY <1>5, <3>2, <3>4 DEF At
    <3>6. Page(Turned, q - 1, n, addPage)
      BY <3>2, <3>4
    <3>7. Page(Turned \o <<g, f>>, q, n, f) /\ f \in Marks
      BY <1>2, <1>5, <1>6, <3>3, <3>4, <3>5, <3>6, Signed
    <3> QED
      BY <3>1, <3>7
  <2>2. CASE ~breaks
    <3>1. drawn' = drawn \o <<g, f>>
      BY <2>2 DEF DrawSignature, Draw
    <3>2. q = page /\ m.bottom <= top
      BY <1>1, <1>2, <2>2 DEF Marks
    <3>3. f = Mark("footer", q, FooterTop, 16, q)
      OBVIOUS
    <3> HIDE DEF g, f, n, q, top, breaks
    <3>4. m.page = q /\ Page(drawn, q - 1, n, m)
      BY <1>1, <3>2
    <3>5. Page(drawn \o <<g, f>>, q, n, f) /\ f \in Marks
      BY <1>2, <1>3, <1>5, <1>6, <3>2, <3>3, <3>4, Signed
    <3> QED
      BY <3>1, <3>5
  <2> QED
    BY <2>1, <2>2
<1> HIDE DEF g, f, n, q, top, breaks
<1>8. n = Len(concepts')
  BY <1>4 DEF n
<1> QED
  BY <1>4, <1>5, <1>7, <1>8 DEF PageInv, Undrawn, Unpriced

\* A failure leaves the document as it was.
LEMMA FailNext ==
  ASSUME SumsInv, PageInv, Fail
  PROVE  PageInv'
<1>1. /\ pc \in {"information", "rows", "notes"} /\ pc' = "failed"
      /\ UNCHANGED <<concepts, page, drawn, pending>>
  BY DEF Fail
<1>2. page \in Nat \ {0} /\ pending.lines \in Nat
  BY <1>1 DEF PageInv
<1>3. Begun(drawn) /\ \E n \in Nat, m \in Marks : Laid(drawn, page - 1, n, m)
  <2>1. CASE pc = "information"
    <3> DEFINE h == Mark("header", 1, 39, 57, 0)
               d == <<h>>
    <3>1. page = 1 /\ drawn = d
      BY <2>1 DEF PageInv
    <3>2. h \in Marks /\ Laid(d, 0, 0, h) /\ ~Spills(h)
      BY HeaderLaid
    <3>3. Len(d) = 1 /\ d[1] = h
      OBVIOUS
    <3> HIDE DEF d, h
    <3>4. Begun(d)
      BY <3>2, <3>3 DEF Begun
    <3>5. page - 1 = 0 /\ 0 \in Nat
      BY <3>1
    <3> QED
      BY <3>1, <3>2, <3>4, <3>5
  <2>2. CASE pc \in {"rows", "notes"}
    <3>1. \E n \in Nat, m \in Marks : Page(drawn, page - 1, n, m)
      <4>1. concepts \in Seq(Priced) /\ Len(concepts) \in Nat
        BY DEF SumsInv
      <4> QED
        BY <2>2, <4>1 DEF PageInv
    <3>2. PICK n \in Nat, m \in Marks : Page(drawn, page - 1, n, m)
      BY <3>1
    <3>3. Begun(drawn)
      BY <3>2 DEF Page, Begun, Spilled
    <3> QED
      BY <3>2, <3>3 DEF Page
  <2> QED
    BY <1>1, <2>1, <2>2
<1>4. Begun(drawn') /\ page' = page /\ \E n \in Nat, m \in Marks : Laid(drawn', page' - 1, n, m)
  BY <1>1, <1>3
<1>5. page' \in Nat \ {0} /\ pending'.lines \in Nat
  BY <1>1, <1>2
<1> QED
  BY <1>1, <1>4, <1>5 DEF PageInv, Undrawn, Unpriced

LEMMA PageNext == SumsInv /\ PageInv /\ [Next]_vars => PageInv'
<1> SUFFICES ASSUME SumsInv, PageInv, [Next]_vars PROVE PageInv'
  OBVIOUS
<1>1. CASE Create \/ \E item \in Items : AddConcept(item)
  <2>1. pc \in Undrawn /\ pc' \in Undrawn /\ UNCHANGED <<page, drawn, pending>>
    BY <1>1 DEF Create, AddConcept, Undrawn, Unpriced
  <2> QED
    BY <2>1 DEF PageInv, Undrawn, Unpriced
<1>2. ASSUME NEW text \in NoteTexts, BeginParagraph(text) PROVE PageInv'
  <2>1. /\ pc = "notes" /\ UNCHANGED <<pc, concepts, page, y, drawn>>
        /\ pending' = [lines |-> Len(wrap(text)), paragraphs |-> pending.paragraphs - 1]
    BY <1>2 DEF BeginParagraph
  <2>2. pending'.lines \in Nat
    <3>1. text \in Texts
      BY TextsAssumption
    <3> QED
      BY <2>1, <3>1, WrapType
  <2> QED
    BY <2>1, <2>2 DEF PageInv, Undrawn, Unpriced
<1>3. CASE UNCHANGED vars
  <2>1. UNCHANGED <<pc, concepts, page, y, drawn, pending>> /\ RowsDrawn' = RowsDrawn
    BY <1>3 DEF vars, RowsDrawn
  <2> QED
    BY <2>1 DEF PageInv
<1> QED
  BY <1>1, <1>2, <1>3, HeaderNext, InformationNext, RowNext, TotalsNext, NoteNext,
     SignatureNext, FailNext DEF Next

\* The pages read from top to bottom, whatever the texts, the concepts and where it fails.
LEMMA LaidReads ==
  ASSUME NEW k, NEW n, NEW m, Laid(drawn, k, n, m),
         k = (IF pc = "done" \/ page = 0 THEN page ELSE page - 1),
         pc \in {"notes", "done"} => n = Len(concepts)
  PROVE  ReadingOrder
<1>1. NothingOverlaps
  BY DEF Laid, Follows, NothingOverlaps
<1>2. FootersClosePages
  <2>1. Footers(Only("footer", drawn), k) /\ drawn \in Seq(Marks)
    BY DEF Laid
  <2>2. Only("footer", drawn) \in Seq(Marks)
    BY <2>1, OnlyType
  <2> QED
    BY <2>1, <2>2 DEF Footers, FootersClosePages
<1>3. UnderTheirHeading
  <2>1. Rows(Only("row", drawn), n) /\ drawn \in Seq(Marks)
    BY DEF Laid
  <2>2. Only("row", drawn) \in Seq(Marks)
    BY <2>1, OnlyType
  <2>3. /\ \A i \in DOMAIN Only("row", drawn) : Only("row", drawn)[i].n = i
        /\ pc \in {"notes", "done"} => Len(Only("row", drawn)) = Len(concepts)
    BY <2>1, <2>2 DEF Rows
  <2>4. ASSUME NEW i \in DOMAIN drawn
        PROVE  /\ drawn[i].what = "row" =>
                    drawn[i - 1].what \in {"table", "row"} /\ drawn[i - 1].page = drawn[i].page
               /\ drawn[i].what = "note" =>
                    drawn[i - 1].what \in {"notes", "note"} /\ drawn[i - 1].page = drawn[i].page
    <3>1. i = 1 \/ i \in 2..Len(drawn)
      BY <2>1
    <3> QED
      BY <3>1 DEF Laid, Stands
  <2> QED
    BY <2>3, <2>4 DEF UnderTheirHeading
<1> QED
  BY <1>1, <1>2, <1>3 DEF ReadingOrder

LEMMA PageReads == SumsInv /\ PageInv => ReadingOrder /\ OnlyOversizedSpills
<1> SUFFICES ASSUME SumsInv, PageInv PROVE ReadingOrder /\ OnlyOversizedSpills
  OBVIOUS
<1>1. CASE pc \in Undrawn
  <2> DEFINE z == <<>>
  <2>1. drawn = z /\ page = 0 /\ pc \notin {"notes", "done"}
    BY <1>1 DEF PageInv, Undrawn, Unpriced
  <2>2. Only("footer", z) = z /\ Only("row", z) = z
    BY OnlyOfNone
  <2>3. Len(z) = 0 /\ DOMAIN z = {}
    OBVIOUS
  <2> HIDE DEF z
  <2>4. Len(drawn) = 0 /\ DOMAIN drawn = {}
    BY <2>1, <2>3
  <2>5. 2..Len(drawn) = {}
    BY <2>4
  <2>6. NothingOverlaps
    BY <2>5 DEF NothingOverlaps
  <2>7. FootersClosePages
    BY <2>1, <2>2, <2>3 DEF FootersClosePages
  <2>8. UnderTheirHeading
    BY <2>1, <2>2, <2>3 DEF UnderTheirHeading
  <2> QED
    BY <2>4, <2>6, <2>7, <2>8 DEF ReadingOrder, OnlyOversizedSpills
<1>2. CASE pc = "information"
  <2> DEFINE h == Mark("header", 1, 39, 57, 0)
             d == <<h>>
  <2>1. page = 1 /\ drawn = d
    BY <1>2 DEF PageInv
  <2>2. Laid(d, 0, 0, h) /\ ~Spills(h)
    BY HeaderLaid
  <2>3. Len(d) = 1 /\ d[1] = h /\ DOMAIN d = 1..1
    OBVIOUS
  <2> HIDE DEF d, h
  <2>4. ReadingOrder
    BY <1>2, <2>1, <2>2, LaidReads
  <2>5. OnlyOversizedSpills
    BY <2>1, <2>2, <2>3 DEF OnlyOversizedSpills
  <2> QED
    BY <2>4, <2>5
<1>3. CASE pc \in {"rows", "notes", "done"}
  <2>1. PICK k, n, m :
          /\ Page(drawn, k, n, m)
          /\ k = (IF pc = "done" \/ page = 0 THEN page ELSE page - 1)
          /\ pc \in {"notes", "done"} => n = Len(concepts)
    BY <1>3 DEF PageInv
  <2>2. ReadingOrder
    BY <2>1, LaidReads DEF Page
  <2>3. OnlyOversizedSpills
    <3>1. Spilled(drawn) /\ drawn \in Seq(Marks)
      BY <2>1 DEF Page, Laid
    <3> QED
      BY <3>1 DEF Spilled, OnlyOversizedSpills
  <2> QED
    BY <2>2, <2>3
<1>4. CASE pc = "failed"
  <2>1. page \in Nat \ {0} /\ Begun(drawn)
    BY <1>4 DEF PageInv
  <2>2. PICK n \in Nat, m \in Marks : Laid(drawn, page - 1, n, m)
    BY <1>4 DEF PageInv
  <2>3. ReadingOrder
    BY <1>4, <2>1, <2>2, LaidReads
  <2>4. drawn \in Seq(Marks) /\ Len(drawn) \in Nat \ {0}
    BY <2>2 DEF Laid
  <2>5. OnlyOversizedSpills
    <3>1. CASE Len(drawn) = 1
      <4>1. ~Spills(drawn[1]) /\ \A i \in DOMAIN drawn : i = 1
        BY <2>1, <2>4, <3>1 DEF Begun
      <4> QED
        BY <4>1 DEF OnlyOversizedSpills
    <3>2. CASE Len(drawn) # 1
      BY <2>1, <2>4, <3>2 DEF Begun, Spilled, OnlyOversizedSpills
    <3> QED
      BY <3>1, <3>2
  <2> QED
    BY <2>3, <2>5
<1>5. pc \in Undrawn \cup {"information", "rows", "notes", "done", "failed"}
  BY DEF PageInv
<1> QED
  BY <1>1, <1>2, <1>3, <1>4, <1>5

\* Nothing overlaps, every page has its footer, rows come in order under a heading, whatever
\* the texts and however many concepts, also of a document that is dropped half way.
THEOREM PagesRead == Spec => []ReadingOrder
<1>1. Init => SumsInv /\ PageInv
  BY SumsInit, PageInit
<1>2. (SumsInv /\ PageInv) /\ [Next]_vars => (SumsInv /\ PageInv)'
  BY SumsNext, PageNext
<1>3. SumsInv /\ PageInv => ReadingOrder
  BY PageReads
<1> QED
  BY <1>1, <1>2, <1>3, PTL DEF Spec

\* Only what no page has room for reaches over the footer.
THEOREM OnlyTheOversizedSpill == Spec => []OnlyOversizedSpills
<1>1. Init => SumsInv /\ PageInv
  BY SumsInit, PageInit
<1>2. (SumsInv /\ PageInv) /\ [Next]_vars => (SumsInv /\ PageInv)'
  BY SumsNext, PageNext
<1>3. SumsInv /\ PageInv => OnlyOversizedSpills
  BY PageReads
<1> QED
  BY <1>1, <1>2, <1>3, PTL DEF Spec

-----------------------------------------------------------------------------
(***************************************************************************)
(* Lines.  The loop puts as much on each line as goes there.  That this    *)
(* cannot be beaten is the invariant of its steps (Placed): the lines that *)
(* are full, and the fewest for what is from the current one on, are the   *)
(* fewest for the whole paragraph.                                         *)
(***************************************************************************)
\* What a part is.
LEMMA Sizes ==
  ASSUME NEW parts \in Seq(Part)
  PROVE  \A k \in 1..Len(parts) :
           /\ parts[k].size \in Nat /\ parts[k].size <= Columns
           /\ parts[k].more \in BOOLEAN
<1> TAKE k \in 1..Len(parts)
<1>1. parts[k] \in Part
  OBVIOUS
<1> QED
  BY <1>1, ColumnsAssumption DEF Part

LEMMA SameSeq ==
  ASSUME NEW A, NEW a \in Seq(A), NEW b \in Seq(A), NEW n \in Nat, Len(a) = n, Len(b) = n,
         \A k \in 1..n : a[k] = b[k]
  PROVE  a = b
  OBVIOUS

LEMMA LineType ==
  ASSUME NEW parts \in Seq(Part), NEW i \in 1..(Len(parts) + 1), NEW j \in i..(Len(parts) + 1)
  PROVE  /\ LineOf(parts, i, j) \in Seq(Nat) /\ Len(LineOf(parts, i, j)) = j - i
         /\ j - i \in Nat
         /\ \A k \in 1..(j - i) : LineOf(parts, i, j)[k] = parts[i + k - 1].size
<1>1. j - i \in Nat
  OBVIOUS
<1>2. \A k \in 1..(j - i) : parts[i + k - 1].size \in Nat
  <2> TAKE k \in 1..(j - i)
  <2>1. i + k - 1 \in 1..Len(parts)
    OBVIOUS
  <2> QED
    BY <2>1, Sizes
<1> DEFINE d == j - i
           f == LineOf(parts, i, j)
<1>3. f \in [1..d -> Nat] /\ \A k \in 1..d : f[k] = parts[i + k - 1].size
  BY <1>2 DEF LineOf
<1>4. d \in Nat
  BY <1>1
<1> HIDE DEF d, f
<1>5. f \in Seq(Nat) /\ Len(f) = d
  BY <1>3, <1>4
<1> QED
  BY <1>3, <1>4, <1>5 DEF d, f

LEMMA LineOfNone ==
  ASSUME NEW parts \in Seq(Part), NEW i \in 1..(Len(parts) + 1)
  PROVE  LineOf(parts, i, i) = <<>>
  BY DEF LineOf

LEMMA LineGrows ==
  ASSUME NEW parts \in Seq(Part), NEW i \in 1..Len(parts), NEW j \in i..Len(parts)
  PROVE  /\ LineOf(parts, i, j + 1) = Append(LineOf(parts, i, j), parts[j].size)
         /\ LineOf(parts, i, j) \in Seq(Nat) /\ parts[j].size \in Nat
<1> DEFINE a == LineOf(parts, i, j)
           b == LineOf(parts, i, j + 1)
           d == j - i
           x == parts[j].size
<1>0. /\ i \in 1..(Len(parts) + 1) /\ j \in i..(Len(parts) + 1) /\ j + 1 \in i..(Len(parts) + 1)
      /\ d \in Nat /\ (j + 1) - i = d + 1 /\ i + (d + 1) - 1 = j /\ j \in 1..Len(parts)
  OBVIOUS
<1>1. /\ a \in Seq(Nat) /\ Len(a) = d /\ \A k \in 1..d : a[k] = parts[i + k - 1].size
  BY <1>0, LineType
<1>2. b \in Seq(Nat) /\ Len(b) = d + 1 /\ \A k \in 1..(d + 1) : b[k] = parts[i + k - 1].size
  <2> HIDE DEF d
  <2> QED
    BY <1>0, LineType
<1>3. x \in Nat
  BY <1>0, Sizes
<1>4. b[d + 1] = x
  <2>1. d + 1 \in 1..(d + 1)
    BY <1>0
  <2> HIDE DEF b, d
  <2> QED
    BY <1>0, <1>2, <2>1
<1> HIDE DEF a, b, d, x
<1>5. b = Append(a, x)
  <2>1. Append(a, x) \in Seq(Nat) /\ Len(Append(a, x)) = d + 1
    BY <1>1, <1>3
  <2>2. \A k \in 1..(d + 1) : b[k] = Append(a, x)[k]
    <3> TAKE k \in 1..(d + 1)
    <3>1. CASE k = d + 1
      BY <1>1, <1>3, <1>4, <3>1
    <3>2. CASE k # d + 1
      <4>1. k \in 1..d
        BY <1>0, <3>2
      <4>2. Append(a, x)[k] = a[k]
        BY <1>1, <1>3, <4>1
      <4> QED
        BY <1>1, <1>2, <4>1, <4>2
    <3> QED
      BY <3>1, <3>2
  <2>3. d + 1 \in Nat
    BY <1>0
  <2> QED
    BY <1>2, <2>1, <2>2, <2>3, SameSeq
<1> QED
  BY <1>1, <1>3, <1>5 DEF a, b, x

LEMMA MeasuredAppend ==
  ASSUME NEW line \in Seq(Nat), NEW x \in Nat
  PROVE  /\ Measured(Append(line, x)) = Measured(line) + x + 1
         /\ Measured(line) \in Int
<1>1. line \in Seq(Int) /\ x \in Int
  OBVIOUS
<1>2. Total(Append(line, x)) = Total(line) + x /\ Total(line) \in Int
  BY <1>1, TotalAppend
<1>3. Len(Append(line, x)) = Len(line) + 1 /\ Len(line) \in Nat
  OBVIOUS
<1> QED
  BY <1>2, <1>3 DEF Measured

LEMMA MeasuredOfNone == Measured(<<>>) = -1
<1>1. Len(<<>>) = 0
  OBVIOUS
<1> QED
  BY <1>1, TotalOfNone DEF Measured

\* A line gets wider with every part at its end or at its front.
LEMMA WiderAtEnd ==
  ASSUME NEW parts \in Seq(Part), NEW i \in 1..Len(parts), NEW j \in i..(Len(parts) + 1)
  PROVE  \A l \in j..(Len(parts) + 1) :
           /\ Measured(LineOf(parts, i, j)) <= Measured(LineOf(parts, i, l))
           /\ Measured(LineOf(parts, i, l)) \in Int
<1> DEFINE w(l) == Measured(LineOf(parts, i, l))
           n == Len(parts)
           d == (n + 1) - j
           G == {m \in 0..d : w(j) <= w(j + m)}
<1>0. /\ n \in Nat /\ d \in Nat /\ i \in Nat /\ j \in Nat /\ i <= j
  OBVIOUS
<1>1. \A l \in i..(n + 1) : w(l) \in Int
  <2> TAKE l \in i..(n + 1)
  <2>0. i \in 1..(n + 1)
    BY <1>0
  <2>1. LineOf(parts, i, l) \in Seq(Nat)
    BY <2>0, LineType
  <2> QED
    BY <2>1, MeasuredAppend, 0 \in Nat
<1>2. \A l \in i..n : w(l) <= w(l + 1)
  <2> TAKE l \in i..n
  <2>1. /\ LineOf(parts, i, l + 1) = Append(LineOf(parts, i, l), parts[l].size)
        /\ LineOf(parts, i, l) \in Seq(Nat) /\ parts[l].size \in Nat
    BY LineGrows
  <2>2. /\ w(l + 1) = w(l) + parts[l].size + 1 /\ w(l) \in Int
    BY <2>1, MeasuredAppend
  <2> HIDE DEF w
  <2> QED
    BY <2>1, <2>2
<1> HIDE DEF w
<1>3. 0 \in G
  <2>1. j + 0 = j /\ w(j) \in Int /\ 0 \in 0..d
    BY <1>0, <1>1
  <2> QED
    BY <2>1
<1>4. ASSUME NEW m \in 0..(d - 1), m \in G PROVE m + 1 \in G
  <2>1. j + m \in i..n /\ (j + m) + 1 = j + (m + 1) /\ m + 1 \in 0..d
    BY <1>0
  <2>2. w(j + m) <= w((j + m) + 1)
    BY <1>2, <2>1
  <2>3. w(j) \in Int /\ w(j + m) \in Int /\ w((j + m) + 1) \in Int
    BY <1>0, <1>1, <2>1
  <2>4. w(j) <= w(j + m)
    BY <1>4
  <2>5. w(j) <= w((j + m) + 1)
    BY <2>2, <2>3, <2>4
  <2> QED
    BY <2>1, <2>5
<1> HIDE DEF G
<1>5. \A m \in 0..d : m \in G
  BY <1>0, <1>3, <1>4, CountingUp
<1>6. ASSUME NEW l \in j..(n + 1) PROVE w(j) <= w(l) /\ w(l) \in Int
  <2>1. l - j \in 0..d /\ j + (l - j) = l
    BY <1>0
  <2>2. l - j \in G
    BY <1>5, <2>1
  <2>3. w(j) <= w(j + (l - j))
    BY <2>2 DEF G
  <2>4. l \in i..(n + 1)
    BY <1>0
  <2> QED
    BY <1>1, <2>1, <2>3, <2>4
<1> QED
  BY <1>6 DEF w

LEMMA WiderAtFront ==
  ASSUME NEW parts \in Seq(Part), NEW i \in 1..Len(parts)
  PROVE  \A j \in (i + 1)..(Len(parts) + 1) :
           Measured(LineOf(parts, i, j)) = Measured(LineOf(parts, i + 1, j)) + parts[i].size + 1
<1> DEFINE w(k, l) == Measured(LineOf(parts, k, l))
           n == Len(parts)
           x == parts[i].size
           d == n - i
           G == {m \in 0..d : w(i, (i + 1) + m) = w(i + 1, (i + 1) + m) + x + 1}
<1>0. n \in Nat /\ d \in Nat /\ i \in Nat /\ x \in Nat /\ i \in i..n /\ i \in 1..(n + 1) /\ i + 1 \in 1..(n + 1)
      /\ i <= n
  BY Sizes
<1>1. \A k \in 1..n : \A l \in k..n :
        w(k, l + 1) = w(k, l) + parts[l].size + 1 /\ w(k, l) \in Int /\ parts[l].size \in Nat
  <2> TAKE k \in 1..n
  <2> TAKE l \in k..n
  <2>1. /\ LineOf(parts, k, l + 1) = Append(LineOf(parts, k, l), parts[l].size)
        /\ LineOf(parts, k, l) \in Seq(Nat) /\ parts[l].size \in Nat
    BY LineGrows
  <2> QED
    BY <2>1, MeasuredAppend
<1>2. w(i, i) = -1 /\ w(i + 1, i + 1) = -1
  BY <1>0, LineOfNone, MeasuredOfNone
<1> HIDE DEF w
<1>3. 0 \in G
  <2>1. w(i, i + 1) = w(i, i) + x + 1
    BY <1>0, <1>1
  <2>2. (i + 1) + 0 = i + 1 /\ 0 \in 0..d
    BY <1>0
  <2>3. w(i, i + 1) = w(i + 1, i + 1) + x + 1
    BY <1>2, <2>1
  <2> QED
    BY <2>2, <2>3
<1>4. ASSUME NEW m \in 0..(d - 1), m \in G PROVE m + 1 \in G
  <2> DEFINE l == (i + 1) + m
  <2>1. l \in i..n /\ l \in (i + 1)..n /\ i + 1 \in 1..n /\ l + 1 = (i + 1) + (m + 1) /\ m + 1 \in 0..d
        /\ i \in 1..n
    BY <1>0
  <2>2. w(i, l) = w(i + 1, l) + x + 1
    BY <1>4
  <2> HIDE DEF l
  <2>3. w(i, l + 1) = w(i, l) + parts[l].size + 1 /\ parts[l].size \in Nat
    BY <1>1, <2>1
  <2>4. w(i + 1, l + 1) = w(i + 1, l) + parts[l].size + 1 /\ w(i + 1, l) \in Int
    BY <1>1, <2>1
  <2>5. w(i, l + 1) = w(i + 1, l + 1) + x + 1
    BY <1>0, <2>2, <2>3, <2>4
  <2> QED
    BY <2>1, <2>5
<1> HIDE DEF G
<1>5. \A m \in 0..d : m \in G
  BY <1>0, <1>3, <1>4, CountingUp
<1>6. ASSUME NEW j \in (i + 1)..(n + 1) PROVE w(i, j) = w(i + 1, j) + x + 1
  <2>1. j - (i + 1) \in 0..d /\ (i + 1) + (j - (i + 1)) = j
    BY <1>0
  <2>2. j - (i + 1) \in G
    BY <1>5, <2>1
  <2> QED
    BY <2>1, <2>2 DEF G
<1> QED
  BY <1>6 DEF w

\* One part is on a line, fewer parts are if more are, and it may lose its first.
LEMMA OneLines ==
  ASSUME NEW parts \in Seq(Part), NEW i \in 1..Len(parts)
  PROVE  /\ OneLine(parts, i, i + 1)
         /\ \A l \in i..(Len(parts) + 1) : \A j \in i..l : OneLine(parts, i, l) => OneLine(parts, i, j)
         /\ \A j \in (i + 2)..(Len(parts) + 1) : OneLine(parts, i, j) => OneLine(parts, i + 1, j)
<1> DEFINE n == Len(parts)
           w(k, l) == Measured(LineOf(parts, k, l))
<1>0. /\ n \in Nat /\ i \in Nat /\ i \in 1..(n + 1) /\ i \in i..(n + 1) /\ i \in i..n
      /\ i + 1 \in i..(n + 1) /\ i + 1 \in (i + 1)..(n + 1)
  OBVIOUS
<1>1. parts[i].size \in Nat /\ parts[i].size <= Columns /\ Columns \in Nat
  BY Sizes, ColumnsAssumption
<1>2. OneLine(parts, i, i + 1)
  <2>1. /\ LineOf(parts, i, i + 1) = Append(LineOf(parts, i, i), parts[i].size)
        /\ LineOf(parts, i, i) \in Seq(Nat)
    BY <1>0, LineGrows
  <2>2. w(i, i + 1) = w(i, i) + parts[i].size + 1
    BY <1>1, <2>1, MeasuredAppend
  <2>3. w(i, i) = -1
    BY <1>0, LineOfNone, MeasuredOfNone
  <2>4. w(i, i + 1) <= Columns
    BY <1>1, <2>2, <2>3
  <2>5. \A k \in (i + 1)..((i + 1) - 1) : FALSE
    BY <1>0
  <2> QED
    BY <2>4, <2>5 DEF OneLine
<1>3. ASSUME NEW l \in i..(n + 1), NEW j \in i..l, OneLine(parts, i, l)
      PROVE  OneLine(parts, i, j)
  <2>1. j \in i..(n + 1) /\ l \in j..(n + 1)
    BY <1>0
  <2>2. w(i, j) <= w(i, l) /\ w(i, l) \in Int
    BY <2>1, WiderAtEnd
  <2>3. w(i, j) \in Int
    <3>1. j \in j..(n + 1)
      BY <2>1
    <3> QED
      BY <2>1, <3>1, WiderAtEnd
  <2>4. w(i, l) <= Columns /\ \A k \in (i + 1)..(l - 1) : ~parts[k].more
    BY <1>3 DEF OneLine
  <2> HIDE DEF w
  <2>5. w(i, j) <= Columns
    BY <1>1, <2>2, <2>3, <2>4
  <2>6. \A k \in (i + 1)..(j - 1) : k \in (i + 1)..(l - 1)
    BY <1>0
  <2> QED
    BY <2>4, <2>5, <2>6 DEF OneLine, w
<1>4. ASSUME NEW j \in (i + 2)..(n + 1), OneLine(parts, i, j)
      PROVE  OneLine(parts, i + 1, j)
  <2>1. j \in (i + 1)..(n + 1) /\ i + 1 \in 1..n /\ j \in j..(n + 1) /\ j \in (i + 1)..(n + 1)
    BY <1>0
  <2>2. w(i, j) = w(i + 1, j) + parts[i].size + 1
    BY <2>1, WiderAtFront
  <2>3. w(i + 1, j) \in Int
    BY <2>1, WiderAtEnd
  <2>4. w(i, j) <= Columns /\ \A k \in (i + 1)..(j - 1) : ~parts[k].more
    BY <1>4 DEF OneLine
  <2> HIDE DEF w
  <2>5. w(i + 1, j) <= Columns
    BY <1>1, <2>2, <2>3, <2>4
  <2>6. \A k \in ((i + 1) + 1)..(j - 1) : k \in (i + 1)..(j - 1)
    BY <1>0
  <2> QED
    BY <2>4, <2>5, <2>6 DEF OneLine, w
<1> QED
  BY <1>2, <1>3, <1>4

\* Where the line that begins with part i may end, and the fewest lines from each part on.
Ends(parts, i) == {j \in (i + 1)..(Len(parts) + 1) : OneLine(parts, i, j)}

FewestFrom(parts, f) ==
  /\ f[Len(parts) + 1] = 0
  /\ \A i \in 1..Len(parts) :
       /\ f[i] \in Nat
       /\ \E j \in Ends(parts, i) : f[i] = 1 + f[j]
       /\ \A j \in Ends(parts, i) : f[i] <= 1 + f[j]

\* A set of numbers has its minimum.
LEMMA MinOfSome ==
  ASSUME NEW S \in SUBSET Nat, S # {}
  PROVE  Min(S) \in S /\ \A x \in S : Min(S) <= x
<1>1. \E x \in S : \A z \in S : x <= z
  BY LeastNumber
<1> QED
  BY <1>1 DEF Min

\* What FewestLines computes exists, and is what FewestFrom says.
NextFewest(parts, f, i) == IF i > Len(parts) THEN 0 ELSE Min({1 + f[j] : j \in Ends(parts, i)})

LEMMA NextFewestIs ==
  ASSUME NEW parts \in Seq(Part), NEW i \in 1..Len(parts), NEW f,
         \A j \in (i + 1)..(Len(parts) + 1) : f[j] \in Nat
  PROVE  /\ NextFewest(parts, f, i) \in Nat
         /\ \E j \in Ends(parts, i) : NextFewest(parts, f, i) = 1 + f[j]
         /\ \A j \in Ends(parts, i) : NextFewest(parts, f, i) <= 1 + f[j]
<1> DEFINE S == {1 + f[j] : j \in Ends(parts, i)}
<1>0. Len(parts) \in Nat /\ i + 1 \in (i + 1)..(Len(parts) + 1) /\ ~(i > Len(parts))
  OBVIOUS
<1>1. i + 1 \in Ends(parts, i)
  BY <1>0, OneLines DEF Ends
<1>2. \A j \in Ends(parts, i) : f[j] \in Nat /\ 1 + f[j] \in Nat
  <2>1. \A j \in Ends(parts, i) : f[j] \in Nat
    BY DEF Ends
  <2> QED
    BY <2>1
<1>3. S \in SUBSET Nat /\ S # {}
  BY <1>1, <1>2
<1>4. NextFewest(parts, f, i) = Min(S)
  BY <1>0 DEF NextFewest
<1>5. \A j \in Ends(parts, i) : 1 + f[j] \in S
  OBVIOUS
<1>6. \A x \in S : \E j \in Ends(parts, i) : x = 1 + f[j]
  OBVIOUS
<1> HIDE DEF S
<1>7. Min(S) \in S /\ \A x \in S : Min(S) <= x
  BY <1>3, MinOfSome
<1> QED
  BY <1>3, <1>4, <1>5, <1>6, <1>7

LEMMA FewestIs ==
  ASSUME NEW parts \in Seq(Part)
  PROVE  \E f : /\ FewestFrom(parts, f)
                /\ FewestLines(parts) = IF parts = <<>> THEN 1 ELSE f[1]
<1> DEFINE n == Len(parts)
           v(f, i) == NextFewest(parts, f, i)
           Chooses(g) == g = [i \in 1..(n + 1) |->
                                IF i > n THEN 0
                                ELSE Min({1 + g[j] : j \in {j \in (i + 1)..(n + 1) : OneLine(parts, i, j)}})]
           c == CHOOSE g : Chooses(g)
           Down(f, m) == \A i \in ((n + 1) - m)..(n + 1) : f[i] = v(f, i) /\ f[i] \in Nat
           G == {m \in 0..n : \E f : Down(f, m)}
<1>0. n \in Nat
  OBVIOUS
<1>1. FewestLines(parts) = IF parts = <<>> THEN 1 ELSE c[1]
  BY DEF FewestLines
<1>2. \A g : Chooses(g) <=> g = [i \in 1..(n + 1) |-> v(g, i)]
  BY DEF NextFewest, Ends
<1> HIDE DEF Chooses
<1>3. v([i \in 1..(n + 1) |-> 0], n + 1) = 0 /\ \A f : v(f, n + 1) = 0
  BY <1>0 DEF NextFewest
<1>4. ASSUME NEW f, NEW h, NEW i \in 1..(n + 1), \A j \in (i + 1)..(n + 1) : h[j] = f[j]
      PROVE  v(h, i) = v(f, i)
  <2>1. \A j \in Ends(parts, i) : h[j] = f[j]
    BY <1>4 DEF Ends
  <2>2. {1 + h[j] : j \in Ends(parts, i)} = {1 + f[j] : j \in Ends(parts, i)}
    BY <2>1
  <2> QED
    BY <2>2 DEF NextFewest
<1>5. ASSUME NEW f, NEW i \in 1..n, \A j \in (i + 1)..(n + 1) : f[j] \in Nat
      PROVE  v(f, i) \in Nat
  BY <1>5, NextFewestIs
<1>6. \E f : Down(f, n)
  <2>1. 0 \in G
    <3> DEFINE f == [i \in 1..(n + 1) |-> 0]
    <3>1. \A i \in ((n + 1) - 0)..(n + 1) : i = n + 1 /\ f[i] = 0
      BY <1>0
    <3>2. 0 \in Nat /\ 0 \in 0..n
      BY <1>0
    <3> HIDE DEF f, v
    <3>3. Down(f, 0)
      BY <1>3, <3>1, <3>2
    <3> HIDE DEF Down
    <3> QED
      BY <3>2, <3>3
  <2>2. ASSUME NEW m \in 0..(n - 1), m \in G PROVE m + 1 \in G
    <3>1. PICK f : Down(f, m)
      BY <2>2
    <3> DEFINE l == n - m
               new == v(f, l)
               h == [i \in 1..(n + 1) |-> IF i = l THEN new ELSE f[i]]
    <3>2. l \in 1..n /\ (n + 1) - m = l + 1 /\ (n + 1) - (m + 1) = l /\ m + 1 \in 0..n /\ l + 1 \in 1..(n + 1)
      BY <1>0
    <3> HIDE DEF l, v
    <3>3. \A i \in (l + 1)..(n + 1) : f[i] = v(f, i) /\ f[i] \in Nat
      BY <3>1, <3>2
    <3>4. new \in Nat
      BY <1>5, <3>2, <3>3
    <3> HIDE DEF new
    <3>5. h[l] = new /\ \A i \in (l + 1)..(n + 1) : h[i] = f[i]
      BY <1>0, <3>2
    <3> HIDE DEF h
    <3>6. \A i \in l..(n + 1) : v(h, i) = v(f, i)
      <4> TAKE i \in l..(n + 1)
      <4>1. i \in 1..(n + 1) /\ \A j \in (i + 1)..(n + 1) : j \in (l + 1)..(n + 1)
        BY <1>0, <3>2
      <4>2. \A j \in (i + 1)..(n + 1) : h[j] = f[j]
        BY <3>5, <4>1
      <4> QED
        BY <1>4, <4>1, <4>2
    <3>7. \A i \in l..(n + 1) : h[i] = v(h, i) /\ h[i] \in Nat
      <4> TAKE i \in l..(n + 1)
      <4>1. CASE i = l
        <5>1. v(h, i) = v(f, i)
          BY <3>6
        <5> QED
          BY <5>1, <4>1, <3>4, <3>5 DEF new
      <4>2. CASE i # l
        <5>1. i \in (l + 1)..(n + 1)
          BY <1>0, <3>2, <4>2
        <5>2. v(h, i) = v(f, i)
          BY <3>6
        <5> QED
          BY <5>1, <5>2, <3>3, <3>5
      <4> QED
        BY <4>1, <4>2
    <3>8. Down(h, m + 1)
      BY <3>2, <3>7
    <3> HIDE DEF Down
    <3> QED
      BY <3>2, <3>8
  <2> HIDE DEF G
  <2>3. \A m \in 0..n : m \in G
    BY <1>0, <2>1, <2>2, CountingUp
  <2>4. n \in G
    BY <1>0, <2>3
  <2> QED
    BY <2>4 DEF G
<1>7. \E g : Chooses(g)
  <2>1. PICK f : Down(f, n)
    BY <1>6
  <2> DEFINE g == [i \in 1..(n + 1) |-> f[i]]
  <2>2. \A i \in 1..(n + 1) : i \in ((n + 1) - n)..(n + 1)
    BY <1>0
  <2>3. \A i \in 1..(n + 1) : f[i] = v(f, i)
    <3> HIDE DEF v
    <3> QED
      BY <2>1, <2>2
  <2>4. \A i \in 1..(n + 1) : v(g, i) = v(f, i)
    <3> TAKE i \in 1..(n + 1)
    <3>1. \A j \in (i + 1)..(n + 1) : j \in 1..(n + 1)
      BY <1>0
    <3>2. \A j \in (i + 1)..(n + 1) : g[j] = f[j]
      BY <3>1
    <3> HIDE DEF g, v
    <3> QED
      BY <1>4, <3>2
  <2>5. g = [i \in 1..(n + 1) |-> v(g, i)]
    <3>1. \A i \in 1..(n + 1) : f[i] = v(g, i)
      <4> HIDE DEF g, v
      <4> QED
        BY <2>3, <2>4
    <3> DEFINE u(i) == v(g, i)
    <3>2. \A i \in 1..(n + 1) : f[i] = u(i)
      BY <3>1
    <3> HIDE DEF u
    <3>3. [i \in 1..(n + 1) |-> f[i]] = [i \in 1..(n + 1) |-> u(i)]
      BY <3>2
    <3> QED
      BY <3>3 DEF u
  <2> HIDE DEF g
  <2> QED
    BY <1>2, <2>5
<1>8. c = [i \in 1..(n + 1) |-> v(c, i)]
  <2>1. Chooses(c)
    BY <1>7
  <2> HIDE DEF c
  <2> QED
    BY <1>2, <2>1
<1> HIDE DEF c
<1>9. \A i \in 1..(n + 1) : c[i] = v(c, i)
  <2> DEFINE u(i) == v(c, i)
  <2>1. c = [i \in 1..(n + 1) |-> u(i)]
    BY <1>8
  <2> HIDE DEF u
  <2>2. \A i \in 1..(n + 1) : c[i] = u(i)
    BY <2>1
  <2> QED
    BY <2>2 DEF u
<1>10. \A i \in 1..(n + 1) : c[i] \in Nat
  <2> DEFINE H == {m \in 0..n : \A i \in ((n + 1) - m)..(n + 1) : c[i] \in Nat}
  <2>1. 0 \in H
    <3>1. \A i \in ((n + 1) - 0)..(n + 1) : i = n + 1 /\ i \in 1..(n + 1)
      BY <1>0
    <3>2. 0 \in Nat /\ 0 \in 0..n
      BY <1>0
    <3> HIDE DEF v
    <3>3. \A i \in ((n + 1) - 0)..(n + 1) : c[i] \in Nat
      BY <1>3, <1>9, <3>1, <3>2
    <3> QED
      BY <3>2, <3>3
  <2>2. ASSUME NEW m \in 0..(n - 1), m \in H PROVE m + 1 \in H
    <3> DEFINE l == n - m
    <3>1. l \in 1..n /\ (n + 1) - m = l + 1 /\ (n + 1) - (m + 1) = l /\ m + 1 \in 0..n /\ l \in 1..(n + 1)
      BY <1>0
    <3> HIDE DEF l
    <3>2. \A i \in (l + 1)..(n + 1) : c[i] \in Nat
      BY <2>2, <3>1
    <3> HIDE DEF v
    <3>3. c[l] \in Nat
      BY <1>5, <1>9, <3>1, <3>2
    <3>4. \A i \in l..(n + 1) : i = l \/ i \in (l + 1)..(n + 1)
      BY <1>0, <3>1
    <3>5. \A i \in l..(n + 1) : c[i] \in Nat
      BY <3>2, <3>3, <3>4
    <3> QED
      BY <3>1, <3>5
  <2> HIDE DEF H
  <2>3. \A m \in 0..n : m \in H
    BY <1>0, <2>1, <2>2, CountingUp
  <2>4. n \in H
    BY <1>0, <2>3
  <2>5. \A i \in 1..(n + 1) : i \in ((n + 1) - n)..(n + 1)
    BY <1>0
  <2> QED
    BY <2>4, <2>5 DEF H
<1>11. FewestFrom(parts, c)
  <2>1. c[n + 1] = 0
    <3>1. n + 1 \in 1..(n + 1)
      BY <1>0
    <3> HIDE DEF v
    <3> QED
      BY <1>3, <1>9, <3>1
  <2>2. ASSUME NEW i \in 1..n
        PROVE  /\ c[i] \in Nat
               /\ \E j \in Ends(parts, i) : c[i] = 1 + c[j]
               /\ \A j \in Ends(parts, i) : c[i] <= 1 + c[j]
    <3>1. i \in 1..(n + 1) /\ \A j \in (i + 1)..(n + 1) : j \in 1..(n + 1)
      BY <1>0
    <3>2. \A j \in (i + 1)..(n + 1) : c[j] \in Nat
      BY <1>10, <3>1
    <3>3. c[i] = NextFewest(parts, c, i)
      BY <1>9, <3>1
    <3>4. /\ NextFewest(parts, c, i) \in Nat
          /\ \E j \in Ends(parts, i) : NextFewest(parts, c, i) = 1 + c[j]
          /\ \A j \in Ends(parts, i) : NextFewest(parts, c, i) <= 1 + c[j]
      BY <3>2, NextFewestIs
    <3> QED
      BY <3>3, <3>4
  <2> QED
    BY <2>1, <2>2 DEF FewestFrom
<1> QED
  BY <1>1, <1>11

\* From a later part on there are not more lines.
LEMMA FewestFall ==
  ASSUME NEW parts \in Seq(Part), NEW f, FewestFrom(parts, f), NEW i \in 1..Len(parts)
  PROVE  \A j \in i..(Len(parts) + 1) : f[j] \in Nat /\ f[j] <= f[i]
<1> DEFINE n == Len(parts)
           d == (n + 1) - i
           G == {m \in 0..d : f[i + m] <= f[i]}
<1>0. n \in Nat /\ d \in Nat /\ i \in Nat /\ i + d = n + 1
  OBVIOUS
<1>1. \A j \in 1..(n + 1) : f[j] \in Nat
  <2> TAKE j \in 1..(n + 1)
  <2>1. CASE j = n + 1
    BY <2>1 DEF FewestFrom
  <2>2. CASE j # n + 1
    <3>1. j \in 1..n
      BY <1>0, <2>2
    <3> QED
      BY <3>1 DEF FewestFrom
  <2> QED
    BY <2>1, <2>2
<1>2. ASSUME NEW k \in 1..n PROVE f[k + 1] <= f[k]
  <2>1. PICK j \in Ends(parts, k) : f[k] = 1 + f[j]
    BY DEF FewestFrom
  <2>2. j \in (k + 1)..(n + 1) /\ OneLine(parts, k, j)
    BY <2>1 DEF Ends
  <2>3. k \in 1..(n + 1) /\ k + 1 \in 1..(n + 1) /\ j \in 1..(n + 1)
    BY <1>0, <2>2
  <2>4. CASE j = k + 1
    <3> HIDE DEF n
    <3> QED
      BY <1>1, <2>1, <2>3, <2>4
  <2>5. CASE j # k + 1
    <3>1. j \in (k + 2)..(n + 1) /\ k + 1 \in 1..n /\ j \in ((k + 1) + 1)..(n + 1)
      BY <1>0, <2>2, <2>5
    <3>2. OneLine(parts, k + 1, j)
      BY <2>2, <3>1, OneLines
    <3>3. j \in Ends(parts, k + 1)
      BY <3>1, <3>2 DEF Ends
    <3>4. f[k + 1] <= 1 + f[j]
      BY <3>1, <3>3 DEF FewestFrom
    <3> QED
      BY <2>1, <3>4
  <2> QED
    BY <2>4, <2>5
<1>3. 0 \in G
  <2>1. i + 0 = i /\ 0 \in 0..d /\ i \in 1..(n + 1)
    BY <1>0
  <2>2. f[i] \in Nat
    BY <1>1, <2>1
  <2>3. f[i] <= f[i]
    BY <2>2
  <2> HIDE DEF d
  <2> QED
    BY <2>1, <2>3
<1>4. ASSUME NEW m \in 0..(d - 1), m \in G PROVE m + 1 \in G
  <2>1. i + m \in 1..n /\ (i + m) + 1 = i + (m + 1) /\ m + 1 \in 0..d /\ i + m \in 1..(n + 1)
        /\ (i + m) + 1 \in 1..(n + 1) /\ i \in 1..(n + 1)
    BY <1>0
  <2>2. f[(i + m) + 1] <= f[i + m] /\ f[i + m] <= f[i]
    BY <1>2, <1>4, <2>1
  <2>3. f[(i + m) + 1] \in Nat /\ f[i + m] \in Nat /\ f[i] \in Nat
    BY <1>1, <2>1
  <2>4. f[(i + m) + 1] <= f[i]
    BY <2>2, <2>3
  <2> QED
    BY <2>1, <2>4
<1> HIDE DEF G
<1>5. \A m \in 0..d : m \in G
  BY <1>0, <1>3, <1>4, CountingUp
<1> QED
  <2> TAKE j \in i..(n + 1)
  <2>1. j - i \in 0..d /\ i + (j - i) = j /\ j \in 1..(n + 1)
    BY <1>0
  <2>2. j - i \in G
    BY <1>5, <2>1
  <2>3. f[i + (j - i)] <= f[i]
    BY <2>2 DEF G
  <2> QED
    BY <1>1, <2>1, <2>3

\* Where a part goes: to the first line, on the line, or on the next one.
LEMMA PutCases ==
  ASSUME NEW at \in Wrapping, NEW part \in Part
  PROVE  /\ PutPart(NoLine, part) = [lines |-> <<>>, current |-> <<part.size>>]
         /\ ~part.more /\ Fits(Append(at.current, part.size)) =>
              PutPart(at, part) = [lines |-> at.lines, current |-> Append(at.current, part.size)]
         /\ at.current # <<>> /\ ~(~part.more /\ Fits(Append(at.current, part.size))) =>
              PutPart(at, part) = [lines |-> Append(at.lines, at.current), current |-> <<part.size>>]
<1> DEFINE size == part.size
<1>0. at = [lines |-> at.lines, current |-> at.current]
  BY DEF Wrapping
<1>1. NoLine.current = <<>> /\ NoLine.lines = <<>> /\ NoLine = [lines |-> <<>>, current |-> <<>>]
  BY DEF NoLine
<1>2. Append(<<>>, size) = <<size>>
  OBVIOUS
<1> HIDE DEF size
<1>3. PutPart(NoLine, part) = [lines |-> <<>>, current |-> <<size>>]
  <2>1. [NoLine EXCEPT !.current = <<size>>] = [lines |-> <<>>, current |-> <<size>>]
    BY <1>1
  <2> QED
    BY <1>1, <1>2, <2>1, Zenon DEF PutPart, size
<1>4. \A line : [at EXCEPT !.current = line] = [lines |-> at.lines, current |-> line]
  BY <1>0
<1>5. ASSUME ~part.more, Fits(Append(at.current, size))
      PROVE  PutPart(at, part) = [lines |-> at.lines, current |-> Append(at.current, size)]
  BY <1>4, <1>5, Zenon DEF PutPart, size
<1>6. ASSUME at.current # <<>>, ~(~part.more /\ Fits(Append(at.current, size)))
      PROVE  PutPart(at, part) = [lines |-> Append(at.lines, at.current), current |-> <<size>>]
  BY <1>6, Zenon DEF PutPart, size
<1> QED
  BY <1>3, <1>5, <1>6 DEF size

\* After part k: the lines are full but for the current one, which begins with part s, and
\* no setting of the parts up to it has fewer.
Narrow == {line \in Seq(Nat) : Measured(line) <= Columns}

PlacedFrom(parts, f, k, at, s) ==
  /\ at.current = LineOf(parts, s, k + 1)
  /\ OneLine(parts, s, k + 1)
  /\ f[1] = Len(at.lines) + f[s]

Placed(parts, f, k, at) ==
  /\ at.lines \in Seq(Narrow)
  /\ FlattenSeq(at.lines) \o at.current = LineOf(parts, 1, k + 1)
  /\ \E s \in 1..k : PlacedFrom(parts, f, k, at, s)

LEMMA NarrowLines ==
  ASSUME NEW ls \in Seq(Narrow)
  PROVE  ls \in Seq(Seq(Nat)) /\ FlattenSeq(ls) \in Seq(Nat) /\ Len(ls) \in Nat
<1>1. ls \in Seq(Seq(Nat))
  BY DEF Narrow
<1> QED
  BY <1>1, FlattenType

\* One part alone.
LEMMA Alone ==
  ASSUME NEW parts \in Seq(Part), NEW k \in 1..Len(parts)
  PROVE  /\ LineOf(parts, k, k + 1) = <<parts[k].size>>
         /\ OneLine(parts, k, k + 1)
<1> DEFINE x == parts[k].size
<1>1. k \in 1..(Len(parts) + 1) /\ k \in k..Len(parts)
  OBVIOUS
<1>2. LineOf(parts, k, k + 1) = Append(LineOf(parts, k, k), x) /\ LineOf(parts, k, k) = <<>>
  BY <1>1, LineGrows, LineOfNone
<1> HIDE DEF x
<1>3. Append(<<>>, x) = <<x>>
  OBVIOUS
<1> QED
  BY <1>2, <1>3, OneLines DEF x

LEMMA FirstPlaced ==
  ASSUME NEW parts \in Seq(Part), NEW f, FewestFrom(parts, f), 1 \in 1..Len(parts)
  PROVE  Placed(parts, f, 1, PutPart(NoLine, parts[1]))
<1> DEFINE at == PutPart(NoLine, parts[1])
           x == parts[1].size
<1>0. parts[1] \in Part /\ NoLine \in Wrapping
  BY DEF NoLine, Wrapping
<1>1. at = [lines |-> <<>>, current |-> <<x>>]
  BY <1>0, PutCases
<1>2. x \in Nat /\ f[1] \in Nat
  BY Sizes DEF FewestFrom
<1>3. LineOf(parts, 1, 1 + 1) = <<x>> /\ OneLine(parts, 1, 1 + 1)
  BY Alone
<1> HIDE DEF at, x
<1>4. at.lines = <<>> /\ at.current = <<x>>
  BY <1>1
<1>5. at.lines \in Seq(Narrow)
  BY <1>4
<1>6. FlattenSeq(at.lines) \o at.current = <<x>>
  <2>1. <<>> \o <<x>> = <<x>>
    BY <1>2
  <2> QED
    BY <1>4, <2>1, FlattenOfNone, Zenon
<1>7. f[1] = Len(at.lines) + f[1]
  <2>1. Len(<<>>) = 0
    OBVIOUS
  <2>2. Len(at.lines) = 0
    BY <1>4, <2>1, Zenon
  <2> QED
    BY <1>2, <2>2
<1>8. 1 \in 1..1
  OBVIOUS
<1>9. PlacedFrom(parts, f, 1, at, 1)
  BY <1>3, <1>4, <1>7 DEF PlacedFrom
<1> QED
  BY <1>3, <1>5, <1>6, <1>8, <1>9 DEF Placed, at

LEMMA NextPlaced ==
  ASSUME NEW parts \in Seq(Part), NEW f, FewestFrom(parts, f), NEW k \in 1..(Len(parts) - 1),
         NEW at \in Wrapping, Placed(parts, f, k, at)
  PROVE  Placed(parts, f, k + 1, PutPart(at, parts[k + 1]))
<1> DEFINE n == Len(parts)
           l == k + 1
           x == parts[l].size
           line == Append(at.current, x)
           next == PutPart(at, parts[l])
<1>0. /\ n \in Nat /\ k \in Nat /\ l \in 2..n /\ l \in 1..n /\ 1 \in 1..n /\ l + 1 \in 2..(n + 1)
      /\ parts[l] \in Part /\ l \in 1..n /\ 1 \in 1..(n + 1)
  OBVIOUS
<1>1. x \in Nat /\ x <= Columns /\ Columns \in Nat
  BY <1>0, Sizes, ColumnsAssumption
<1>2. PICK s \in 1..k : PlacedFrom(parts, f, k, at, s)
  BY DEF Placed
<1>3. s \in 1..n /\ l \in s..n /\ l \in (s + 1)..n /\ l \in 1..n /\ s \in 1..l /\ l \in s..(n + 1) /\ s \in 1..(n + 1)
      /\ l - s \in Nat \ {0}
  BY <1>0
<1>4. /\ at.current = LineOf(parts, s, l) /\ OneLine(parts, s, l)
      /\ f[1] = Len(at.lines) + f[s]
  BY <1>2 DEF PlacedFrom
<1>5. LineOf(parts, s, l + 1) = line
  BY <1>3, <1>4, LineGrows
<1>6. at.current \in Seq(Nat) /\ at.current # <<>>
  <2>1. LineOf(parts, s, l) \in Seq(Nat) /\ Len(LineOf(parts, s, l)) = l - s
    BY <1>3, LineType
  <2>2. Len(<<>>) = 0
    OBVIOUS
  <2> QED
    BY <1>3, <1>4, <2>1, <2>2
<1>7. /\ at.lines \in Seq(Narrow) /\ at.lines \in Seq(Seq(Nat)) /\ Len(at.lines) \in Nat
      /\ FlattenSeq(at.lines) \in Seq(Nat)
  BY NarrowLines DEF Placed
<1>8. FlattenSeq(at.lines) \o at.current = LineOf(parts, 1, l)
  BY DEF Placed
<1>9. /\ LineOf(parts, 1, l + 1) = Append(LineOf(parts, 1, l), x)
      /\ LineOf(parts, 1, l) \in Seq(Nat)
  BY <1>0, LineGrows
<1>10. \A i \in 1..(n + 1) : f[i] \in Nat
  BY <1>0, FewestFall
<1>11. CASE ~parts[l].more /\ Fits(line)
  <2>1. next = [lines |-> at.lines, current |-> line]
    BY <1>0, <1>11, PutCases
  <2> HIDE DEF next, line
  <2>2. next.lines = at.lines /\ next.current = line
    BY <2>1
  <2>3. OneLine(parts, s, l + 1)
    <3>1. Measured(LineOf(parts, s, l + 1)) <= Columns
      BY <1>5, <1>11 DEF Fits
    <3>2. \A i \in (s + 1)..(l - 1) : ~parts[i].more
      BY <1>4 DEF OneLine
    <3>3. \A i \in (s + 1)..((l + 1) - 1) : i = l \/ i \in (s + 1)..(l - 1)
      BY <1>3
    <3>4. \A i \in (s + 1)..((l + 1) - 1) : ~parts[i].more
      BY <1>11, <3>2, <3>3
    <3> QED
      BY <3>1, <3>4 DEF OneLine
  <2>4. FlattenSeq(next.lines) \o next.current = LineOf(parts, 1, l + 1)
    <3> DEFINE a == FlattenSeq(at.lines)
               b == at.current
    <3>1. a \in Seq(Nat) /\ b \in Seq(Nat) /\ a \o b = LineOf(parts, 1, l)
      BY <1>6, <1>7, <1>8
    <3> HIDE DEF a, b, x
    <3>2. a \o Append(b, x) = Append(a \o b, x)
      BY <1>1, <3>1
    <3> QED
      BY <1>9, <2>2, <3>1, <3>2 DEF line, a, b
  <2>5. f[1] = Len(next.lines) + f[s]
    BY <1>4, <2>2
  <2>6. PlacedFrom(parts, f, l, next, s)
    BY <1>5, <2>2, <2>3, <2>5 DEF PlacedFrom
  <2>7. Placed(parts, f, l, next)
    BY <1>3, <1>7, <2>2, <2>4, <2>6 DEF Placed
  <2> QED
    BY <2>7 DEF next
<1>12. CASE ~(~parts[l].more /\ Fits(line))
  <2>1. next = [lines |-> Append(at.lines, at.current), current |-> <<x>>]
    BY <1>0, <1>6, <1>12, PutCases
  <2> HIDE DEF next, line
  <2>2. next.lines = Append(at.lines, at.current) /\ next.current = <<x>>
    BY <2>1
  <2>3. at.current \in Narrow
    BY <1>4, <1>6 DEF Narrow, OneLine
  <2>4. next.lines \in Seq(Narrow) /\ Len(next.lines) = Len(at.lines) + 1
    BY <1>7, <2>2, <2>3
  <2>5. FlattenSeq(next.lines) \o next.current = LineOf(parts, 1, l + 1)
    <3>1. FlattenSeq(next.lines) = LineOf(parts, 1, l)
      BY <1>6, <1>7, <1>8, <2>2, FlattenAppend
    <3> DEFINE a == LineOf(parts, 1, l)
    <3>2. a \in Seq(Nat)
      BY <1>9
    <3> HIDE DEF a, x
    <3>3. a \o <<x>> = Append(a, x)
      BY <1>1, <3>2
    <3> QED
      BY <1>9, <2>2, <3>1, <3>3 DEF a
  <2>6. ~OneLine(parts, s, l + 1)
    <3>1. SUFFICES ASSUME OneLine(parts, s, l + 1) PROVE FALSE
      OBVIOUS
    <3>2. Measured(LineOf(parts, s, l + 1)) <= Columns
      BY <3>1 DEF OneLine
    <3>3. \A i \in (s + 1)..((l + 1) - 1) : ~parts[i].more
      BY <3>1 DEF OneLine
    <3>4. l \in (s + 1)..((l + 1) - 1)
      BY <1>3
    <3>5. Fits(line) /\ ~parts[l].more
      BY <1>5, <3>2, <3>3, <3>4 DEF Fits
    <3> QED
      BY <1>12, <3>5
  <2>7. f[s] = 1 + f[l]
    <3>1. l \in Ends(parts, s)
      BY <1>3, <1>4 DEF Ends
    <3>2. f[s] <= 1 + f[l]
      BY <1>3, <3>1 DEF FewestFrom
    <3>3. PICK j \in Ends(parts, s) : f[s] = 1 + f[j]
      BY <1>3 DEF FewestFrom
    <3>4. j \in (s + 1)..(n + 1) /\ OneLine(parts, s, j)
      BY <3>3 DEF Ends
    <3>5. j <= l
      <4>1. SUFFICES ASSUME l + 1 <= j PROVE FALSE
        BY <1>0, <3>4
      <4>2. j \in s..(n + 1) /\ l + 1 \in s..j
        BY <1>3, <3>4, <4>1
      <4>3. OneLine(parts, s, l + 1)
        BY <1>3, <3>4, <4>2, OneLines
      <4> QED
        BY <2>6, <4>3
    <3>6. j \in 1..n /\ l \in j..(n + 1) /\ j \in 1..(n + 1) /\ l \in 1..(n + 1)
      BY <1>3, <3>4, <3>5
    <3>7. f[l] <= f[j]
      BY <3>6, FewestFall
    <3>8. f[l] \in Nat /\ f[j] \in Nat /\ f[s] \in Nat
      BY <1>3, <1>10, <3>6
    <3> QED
      BY <3>2, <3>3, <3>7, <3>8
  <2>8. f[1] = Len(next.lines) + f[l]
    <3>1. f[l] \in Nat
      BY <1>0, <1>10
    <3> DEFINE a == Len(at.lines)
               b == Len(next.lines)
    <3>2. a \in Nat /\ b = a + 1 /\ f[1] = a + f[s]
      BY <1>4, <1>7, <2>4
    <3> HIDE DEF a, b, l
    <3>3. f[1] = b + f[l]
      BY <2>7, <3>1, <3>2
    <3> QED
      BY <3>3 DEF b
  <2>9. LineOf(parts, l, l + 1) = <<x>> /\ OneLine(parts, l, l + 1)
    BY <1>0, Alone
  <2>10. PlacedFrom(parts, f, l, next, l)
    BY <2>2, <2>8, <2>9 DEF PlacedFrom
  <2>11. Placed(parts, f, l, next)
    <3>1. l \in 1..l
      BY <1>0
    <3> QED
      BY <2>4, <2>5, <2>10, <3>1 DEF Placed
  <2> QED
    BY <2>11 DEF next
<1> QED
  BY <1>11, <1>12

\* What the loops make of a paragraph.
LEMMA ParagraphIsTight ==
  ASSUME NEW words \in Seq(Nat)
  PROVE  /\ wrapParagraph(words) \in Seq(Narrow)
         /\ FlattenSeq(wrapParagraph(words)) = [j \in DOMAIN Parts(words) |-> Parts(words)[j].size]
         /\ Len(wrapParagraph(words)) = FewestLines(Parts(words))
<1> DEFINE parts == Parts(words)
           lines == wrapParagraph(words)
           n == Len(parts)
           all == LineOf(parts, 1, n + 1)
<1>1. parts \in Seq(Part)
  BY PartsType
<1>2. PICK f : /\ FewestFrom(parts, f)
               /\ FewestLines(parts) = IF parts = <<>> THEN 1 ELSE f[1]
  <2> HIDE DEF parts
  <2> QED
    BY <1>1, FewestIs
<1>3. PICK g \in [0..n -> Wrapping] :
        /\ g[0] = NoLine
        /\ \A k \in 1..n : g[k] = PutPart(g[k - 1], parts[k])
        /\ FoldLeft(PutPart, NoLine, parts) = g[n]
  <2> HIDE DEF parts
  <2> QED
    BY <1>1, PutPartSteps
<1>4. lines = Append(g[n].lines, g[n].current)
  BY <1>3 DEF wrapParagraph, NoLine
<1> HIDE DEF parts, lines
<1>5. n \in Nat /\ DOMAIN parts = 1..n
  BY <1>1
<1>6. all = [j \in DOMAIN parts |-> parts[j].size]
  <2>1. (n + 1) - 1 = n /\ \A k \in 1..n : 1 + k - 1 = k
    BY <1>5
  <2>2. all = [k \in 1..n |-> parts[1 + k - 1].size]
    BY <2>1 DEF LineOf
  <2>3. [k \in 1..n |-> parts[1 + k - 1].size] = [k \in 1..n |-> parts[k].size]
    BY <2>1
  <2> QED
    BY <1>5, <2>2, <2>3
<1>7. CASE n = 0
  <2>1. parts = <<>>
    BY <1>1, <1>7
  <2>2. lines = Append(<<>>, <<>>)
    <3>1. NoLine.lines = <<>> /\ NoLine.current = <<>>
      BY DEF NoLine
    <3> HIDE DEF n
    <3>2. g[n] = NoLine
      BY <1>3, <1>7
    <3> QED
      BY <1>4, <3>1, <3>2, Zenon
  <2>3. <<>> \in Narrow /\ <<>> \in Seq(Seq(Nat)) /\ <<>> \in Seq(Narrow) /\ <<>> \in Seq(Nat)
    <3>1. <<>> \in Seq(Nat) /\ -1 <= Columns
      BY ColumnsAssumption
    <3>2. Measured(<<>>) <= Columns
      BY <3>1, MeasuredOfNone
    <3>3. \A A : <<>> \in Seq(A)
      OBVIOUS
    <3>4. <<>> \in Narrow
      BY <3>1, <3>2 DEF Narrow
    <3> QED
      BY <3>3, <3>4
  <2>4. lines \in Seq(Narrow) /\ Len(lines) = 1
    <3> DEFINE a == <<>>
    <3>1. a \in Narrow /\ <<>> \in Seq(Narrow)
      BY <2>3
    <3> HIDE DEF a
    <3>2. Append(<<>>, a) \in Seq(Narrow) /\ Len(Append(<<>>, a)) = 1
      BY <3>1
    <3> QED
      BY <2>2, <3>2 DEF a
  <2>5. FlattenSeq(lines) = <<>>
    <3>1. FlattenSeq(lines) = FlattenSeq(<<>>) \o <<>>
      BY <2>2, <2>3, FlattenAppend
    <3>2. <<>> \o <<>> = <<>>
      OBVIOUS
    <3> QED
      BY <3>1, <3>2, FlattenOfNone, Zenon
  <2>6. [j \in DOMAIN parts |-> parts[j].size] = <<>>
    <3>1. \A h \in [1..0 -> Nat] : h = <<>>
      OBVIOUS
    <3>2. [j \in DOMAIN parts |-> parts[j].size] \in [1..0 -> Nat]
      BY <1>5, <1>7
    <3> QED
      BY <3>1, <3>2
  <2> QED
    BY <1>2, <2>1, <2>4, <2>5, <2>6 DEF parts, lines
<1>8. CASE n # 0
  <2>1. 1 \in 1..n /\ n \in 1..n
    BY <1>5, <1>8
  <2> DEFINE G == {m \in 0..(n - 1) : Placed(parts, f, m + 1, g[m + 1])}
  <2>2. 0 \in G
    <3>1. g[1] = PutPart(NoLine, parts[1])
      <4>1. g[1] = PutPart(g[1 - 1], parts[1]) /\ 1 - 1 = 0
        BY <1>3, <2>1
      <4> QED
        BY <1>3, <4>1
    <3>2. Placed(parts, f, 1, g[1])
      BY <1>1, <1>2, <2>1, <3>1, FirstPlaced
    <3>3. 0 + 1 = 1 /\ 0 \in 0..(n - 1)
      BY <1>5, <2>1
    <3> QED
      BY <3>2, <3>3
  <2>3. ASSUME NEW m \in 0..((n - 1) - 1), m \in G PROVE m + 1 \in G
    <3> DEFINE k == m + 1
    <3>1. /\ k \in 1..(n - 1) /\ k + 1 \in 1..n /\ (k + 1) - 1 = k /\ k \in 0..n
          /\ m + 1 \in 0..(n - 1) /\ m + 1 = k
      BY <1>5
    <3>2. Placed(parts, f, k, g[k]) /\ g[k] \in Wrapping
      BY <2>3, <3>1
    <3> HIDE DEF k
    <3>3. Placed(parts, f, k + 1, PutPart(g[k], parts[k + 1]))
      BY <1>1, <1>2, <3>1, <3>2, NextPlaced
    <3>4. g[k + 1] = PutPart(g[k], parts[k + 1])
      <4>1. g[k + 1] = PutPart(g[(k + 1) - 1], parts[k + 1])
        BY <1>3, <3>1
      <4> QED
        BY <3>1, <4>1
    <3> QED
      BY <3>1, <3>3, <3>4
  <2> HIDE DEF G
  <2>4. n - 1 \in G
    <3>1. n - 1 \in Nat /\ n - 1 \in 0..(n - 1)
      BY <1>5, <2>1
    <3>2. \A m \in 0..(n - 1) : m \in G
      BY <2>2, <2>3, <3>1, CountingUp
    <3> QED
      BY <3>1, <3>2
  <2> DEFINE end == g[n]
  <2>5. Placed(parts, f, n, end)
    <3>1. (n - 1) + 1 = n
      BY <1>5
    <3>2. Placed(parts, f, (n - 1) + 1, g[(n - 1) + 1])
      BY <2>4 DEF G
    <3> HIDE DEF n
    <3> QED
      BY <3>1, <3>2
  <2>6. end \in Wrapping
    BY <1>3, <1>5
  <2> HIDE DEF end
  <2>7. PICK s \in 1..n : PlacedFrom(parts, f, n, end, s)
    BY <2>5 DEF Placed
  <2>8. end.lines \in Seq(Narrow) /\ end.lines \in Seq(Seq(Nat)) /\ Len(end.lines) \in Nat
    BY <2>5, NarrowLines DEF Placed
  <2>9. end.current \in Narrow /\ end.current \in Seq(Nat)
    <3>1. end.current \in Seq(Nat)
      BY <2>6 DEF Wrapping
    <3> QED
      BY <2>7, <3>1 DEF PlacedFrom, OneLine, Narrow
  <2>10. lines = Append(end.lines, end.current)
    BY <1>4 DEF end
  <2>11. lines \in Seq(Narrow) /\ Len(lines) = Len(end.lines) + 1
    BY <2>8, <2>9, <2>10
  <2>12. FlattenSeq(lines) = all
    BY <2>5, <2>8, <2>9, <2>10, FlattenAppend DEF Placed
  <2>13. f[s] = 1
    <3>1. n + 1 \in (s + 1)..(n + 1) /\ s \in 1..n
      BY <1>5
    <3>2. n + 1 \in Ends(parts, s)
      BY <2>7, <3>1 DEF Ends, PlacedFrom
    <3>3. f[n + 1] = 0 /\ f[s] <= 1 + f[n + 1] /\ f[s] \in Nat
      BY <1>2, <3>2 DEF FewestFrom
    <3>4. PICK j \in Ends(parts, s) : f[s] = 1 + f[j]
      BY <1>2, <3>1 DEF FewestFrom
    <3>5. j \in s..(n + 1)
      BY <1>5, <3>4 DEF Ends
    <3>6. f[j] \in Nat
      BY <1>1, <1>2, <3>1, <3>5, FewestFall
    <3> HIDE DEF n
    <3>7. f[s] <= 1
      BY <3>3
    <3> QED
      BY <3>3, <3>4, <3>6, <3>7
  <2>14. Len(lines) = f[1]
    <3>1. f[1] = Len(end.lines) + f[s]
      BY <2>7 DEF PlacedFrom
    <3> QED
      BY <2>11, <2>13, <3>1
  <2>15. FewestLines(parts) = f[1]
    <3>1. parts # <<>>
      <4>1. Len(<<>>) = 0
        OBVIOUS
      <4> QED
        BY <1>8, <4>1
    <3> QED
      BY <1>2, <3>1
  <2> QED
    BY <1>6, <2>11, <2>12, <2>14, <2>15 DEF parts, lines
<1> QED
  BY <1>7, <1>8

\* What two sequences of sequences make is what each makes.
LEMMA FlattenCat ==
  ASSUME NEW A, NEW ss \in Seq(Seq(A))
  PROVE  \A tt \in Seq(Seq(A)) : FlattenSeq(ss \o tt) = FlattenSeq(ss) \o FlattenSeq(tt)
<1> DEFINE G == {tt \in Seq(Seq(A)) : FlattenSeq(ss \o tt) = FlattenSeq(ss) \o FlattenSeq(tt)}
<1>1. <<>> \in G
  <2>1. FlattenSeq(ss) \in Seq(A)
    BY FlattenType
  <2>2. ss \o <<>> = ss /\ FlattenSeq(ss) \o <<>> = FlattenSeq(ss)
    BY <2>1
  <2>3. FlattenSeq(ss \o <<>>) = FlattenSeq(ss) \o FlattenSeq(<<>>)
    BY <2>2, FlattenOfNone, Zenon
  <2>4. <<>> \in Seq(Seq(A))
    OBVIOUS
  <2> QED
    BY <2>3, <2>4
<1>2. ASSUME NEW tt \in Seq(Seq(A)), tt \in G, NEW x \in Seq(A) PROVE Append(tt, x) \in G
  <2>1. ss \o Append(tt, x) = Append(ss \o tt, x) /\ ss \o tt \in Seq(Seq(A))
    OBVIOUS
  <2>2. FlattenSeq(ss) \in Seq(A) /\ FlattenSeq(tt) \in Seq(A)
    BY FlattenType
  <2>3. FlattenSeq(ss \o Append(tt, x)) = FlattenSeq(ss \o tt) \o x
    BY <2>1, FlattenAppend
  <2>4. FlattenSeq(Append(tt, x)) = FlattenSeq(tt) \o x
    BY FlattenAppend
  <2>5. (FlattenSeq(ss) \o FlattenSeq(tt)) \o x = FlattenSeq(ss) \o (FlattenSeq(tt) \o x)
    <3> DEFINE a == FlattenSeq(ss) b == FlattenSeq(tt)
    <3>1. a \in Seq(A) /\ b \in Seq(A)
      BY <2>2
    <3> HIDE DEF a, b
    <3>2. (a \o b) \o x = a \o (b \o x)
      BY <3>1
    <3> QED
      BY <3>2 DEF a, b
  <2>6. FlattenSeq(ss \o tt) = FlattenSeq(ss) \o FlattenSeq(tt)
    BY <1>2
  <2>7. Append(tt, x) \in Seq(Seq(A))
    OBVIOUS
  <2> QED
    BY <2>3, <2>4, <2>5, <2>6, <2>7
<1> HIDE DEF G
<1>3. \A tt \in Seq(Seq(A)) : tt \in G
  BY <1>1, <1>2, SeqInduction
<1> QED
  BY <1>3 DEF G

\* A text has as many lines as its paragraphs together.
LEMMA FlattenLen ==
  ASSUME NEW A
  PROVE  \A ss \in Seq(Seq(A)) : Len(FlattenSeq(ss)) = Total([i \in DOMAIN ss |-> Len(ss[i])])
<1> DEFINE lens(ss) == [i \in DOMAIN ss |-> Len(ss[i])]
           G == {ss \in Seq(Seq(A)) : Len(FlattenSeq(ss)) = Total(lens(ss))}
<1>0. \A ss \in Seq(Seq(A)) : lens(ss) \in Seq(Int)
  OBVIOUS
<1>1. <<>> \in G
  <2>1. lens(<<>>) = <<>> /\ Len(<<>>) = 0 /\ <<>> \in Seq(Seq(A))
    OBVIOUS
  <2> HIDE DEF lens
  <2>2. Len(FlattenSeq(<<>>)) = Total(lens(<<>>))
    BY <2>1, FlattenOfNone, TotalOfNone, Zenon
  <2> QED
    BY <2>1, <2>2
<1>2. ASSUME NEW ss \in Seq(Seq(A)), ss \in G, NEW x \in Seq(A) PROVE Append(ss, x) \in G
  <2>1. lens(Append(ss, x)) = Append(lens(ss), Len(x)) /\ Len(x) \in Int
    OBVIOUS
  <2>2. FlattenSeq(ss) \in Seq(A)
    BY FlattenType
  <2>3. FlattenSeq(Append(ss, x)) = FlattenSeq(ss) \o x
    BY FlattenAppend
  <2>4. Len(FlattenSeq(Append(ss, x))) = Len(FlattenSeq(ss)) + Len(x)
    <3> DEFINE a == FlattenSeq(ss)
    <3>1. a \in Seq(A)
      BY <2>2
    <3> HIDE DEF a
    <3>2. Len(a \o x) = Len(a) + Len(x)
      BY <3>1
    <3> QED
      BY <3>2, <2>3 DEF a
  <2>5. Len(FlattenSeq(ss)) = Total(lens(ss))
    BY <1>2
  <2> HIDE DEF lens
  <2>6. Total(Append(lens(ss), Len(x))) = Total(lens(ss)) + Len(x)
    BY <1>0, <2>1, TotalAppend
  <2>7. Append(ss, x) \in Seq(Seq(A))
    OBVIOUS
  <2> QED
    BY <2>1, <2>4, <2>5, <2>6, <2>7
<1> HIDE DEF G, lens
<1>3. \A ss \in Seq(Seq(A)) : ss \in G
  BY <1>1, <1>2, SeqInduction
<1> QED
  BY <1>3 DEF G, lens

\* Joining twice is joining what each makes.
LEMMA FlattenTwice ==
  ASSUME NEW A
  PROVE  \A ss \in Seq(Seq(Seq(A))) :
           FlattenSeq(FlattenSeq(ss)) = FlattenSeq([i \in DOMAIN ss |-> FlattenSeq(ss[i])])
<1> DEFINE each(ss) == [i \in DOMAIN ss |-> FlattenSeq(ss[i])]
           G == {ss \in Seq(Seq(Seq(A))) : FlattenSeq(FlattenSeq(ss)) = FlattenSeq(each(ss))}
<1>0. \A x \in Seq(Seq(A)) : FlattenSeq(x) \in Seq(A)
  BY FlattenType
<1>1. <<>> \in G
  <2>1. each(<<>>) = <<>> /\ <<>> \in Seq(Seq(Seq(A)))
    OBVIOUS
  <2> HIDE DEF each
  <2>2. FlattenSeq(FlattenSeq(<<>>)) = FlattenSeq(each(<<>>))
    BY <2>1, FlattenOfNone, Zenon
  <2> QED
    BY <2>1, <2>2
<1>2. ASSUME NEW ss \in Seq(Seq(Seq(A))), ss \in G, NEW x \in Seq(Seq(A))
      PROVE  Append(ss, x) \in G
  <2> DEFINE n == Len(ss)
  <2>1. n \in Nat /\ DOMAIN ss = 1..n /\ \A i \in 1..n : ss[i] \in Seq(Seq(A))
    OBVIOUS
  <2>2. each(ss) \in Seq(Seq(A)) /\ Len(each(ss)) = n
    <3>1. \A i \in 1..n : FlattenSeq(ss[i]) \in Seq(A)
      BY <1>0, <2>1
    <3> HIDE DEF n
    <3>2. each(ss) \in [1..n -> Seq(A)]
      BY <2>1, <3>1
    <3> HIDE DEF each
    <3> QED
      BY <2>1, <3>2
  <2>3. each(Append(ss, x)) = Append(each(ss), FlattenSeq(x))
    <3>1. /\ DOMAIN Append(ss, x) = 1..(n + 1) /\ Append(ss, x)[n + 1] = x
          /\ \A i \in 1..n : Append(ss, x)[i] = ss[i]
      OBVIOUS
    <3> DEFINE t == Append(ss, x)
               z == FlattenSeq(x)
    <3>2. DOMAIN t = 1..(n + 1) /\ t[n + 1] = x /\ \A i \in 1..n : t[i] = ss[i]
      BY <3>1
    <3> HIDE DEF t, n
    <3>3. /\ DOMAIN each(t) = 1..(n + 1) /\ each(t)[n + 1] = z
          /\ \A i \in 1..n : each(t)[i] = each(ss)[i]
      BY <2>1, <3>2
    <3>4. z \in Seq(A)
      BY <1>0
    <3> DEFINE a == each(t)
               b == each(ss)
    <3>5. a \in [1..(n + 1) -> Seq(A)]
      <4>1. a = [i \in 1..(n + 1) |-> a[i]]
        BY <3>2
      <4>2. \A i \in 1..(n + 1) : a[i] \in Seq(A)
        <5> TAKE i \in 1..(n + 1)
        <5>1. CASE i = n + 1
          BY <3>3, <3>4, <5>1
        <5>2. CASE i # n + 1
          <6>1. i \in 1..n
            BY <2>1, <5>2
          <6>2. FlattenSeq(ss[i]) \in Seq(A)
            BY <1>0, <2>1, <6>1
          <6> QED
            BY <2>1, <3>3, <6>1, <6>2
        <5> QED
          BY <5>1, <5>2
      <4> HIDE DEF a
      <4> QED
        BY <4>1, <4>2
    <3> HIDE DEF a, b, z, each
    <3>6. a \in Seq(Seq(A)) /\ Len(a) = n + 1
      BY <2>1, <3>5
    <3>7. b \in Seq(Seq(A)) /\ Len(b) = n
      BY <2>2 DEF b
    <3>8. Append(b, z) \in Seq(Seq(A)) /\ Len(Append(b, z)) = n + 1
      BY <3>4, <3>7
    <3>9. \A k \in 1..(n + 1) : a[k] = Append(b, z)[k]
      <4> TAKE k \in 1..(n + 1)
      <4>1. CASE k = n + 1
        BY <2>1, <3>3, <3>4, <3>7, <4>1 DEF a
      <4>2. CASE k # n + 1
        <5>1. k \in 1..n
          BY <2>1, <4>2
        <5>2. Append(b, z)[k] = b[k]
          BY <3>4, <3>7, <5>1
        <5> QED
          BY <3>3, <5>1, <5>2 DEF a, b
      <4> QED
        BY <4>1, <4>2
    <3>10. n + 1 \in Nat
      BY <2>1
    <3>11. a = Append(b, z)
      BY <3>6, <3>8, <3>9, <3>10, SameSeq
    <3> QED
      BY <3>11 DEF a, b, t, z
  <2> HIDE DEF each
  <2>4. FlattenSeq(Append(ss, x)) = FlattenSeq(ss) \o x /\ FlattenSeq(ss) \in Seq(Seq(A))
    BY FlattenAppend, FlattenType
  <2>5. FlattenSeq(FlattenSeq(ss) \o x) = FlattenSeq(FlattenSeq(ss)) \o FlattenSeq(x)
    BY <2>4, FlattenCat
  <2>6. FlattenSeq(Append(each(ss), FlattenSeq(x))) = FlattenSeq(each(ss)) \o FlattenSeq(x)
    BY <1>0, <2>2, FlattenAppend
  <2>7. FlattenSeq(FlattenSeq(ss)) = FlattenSeq(each(ss))
    BY <1>2
  <2>8. FlattenSeq(FlattenSeq(Append(ss, x))) = FlattenSeq(each(Append(ss, x)))
    BY <2>3, <2>4, <2>5, <2>6, <2>7, Zenon
  <2>9. Append(ss, x) \in Seq(Seq(Seq(A)))
    OBVIOUS
  <2> QED
    BY <2>8, <2>9
<1> HIDE DEF G, each
<1>3. \A ss \in Seq(Seq(Seq(A))) : ss \in G
  BY <1>1, <1>2, SeqInduction
<1> QED
  BY <1>3 DEF G, each

\* What WrapsTightly says of the last text.
Tight(text, lines) ==
  LET parts == [i \in DOMAIN text |-> Parts(text[i])]
  IN  /\ FlattenSeq(lines) =
           FlattenSeq([i \in DOMAIN parts |-> [j \in DOMAIN parts[i] |-> parts[i][j].size]])
      /\ \A i \in DOMAIN lines : Measured(lines[i]) <= Columns
      /\ Len(lines) = Total([i \in DOMAIN parts |-> FewestLines(parts[i])])

\* The paragraphs of a text one after the other.
LEMMA TextIsTight ==
  ASSUME NEW text \in Texts
  PROVE  Tight(text, wrap(text))
<1> DEFINE set(i) == wrapParagraph(text[i])
           sizes(i) == [j \in DOMAIN Parts(text[i]) |-> Parts(text[i])[j].size]
           fewest(i) == FewestLines(Parts(text[i]))
           parts == [i \in DOMAIN text |-> Parts(text[i])]
           ss == [i \in DOMAIN text |-> set(i)]
           n == Len(text)
<1>0. n \in Nat /\ DOMAIN text = 1..n /\ \A i \in 1..n : text[i] \in Seq(Nat)
  BY DEF Texts
<1>1. \A i \in 1..n : set(i) \in Seq(Narrow) /\ FlattenSeq(set(i)) = sizes(i) /\ Len(set(i)) = fewest(i)
  BY <1>0, ParagraphIsTight
<1>2. wrap(text) = FlattenSeq(ss)
  BY DEF wrap
<1>3. /\ [i \in DOMAIN parts |-> [j \in DOMAIN parts[i] |-> parts[i][j].size]]
           = [i \in 1..n |-> sizes(i)]
      /\ [i \in DOMAIN parts |-> FewestLines(parts[i])] = [i \in 1..n |-> fewest(i)]
  <2>1. DOMAIN parts = 1..n /\ \A i \in 1..n : parts[i] = Parts(text[i])
    BY <1>0
  <2> HIDE DEF parts, n
  <2> QED
    BY <2>1
<1>4. ss = [i \in 1..n |-> set(i)]
  BY <1>0
<1> HIDE DEF set, sizes, fewest, n, ss
<1>5. ss \in Seq(Seq(Narrow)) /\ ss \in Seq(Seq(Seq(Nat)))
  <2>1. \A i \in 1..n : set(i) \in Seq(Narrow) /\ set(i) \in Seq(Seq(Nat))
    BY <1>1, NarrowLines
  <2>2. ss \in [1..n -> Seq(Narrow)] /\ ss \in [1..n -> Seq(Seq(Nat))]
    BY <1>4, <2>1
  <2> QED
    BY <1>0, <2>2, FunctionIsSeq
<1>6. DOMAIN ss = 1..n /\ \A i \in 1..n : ss[i] = set(i)
  BY <1>4
<1>7. FlattenSeq(wrap(text)) = FlattenSeq([i \in 1..n |-> sizes(i)])
  <2>1. FlattenSeq(FlattenSeq(ss)) = FlattenSeq([i \in DOMAIN ss |-> FlattenSeq(ss[i])])
    BY <1>5, FlattenTwice
  <2>2. [i \in DOMAIN ss |-> FlattenSeq(ss[i])] = [i \in 1..n |-> sizes(i)]
    BY <1>1, <1>6
  <2> QED
    BY <1>2, <2>1, <2>2, Zenon
<1>8. Len(wrap(text)) = Total([i \in 1..n |-> fewest(i)])
  <2>1. Len(FlattenSeq(ss)) = Total([i \in DOMAIN ss |-> Len(ss[i])])
    BY <1>5, FlattenLen
  <2>2. [i \in DOMAIN ss |-> Len(ss[i])] = [i \in 1..n |-> fewest(i)]
    BY <1>1, <1>6
  <2> QED
    BY <1>2, <2>1, <2>2, Zenon
<1>9. \A i \in DOMAIN wrap(text) : Measured(wrap(text)[i]) <= Columns
  <2> DEFINE lines == wrap(text)
  <2>1. lines \in Seq(Narrow)
    BY <1>2, <1>5, FlattenType
  <2> HIDE DEF lines
  <2>2. \A i \in DOMAIN lines : lines[i] \in Narrow
    BY <2>1
  <2>3. \A i \in DOMAIN lines : Measured(lines[i]) <= Columns
    BY <2>2 DEF Narrow
  <2> QED
    BY <2>3 DEF lines
<1> QED
  BY <1>3, <1>7, <1>8, <1>9, Zenon DEF Tight, parts

\* A text that is one empty paragraph is one empty line.
LEMMA NoTextIsTight == << <<>> >> \in Texts /\ wrap(<< <<>> >>) = << <<>> >>
<1> DEFINE none == <<>>
           p == wrapParagraph(none)
<1>1. \A A : <<>> \in Seq(A)
  OBVIOUS
<1>2. none \in Seq(Nat \ {0}) /\ none \in Seq(Nat) /\ none \in Seq(Part)
  BY <1>1
<1>3. Parts(none) = <<>>
  <2>1. DOMAIN none = {}
    OBVIOUS
  <2>2. \A f, g : [i \in DOMAIN none |-> f] = <<>>
    OBVIOUS
  <2>3. Parts(none) = FlattenSeq(<<>>)
    BY DEF Parts
  <2> QED
    BY <2>3, FlattenOfNone
<1> HIDE DEF none
<1>4. /\ p \in Seq(Narrow) /\ Len(p) = FewestLines(Parts(none))
      /\ FlattenSeq(p) = [j \in DOMAIN Parts(none) |-> Parts(none)[j].size]
  BY <1>2, ParagraphIsTight
<1>5. Len(p) = 1
  BY <1>3, <1>4 DEF FewestLines
<1>6. FlattenSeq(p) = <<>>
  BY <1>3, <1>4
<1> HIDE DEF p
<1>7. PICK x \in Seq(Nat) : p = Append(<<>>, x)
  <2>1. p[1] \in Narrow
    BY <1>4, <1>5
  <2>2. p[1] \in Seq(Nat)
    BY <2>1 DEF Narrow
  <2> DEFINE x == p[1]
  <2> HIDE DEF x
  <2>3. p = <<x>>
    BY <1>4, <1>5 DEF x
  <2>4. Append(<<>>, x) = <<x>>
    OBVIOUS
  <2> QED
    BY <2>2, <2>3, <2>4 DEF x
<1>8. x = <<>>
  <2>1. FlattenSeq(p) = FlattenSeq(<<>>) \o x
    BY <1>1, <1>7, FlattenAppend
  <2>2. <<>> \o x = x
    OBVIOUS
  <2> QED
    BY <1>6, <2>1, <2>2, FlattenOfNone, Zenon
<1>9. p = << <<>> >>
  <2>1. Append(<<>>, <<>>) = << <<>> >>
    OBVIOUS
  <2> QED
    BY <1>7, <1>8, <2>1, Zenon
<1>10. wrap(<<none>>) = << <<>> >>
  <2> DEFINE text == <<none>>
             ss == [i \in DOMAIN text |-> wrapParagraph(text[i])]
  <2>1. ss = <<p>>
    BY DEF p
  <2>2. wrap(text) = FlattenSeq(ss)
    BY DEF wrap
  <2> HIDE DEF ss
  <2>3. p \in Seq(Seq(Nat))
    BY <1>4, NarrowLines
  <2>4. <<p>> = Append(<<>>, p)
    OBVIOUS
  <2>5. FlattenSeq(Append(<<>>, p)) = FlattenSeq(<<>>) \o p
    BY <1>1, <2>3, FlattenAppend
  <2>6. <<>> \o p = p
    BY <2>3
  <2>7. FlattenSeq(ss) = p
    BY <2>1, <2>4, <2>5, <2>6, FlattenOfNone, Zenon
  <2> QED
    BY <1>9, <2>2, <2>7, Zenon
<1>11. <<none>> \in Texts
  BY <1>2 DEF Texts
<1> QED
  BY <1>10, <1>11 DEF none

\* Whatever was wrapped last was a text of the document.
WrapInv == wrapped.text \in Texts /\ wrapped.lines = wrap(wrapped.text)

LEMMA WrapNext == SumsInv /\ PageInv /\ WrapInv /\ [Next]_vars => WrapInv'
<1> SUFFICES ASSUME SumsInv, PageInv, WrapInv, [Next]_vars PROVE WrapInv'
  OBVIOUS
<1>1. ASSUME NEW text \in Texts, wrapped' = [text |-> text, lines |-> wrap(text)]
      PROVE  WrapInv'
  BY <1>1 DEF WrapInv
<1>2. ASSUME UNCHANGED wrapped PROVE WrapInv'
  BY <1>2 DEF WrapInv
<1>3. ASSUME NEW customer \in CustomerTexts, NEW payment \in PaymentTexts,
             DrawInformation(customer, payment)
      PROVE  WrapInv'
  BY <1>1, <1>3, TextsAssumption DEF DrawInformation
<1>4. ASSUME DrawRow PROVE WrapInv'
  <2> DEFINE n == RowsDrawn + 1
             text == concepts[n].item.text
  <2>1. n <= Len(concepts) /\ wrapped' = [text |-> text, lines |-> wrap(text)]
    BY <1>4 DEF DrawRow
  <2>2. n \in DOMAIN concepts
    <3>1. RowsDrawn \in 0..Len(concepts)
      BY <1>4 DEF DrawRow, PageInv
    <3>2. concepts \in Seq(Priced)
      BY DEF SumsInv
    <3> QED
      BY <2>1, <3>1, <3>2
  <2>3. concepts[n] \in Priced
    BY <2>2 DEF SumsInv
  <2>4. PICK item \in Items : concepts[n] = calculate(item)
    BY <2>3 DEF Priced
  <2>5. text \in Texts
    BY <2>4, ItemsAssumption DEF calculate
  <2> HIDE DEF text
  <2> QED
    BY <1>1, <2>1, <2>5
<1>5. ASSUME NEW text \in NoteTexts, BeginParagraph(text) PROVE WrapInv'
  BY <1>1, <1>5, TextsAssumption DEF BeginParagraph
<1>6. ASSUME NEW item \in Items, AddConcept(item) PROVE WrapInv'
  BY <1>2, <1>6 DEF AddConcept
<1>7. ASSUME NEW option \in Options, GeneratePDF(option) PROVE WrapInv'
  BY <1>2, <1>7 DEF GeneratePDF
<1>8. CASE Create
  BY <1>2, <1>8 DEF Create
<1>9. CASE DrawTotals
  BY <1>2, <1>9 DEF DrawTotals
<1>10. CASE DrawNoteLine
  BY <1>2, <1>10 DEF DrawNoteLine
<1>11. CASE DrawSignature
  BY <1>2, <1>11 DEF DrawSignature
<1>12. CASE Fail
  BY <1>2, <1>12 DEF Fail
<1>13. CASE UNCHANGED vars
  BY <1>2, <1>13 DEF vars
<1> QED
  BY <1>3, <1>4, <1>5, <1>6, <1>7, <1>8, <1>9, <1>10, <1>11, <1>12, <1>13 DEF Next

\* The lines of every text are its words in order, none is wider than the column, and the
\* text could not be set in fewer.
THEOREM LinesAreTight == Spec => []WrapsTightly
<1>1. Init => SumsInv /\ PageInv /\ WrapInv
  <2>1. Init => wrapped.text = << <<>> >> /\ wrapped.lines = << <<>> >>
    BY DEF Init
  <2> QED
    BY <2>1, SumsInit, PageInit, NoTextIsTight DEF WrapInv
<1>2. (SumsInv /\ PageInv /\ WrapInv) /\ [Next]_vars => (SumsInv /\ PageInv /\ WrapInv)'
  BY SumsNext, PageNext, WrapNext
<1>3. WrapInv => WrapsTightly
  <2> SUFFICES ASSUME WrapInv PROVE WrapsTightly
    OBVIOUS
  <2>1. Tight(wrapped.text, wrapped.lines)
    BY TextIsTight DEF WrapInv
  <2> QED
    BY <2>1, Zenon DEF Tight, WrapsTightly
<1> QED
  BY <1>1, <1>2, <1>3, PTL DEF Spec
=============================================================================
