------------------------ MODULE InvoiceLedgerProofs ------------------------
(***************************************************************************)
(* Theorems about InvoiceLedger, for every value of its constants.  The    *)
(* invariant they share is about one row at a time: whatever a handler     *)
(* writes into an invoice is a row whose amounts fit together (RowOK).     *)
(* From it follow what a step may never do to an invoice, the numbers that *)
(* are issued and the credit that is granted.  The sums over all invoices  *)
(* come last (SumsInv): a step changes one row, so it changes one term.    *)
(***************************************************************************)
EXTENDS InvoiceLedger, SumTheorems

\* What every row satisfies: its type, how it was priced, how it is settled,
\* that money out never exceeds money in, and that exactly the rows that
\* exist carry a number.
Priced(inv) ==
  /\ inv.gross = LineTotal(inv.qty, inv.lineDiscount)
  /\ inv.discount <= inv.gross
  /\ inv.total = inv.gross - inv.discount

Settled(inv) ==
  /\ inv.paid + inv.remaining = inv.total
  /\ inv.status = "PAID" => inv.remaining <= Tolerance
  /\ inv.status = "UNPAID" => inv.paid <= Tolerance /\ inv.remaining > Tolerance
  /\ inv.status = "PARTIAL" =>
       inv.remaining > Tolerance /\ (inv.paid > 0 \/ inv.returnedQty > 0)

Covered(inv) ==
  inv.status \in {"UNPAID", "PARTIAL", "PAID"} =>
    inv.paid + inv.refund + inv.credited <= inv.cash + inv.card + inv.walletPaid

Numbered(inv) == inv.status = "NONE" <=> inv.number = 0

RowOK(inv) ==
  /\ inv \in Invoice
  /\ Priced(inv)
  /\ Settled(inv)
  /\ Covered(inv)
  /\ Numbered(inv)

\* The inductive invariant of TypeCorrect and the settlement theorems.
RowsOK    == invoice \in [Invoices -> Invoice] /\ \A i \in Invoices : RowOK(invoice[i])
AccountOK == /\ stock \in Int
             /\ credit \in Nat
             /\ wallet \in Int /\ wallet >= -Tolerance
             /\ points \in Nat
FiscalOK  == /\ seq \in [Years -> Nat]
             /\ burnt \in [Invoices -> SUBSET Nat]
             /\ years \in [Years -> FiscalYear]
             /\ now \in Periods
LedgerInv == RowsOK /\ AccountOK /\ FiscalOK
-----------------------------------------------------------------------------
\* Arithmetic the handlers rely on.
LEMMA DivNat ==
  ASSUME NEW a \in Nat, NEW b \in Nat \ {0}
  PROVE  a \div b \in Nat
  OBVIOUS

LEMMA DivAtLeast ==
  ASSUME NEW a \in Int, NEW b \in Nat \ {0}, NEW c \in Int, b * c <= a
  PROVE  c <= a \div b
  OBVIOUS

LEMMA RoundDivNat ==
  ASSUME NEW a \in Nat, NEW b \in Nat \ {0}
  PROVE  RoundDiv(a, b) \in Nat
<1>1. 2 * a + b \in Nat /\ 2 * b \in Nat \ {0}
  OBVIOUS
<1>2. QED BY <1>1, DivNat DEF RoundDiv

\* A quotient is the largest that fits.
LEMMA DivBounds ==
  ASSUME NEW a \in Int, NEW b \in Nat \ {0}
  PROVE  /\ a \div b \in Int
         /\ b * (a \div b) <= a
         /\ a < b * (a \div b) + b
  OBVIOUS

\* Math.round is at most one half away from the quotient.
LEMMA RoundDivBounds ==
  ASSUME NEW a \in Nat, NEW b \in Nat \ {0}
  PROVE  /\ 2 * (b * RoundDiv(a, b)) <= 2 * a + b
         /\ 2 * a < 2 * (b * RoundDiv(a, b)) + b
<1>1. 2 * a + b \in Int /\ 2 * b \in Nat \ {0}
  OBVIOUS
<1>2. RoundDiv(a, b) \in Nat
  BY RoundDivNat
<1>3. /\ (2 * b) * RoundDiv(a, b) <= 2 * a + b
      /\ 2 * a + b < (2 * b) * RoundDiv(a, b) + 2 * b
  BY <1>1, DivBounds DEF RoundDiv
<1>4. (2 * b) * RoundDiv(a, b) = 2 * (b * RoundDiv(a, b))
  BY <1>2
<1>5. b * RoundDiv(a, b) \in Int
  BY <1>2
<1>6. QED BY <1>3, <1>4, <1>5

\* ... and grows with its argument.
LEMMA RoundDivMono ==
  ASSUME NEW a \in Nat, NEW c \in Nat, NEW b \in Nat \ {0}, a <= c
  PROVE  RoundDiv(a, b) <= RoundDiv(c, b)
<1>1. RoundDiv(a, b) \in Int
  BY RoundDivNat
<1>2. (2 * b) * RoundDiv(a, b) <= 2 * a + b
  BY <1>1, RoundDivBounds
<1>3. (2 * b) * RoundDiv(a, b) <= 2 * c + b
  BY <1>1, <1>2
<1>4. 2 * c + b \in Int /\ 2 * b \in Nat \ {0}
  OBVIOUS
<1>5. QED BY <1>1, <1>3, <1>4, DivAtLeast DEF RoundDiv

\* ... and is zero for zero.
LEMMA RoundDivZero ==
  ASSUME NEW b \in Nat \ {0}
  PROVE  RoundDiv(0, b) = 0
<1> DEFINE r == RoundDiv(0, b)
<1>1. r \in Nat /\ 2 * (b * r) <= 2 * 0 + b
  BY RoundDivNat, RoundDivBounds
<1> HIDE DEF r
<1>2. r > 0 => b <= b * r /\ b * r \in Nat
  BY <1>1
<1>3. r = 0
  BY <1>1, <1>2
<1>4. QED BY <1>3 DEF r

\* Factors on either side of an inequality.
LEMMA TimesMono ==
  ASSUME NEW a \in Nat, NEW x \in Int, NEW y \in Int, x <= y
  PROVE  a * x <= a * y
  OBVIOUS

LEMMA TimesLess ==
  ASSUME NEW a \in Nat, NEW x \in Int, NEW y \in Int, a * x < a * y
  PROVE  x < y
  OBVIOUS

\* Math.min of two amounts.
LEMMA LesserNat ==
  ASSUME NEW a \in Nat, NEW b \in Nat
  PROVE  Lesser(a, b) \in Nat /\ Lesser(a, b) <= a /\ Lesser(a, b) <= b
  BY DEF Lesser

\* MAX(0, x) of an SQL update.
LEMMA AtLeast0Nat ==
  ASSUME NEW a \in Int
  PROVE  AtLeast0(a) \in Nat /\ a <= AtLeast0(a)
  BY DEF AtLeast0

\* The discount that stays is an amount, and at most the new gross.
LEMMA ProRatedNat ==
  ASSUME NEW inv \in Invoice, NEW gross \in Nat
  PROVE  ProRated(inv, gross) \in Nat /\ ProRated(inv, gross) <= gross
<1>1. inv.gross \in Nat /\ inv.discount \in Nat
  BY DEF Invoice
<1>2. CASE inv.gross > 0
  <2>1. inv.discount * gross \in Nat
    BY <1>1
  <2>2. RoundDiv(inv.discount * gross, inv.gross) \in Nat
    BY <1>1, <1>2, <2>1, RoundDivNat
  <2>3. QED BY <1>2, <2>2, LesserNat DEF ProRated
<1>3. CASE ~(inv.gross > 0)
  BY <1>3 DEF ProRated
<1>4. QED BY <1>2, <1>3

\* Pro-rating keeps a return from raising the total: with gross shrinking
\* from inv.gross to gross, the total shrinks too.
LEMMA ProRatedTotal ==
  ASSUME NEW inv \in Invoice, Priced(inv), NEW gross \in Nat, gross <= inv.gross
  PROVE  gross - ProRated(inv, gross) <= inv.total
<1> DEFINE g == inv.gross
           d == inv.discount
           n == 2 * (d * gross) + g
           e == d - (g - gross)
<1>1. g \in Nat /\ d \in Nat /\ d <= g /\ inv.total = g - d
  BY DEF Invoice, Priced
<1>2. CASE g > 0
  <2>1. (g - gross) * (g - d) >= 0
    BY <1>1
  <2>2. (g - gross) * (g - d) = d * gross - g * e
    BY <1>1
  <2>3. d * gross \in Nat /\ g * e \in Int
    BY <1>1
  <2>4. (2 * g) * e = 2 * (g * e)
    BY <1>1
  <2>5. (2 * g) * e <= n
    BY <1>1, <2>1, <2>2, <2>3, <2>4
  <2>6. e <= RoundDiv(d * gross, g)
    <3>1. n \in Int /\ 2 * g \in Nat \ {0} /\ e \in Int
      BY <1>1, <1>2, <2>3
    <3>2. e <= n \div (2 * g)
      BY <2>5, <3>1, DivAtLeast
    <3>3. QED BY <3>2 DEF RoundDiv
  <2>7. ProRated(inv, gross) = Lesser(RoundDiv(d * gross, g), gross)
    BY <1>2 DEF ProRated
  <2>8. RoundDiv(d * gross, g) \in Nat
    BY <1>1, <1>2, <2>3, RoundDivNat
  <2>9. e <= ProRated(inv, gross)
    <3> HIDE DEF e
    <3>1. e \in Int /\ e <= gross
      BY <1>1 DEF e
    <3>2. QED BY <2>6, <2>7, <2>8, <3>1 DEF Lesser
  <2>10. ProRated(inv, gross) \in Nat
    BY ProRatedNat
  <2>11. QED BY <1>1, <2>9, <2>10
<1>3. CASE ~(g > 0)
  BY <1>1, <1>3 DEF ProRated
<1>4. QED BY <1>2, <1>3

\* ... and if rounding makes the gross grow by k, the total grows by at most k.
LEMMA ProRatedRises ==
  ASSUME NEW inv \in Invoice, Priced(inv), NEW gross \in Nat, NEW k \in Nat,
         gross <= inv.gross + k
  PROVE  gross - ProRated(inv, gross) <= inv.total + k
<1> DEFINE g == inv.gross
           d == inv.discount
<1>1. g \in Nat /\ d \in Nat /\ d <= g /\ inv.total \in Nat /\ inv.total = g - d
  BY DEF Invoice, Priced
<1>2. ProRated(inv, gross) \in Nat
  BY ProRatedNat
<1>3. CASE gross <= g
  <2>1. gross - ProRated(inv, gross) <= inv.total
    BY <1>3, ProRatedTotal
  <2>2. QED BY <1>1, <1>2, <2>1
<1>4. CASE gross > g /\ g > 0
  <2>1. d * g <= d * gross /\ d * gross \in Nat
    BY <1>1, <1>4
  <2>2. d <= RoundDiv(d * gross, g)
    <3>1. (2 * g) * d = 2 * (d * g) /\ d * g \in Nat
      BY <1>1
    <3>2. (2 * g) * d <= 2 * (d * gross) + g
      BY <1>1, <2>1, <3>1
    <3>3. 2 * (d * gross) + g \in Int /\ 2 * g \in Nat \ {0}
      BY <1>1, <1>4, <2>1
    <3> DEFINE n == 2 * (d * gross) + g
               h == 2 * g
    <3>4. n \in Int /\ h \in Nat \ {0} /\ d \in Int /\ h * d <= n
      BY <1>1, <3>2, <3>3
    <3> HIDE DEF n, h, d, g
    <3>5. d <= n \div h
      BY <3>4, DivAtLeast
    <3>6. QED BY <3>5 DEF RoundDiv, n, h
  <2>3. RoundDiv(d * gross, g) \in Nat
    BY <1>1, <1>4, <2>1, RoundDivNat
  <2>4. ProRated(inv, gross) = Lesser(RoundDiv(d * gross, g), gross)
    BY <1>4 DEF ProRated
  <2> HIDE DEF g, d
  <2>5. d <= ProRated(inv, gross)
    BY <1>1, <1>4, <2>2, <2>3, <2>4 DEF Lesser
  <2>6. QED BY <1>1, <1>2, <2>5 DEF g
<1>5. CASE gross > g /\ ~(g > 0)
  <2>1. g = 0 /\ inv.total = 0
    BY <1>1, <1>5
  <2>2. ProRated(inv, gross) = 0
    BY <1>5 DEF ProRated
  <2>3. QED BY <2>1, <2>2
<1>6. QED BY <1>1, <1>3, <1>4, <1>5

\* What a line comes to is an amount, and grows with what is left of it.
LEMMA RoundedNat ==
  ASSUME NEW q \in Nat
  PROVE  q * Price \in Nat /\ Rounded(q) \in Nat
<1>1. q * Price \in Nat /\ Grain \in Nat \ {0}
  BY LedgerAssumption
<1>2. QED BY <1>1, RoundDivNat DEF Rounded

LEMMA LineGrossNat ==
  ASSUME NEW q \in Nat, NEW d \in Nat
  PROVE  LineGross(q, d) \in Nat
BY RoundedNat DEF LineGross, Lesser

LEMMA WithTaxNat ==
  ASSUME NEW a \in Nat
  PROVE  WithTax(a) \in Nat
<1>1. a * TaxRate \in Nat
  BY LedgerAssumption
<1>2. RoundDiv(a * TaxRate, 100) \in Nat
  BY <1>1, RoundDivNat
<1>3. QED BY <1>2 DEF WithTax

LEMMA LineTotalNat ==
  ASSUME NEW q \in Nat, NEW d \in Nat
  PROVE  LineTotal(q, d) \in Nat
BY LineGrossNat, WithTaxNat DEF LineTotal

\* A line of nothing comes to nothing.
LEMMA NoLine == LineTotal(0, 0) = 0
<1>1. Grain \in Nat \ {0}
  BY LedgerAssumption
<1>3. 0 * Price = 0 /\ 0 * TaxRate = 0
  BY LedgerAssumption
<1>4. Rounded(0) = 0
  BY <1>1, <1>3, RoundDivZero DEF Rounded
<1>5. LineGross(0, 0) = 0
  BY <1>4 DEF LineGross, Lesser
<1>6. RoundDiv(0, 100) = 0
  BY RoundDivZero
<1>7. QED BY <1>3, <1>5, <1>6 DEF LineTotal, WithTax

\* Tax at 100 percent or less makes of one minor unit at most two.
LEMMA TaxRounding ==
  ASSUME NEW a \in Nat, NEW b \in Nat, NEW k \in {0, 1}, a <= b + k
  PROVE  WithTax(a) <= WithTax(b) + (IF k = 0 THEN 0 ELSE IF TaxInclusive THEN 1 ELSE 2)
<1> DEFINE x == RoundDiv(a * TaxRate, 100)
           y == RoundDiv(b * TaxRate, 100)
<1>1. TaxRate \in Nat /\ TaxRate <= 100 /\ a * TaxRate \in Nat /\ b * TaxRate \in Nat
  BY LedgerAssumption
<1>2. x \in Nat /\ y \in Nat
  BY <1>1, RoundDivNat
<1>3. WithTax(a) = (IF TaxInclusive THEN a ELSE a + x)
      /\ WithTax(b) = (IF TaxInclusive THEN b ELSE b + y)
  BY DEF WithTax
<1>4. a <= b => x <= y
  <2>1. a <= b => a * TaxRate <= b * TaxRate
    BY <1>1
  <2>2. QED BY <1>1, <2>1, RoundDivMono
<1>5. x <= y + 1
  <2>1. a * TaxRate <= (b + 1) * TaxRate
    BY <1>1
  <2>2. (b + 1) * TaxRate = b * TaxRate + TaxRate
    BY <1>1
  <2>3. a * TaxRate <= b * TaxRate + 100
    BY <1>1, <2>1, <2>2
  <2>4. /\ 2 * (100 * x) <= 2 * (a * TaxRate) + 100
        /\ 2 * (b * TaxRate) < 2 * (100 * y) + 100
    BY <1>1, RoundDivBounds
  <2> DEFINE A == a * TaxRate
             B == b * TaxRate
  <2> HIDE DEF A, B, x, y
  <2>5. /\ A \in Nat /\ B \in Nat /\ A <= B + 100
        /\ 200 * x <= 2 * A + 100 /\ 2 * B < 200 * y + 100
    BY <1>1, <1>2, <2>3, <2>4 DEF A, B
  <2>6. 200 * x < 200 * y + 400
    BY <1>2, <2>5
  <2>7. QED BY <1>2, <2>6
<1> HIDE DEF x, y
<1>6. QED BY <1>2, <1>3, <1>4, <1>5

\* What the rounding of the line discount and of the line add up to: what is
\* left of a line comes to at most one minor unit more than the line did.
LEMMA LineRounding ==
  ASSUME NEW n \in Nat \ {0}, NEW m \in Nat, m <= n, NEW D \in Nat
  PROVE  LineGross(m, RoundDiv(D * m, n)) <= LineGross(n, D) + 1
<1> DEFINE G == Grain
           b == Rounded(n)
           c == Rounded(m)
           e == RoundDiv(D * m, n)
           X == n * Price
           Y == m * Price
           W == D * m
           k == b - D
           z == c - e
<1>1. G \in Nat \ {0} /\ Price \in Nat /\ X \in Nat /\ Y \in Nat /\ W \in Nat
  BY LedgerAssumption
<1>2. n * Y = m * X
  BY <1>1
<1>3. /\ b \in Nat /\ c \in Nat /\ e \in Nat
  BY <1>1, RoundDivNat DEF Rounded
<1>4. /\ 2 * (G * c) <= 2 * Y + G
      /\ 2 * X < 2 * (G * b) + G
      /\ 2 * W < 2 * (n * e) + n
  BY <1>1, RoundDivBounds DEF Rounded
<1>5. /\ LineGross(n, D) = b - Lesser(D, b)
      /\ LineGross(m, RoundDiv(D * m, n)) = c - Lesser(e, c)
  BY DEF LineGross
<1>6. k \in Int /\ z \in Int
  BY <1>3
<1> DEFINE Q == X - G * D      \* what the line was short of D, exactly
<1>7. Q \in Int /\ 2 * Q <= 2 * (G * k) + G - 1
  <2>1. G * k = G * b - G * D /\ G * k \in Int /\ G * b \in Int /\ G * D \in Int
    BY <1>1, <1>3
  <2> HIDE DEF X, k
  <2>2. QED BY <1>1, <1>4, <2>1
<1>8. m * Q = n * Y - G * W /\ m * Q \in Int
  BY <1>1, <1>2
<1>9. (2 * (n * G)) * z <= 2 * (m * Q) + 2 * (n * G) - G
  <2>1. n * (2 * (G * c)) <= n * (2 * Y + G)
    <3>1. 2 * (G * c) \in Int /\ 2 * Y + G \in Int
      BY <1>1, <1>3
    <3> HIDE DEF G, c, Y
    <3>2. QED BY <1>4, <3>1, TimesMono
  <2>2. G * (2 * W - n + 1) <= G * (2 * (n * e))
    <3>1. 2 * W - n + 1 \in Int /\ 2 * (n * e) \in Int /\ 2 * W - n + 1 <= 2 * (n * e)
      <4>1. n * e \in Int
        BY <1>3
      <4> HIDE DEF W, e
      <4>2. QED BY <1>1, <1>4, <4>1
    <3> HIDE DEF G, W, e
    <3>2. QED BY <1>1, <3>1, TimesMono
  <2> HIDE DEF G, b, c, e, X, Y, W, k, z, Q
  <2>3. n * (2 * (G * c)) = (2 * (n * G)) * c /\ G * (2 * (n * e)) = (2 * (n * G)) * e
    BY <1>1, <1>3
  <2>4. (2 * (n * G)) * z = (2 * (n * G)) * c - (2 * (n * G)) * e
    BY <1>1, <1>3 DEF z
  <2>5. n * (2 * Y + G) = 2 * (n * Y) + n * G
    BY <1>1
  <2>6. G * (2 * W - n + 1) = 2 * (G * W) - n * G + G
    BY <1>1
  <2>7. /\ (2 * (n * G)) * c \in Int /\ (2 * (n * G)) * e \in Int
        /\ n * Y \in Int /\ n * G \in Int /\ G * W \in Int
    BY <1>1, <1>3
  <2>8. QED BY <1>1, <1>8, <2>1, <2>2, <2>3, <2>4, <2>5, <2>6, <2>7
<1>10. 2 * (n * G) \in Nat /\ n * G \in Nat
  BY <1>1
<1>11. CASE k >= 0
  <2>1. 2 * (m * Q) <= n * (2 * (G * k) + G - 1)
    <3>1. G * k \in Nat
      <4> HIDE DEF G, k
      <4>1. QED BY <1>1, <1>6, <1>11
    <3> DEFINE U == 2 * (G * k) + G - 1
    <3>2. U \in Nat /\ 2 * Q <= U
      <4> HIDE DEF G, k, Q
      <4>1. QED BY <1>1, <1>7, <3>1
    <3> HIDE DEF U, Q
    <3>3. m * (2 * Q) <= m * U
      BY <1>7, <3>2, TimesMono
    <3>4. m * U <= n * U
      BY <3>2
    <3>5. m * (2 * Q) = 2 * (m * Q) /\ m * U \in Int /\ n * U \in Int
      BY <1>7, <3>2
    <3>6. QED BY <1>8, <3>3, <3>4, <3>5 DEF U
  <2> HIDE DEF G, b, c, e, X, Y, W, k, z, Q
  <2>2. n * (2 * (G * k) + G - 1) = (2 * (n * G)) * k + n * G - n
    BY <1>1, <1>6
  <2>3. (2 * (n * G)) * (k + 2) = (2 * (n * G)) * k + 4 * (n * G)
    BY <1>1, <1>6
  <2>4. (2 * (n * G)) * k \in Int /\ (2 * (n * G)) * z \in Int
    BY <1>6, <1>10
  <2>5. (2 * (n * G)) * z < (2 * (n * G)) * (k + 2)
    BY <1>1, <1>8, <1>9, <1>10, <2>1, <2>2, <2>3, <2>4
  <2>6. z < k + 2
    BY <1>6, <1>10, <2>5, TimesLess
  <2>7. QED BY <1>3, <1>5, <1>6, <1>11, <2>6 DEF Lesser, z, k
<1>12. CASE k < 0
  <2>1. m * Q <= 0
    <3>1. G * k <= -G
      <4> HIDE DEF G, k
      <4>1. QED BY <1>1, <1>6, <1>12
    <3>2. Q <= 0
      <4>1. G * k \in Int
        BY <1>1, <1>6
      <4> HIDE DEF G, k, Q
      <4>2. QED BY <1>1, <1>7, <3>1, <4>1
    <3> HIDE DEF Q
    <3>3. QED BY <1>7, <3>2
  <2> HIDE DEF G, b, c, e, X, Y, W, k, z, Q
  <2>2. (2 * (n * G)) * z < (2 * (n * G)) * 1
    <3>1. (2 * (n * G)) * z \in Int
      BY <1>6, <1>10
    <3>2. QED BY <1>1, <1>8, <1>9, <1>10, <2>1, <3>1
  <2>3. z < 1
    BY <1>6, <1>10, <2>2, TimesLess
  <2>4. QED BY <1>3, <1>5, <1>6, <1>12, <2>3 DEF Lesser, z, k
<1>13. QED BY <1>6, <1>11, <1>12

\* What an invoice comes to once q of its units are back: at most what it was,
\* but for what rounding adds to a line with a discount.
LEMMA ReturnedTotal ==
  ASSUME NEW inv, RowOK(inv), NEW q \in 1..inv.qty
  PROVE  LET line  == LineDiscountKept(inv, inv.qty - q)
             gross == LineTotal(inv.qty - q, line)
         IN  /\ inv.qty - q \in Nat /\ line \in Nat /\ gross \in Nat
             /\ gross - ProRated(inv, gross) <= inv.total + RoundingSlack(inv)
<1> DEFINE n     == inv.qty
           m     == n - q
           D     == inv.lineDiscount
           line  == LineDiscountKept(inv, m)
           gross == LineTotal(m, line)
<1>1. inv \in Invoice /\ Priced(inv)
  BY DEF RowOK
<1>2. n \in Nat \ {0} /\ m \in Nat /\ m <= n /\ D \in Nat
  <2>1. n \in Nat /\ D \in Nat
    BY <1>1 DEF Invoice
  <2> HIDE DEF n, D
  <2>2. q \in 1..n
    BY DEF n
  <2>3. QED BY <2>1, <2>2
<1>3. line = RoundDiv(D * m, n)
  BY DEF LineDiscountKept
<1>4. line \in Nat
  <2> HIDE DEF n, m, D, line
  <2>1. D * m \in Nat
    BY <1>2
  <2>2. QED BY <1>2, <1>3, <2>1, RoundDivNat
<1>5. /\ gross \in Nat /\ inv.gross = LineTotal(n, D)
      /\ LineGross(m, line) \in Nat /\ LineGross(n, D) \in Nat
  <2>1. inv.gross = LineTotal(n, D)
    BY <1>1 DEF Priced
  <2> HIDE DEF n, m, D, line
  <2>2. QED BY <1>2, <1>4, <2>1, LineTotalNat, LineGrossNat
<1> HIDE DEF n, m, D, line
<1>6. CASE D = 0
  <2>1. RoundingSlack(inv) = 0
    BY <1>6 DEF RoundingSlack, D
  <2>2. line = 0
    <3>1. D * m = 0
      BY <1>2, <1>6
    <3>2. QED BY <1>2, <1>3, <3>1, RoundDivZero
  <2>3. Rounded(m) <= Rounded(n) /\ Rounded(m) \in Nat /\ Rounded(n) \in Nat
    <3>1. m * Price <= n * Price /\ Grain \in Nat \ {0}
      BY <1>2, LedgerAssumption
    <3>2. m * Price \in Nat /\ n * Price \in Nat /\ Rounded(m) \in Nat /\ Rounded(n) \in Nat
      BY <1>2, RoundedNat
    <3>3. QED BY <3>1, <3>2, RoundDivMono DEF Rounded
  <2>4. LineGross(m, line) <= LineGross(n, D) + 0
    BY <1>6, <2>2, <2>3 DEF LineGross, Lesser
  <2>5. gross <= inv.gross + 0
    BY <1>5, <2>4, TaxRounding DEF LineTotal
  <2>6. gross - ProRated(inv, gross) <= inv.total + 0
    <3> HIDE DEF gross
    <3>1. QED BY <1>1, <1>5, <2>5, ProRatedRises
  <2>7. QED BY <1>2, <1>4, <1>5, <2>1, <2>6 DEF n, m, line
<1>7. CASE D > 0
  <2> DEFINE k == IF TaxInclusive THEN 1 ELSE 2
  <2>1. RoundingSlack(inv) = k /\ k \in Nat
    <3>1. inv.lineDiscount # 0 /\ inv.lineDiscount > 0
      BY <1>2, <1>7 DEF D
    <3>2. QED BY <3>1 DEF RoundingSlack
  <2>2. LineGross(m, line) <= LineGross(n, D) + 1
    BY <1>2, <1>3, LineRounding
  <2>3. gross <= inv.gross + k
    BY <1>5, <2>2, TaxRounding DEF LineTotal
  <2>4. gross - ProRated(inv, gross) <= inv.total + k
    <3> HIDE DEF gross, k
    <3>1. QED BY <1>1, <1>5, <2>1, <2>3, ProRatedRises
  <2>5. QED BY <1>2, <1>4, <1>5, <2>1, <2>4 DEF n, m, line
<1>8. QED BY <1>2, <1>6, <1>7


\* Replacing one row by a good one leaves all rows good.
LEMMA RowReplaced ==
  ASSUME RowsOK, NEW i \in Invoices, NEW row, RowOK(row),
         invoice' = [invoice EXCEPT ![i] = row]
  PROVE  RowsOK'
<1>1. row \in Invoice
  BY DEF RowOK
<1>2. invoice' \in [Invoices -> Invoice]
  BY <1>1 DEF RowsOK
<1>3. \A j \in Invoices : invoice'[j] = row \/ invoice'[j] = invoice[j]
  BY DEF RowsOK
<1>4. \A j \in Invoices : RowOK(invoice'[j])
  BY <1>3 DEF RowsOK
<1>5. QED BY <1>2, <1>4 DEF RowsOK

\* A set of naturals has a least element.
LEMMA NatWellFounded == IsWellFoundedOn({ss \in Nat \X Nat : ss[1] < ss[2]}, Nat)
  BY NatLessThanWellFounded DEF OpToRel

LEMMA LeastNat ==
  ASSUME NEW T, T \subseteq Nat, T # {}
  PROVE  \E x \in T : \A y \in T : x <= y
<1>1. PICK x \in T : \A y \in T : ~(<<y, x>> \in {ss \in Nat \X Nat : ss[1] < ss[2]})
  BY NatWellFounded, WFMin
<1>2. ASSUME NEW y \in T PROVE x <= y
  <2>1. x \in Nat /\ y \in Nat
    OBVIOUS
  <2>2. y < x => <<y, x>> \in {ss \in Nat \X Nat : ss[1] < ss[2]}
    BY <2>1
  <2>3. ~(<<y, x>> \in {ss \in Nat \X Nat : ss[1] < ss[2]})
    BY <1>1, Zenon
  <2>4. QED BY <2>1, <2>2, <2>3
<1>3. QED BY <1>2

\* The calendar year of a half year, and the half years of a calendar year.
LEMMA PeriodYear ==
  ASSUME NEW p \in Periods
  PROVE  CalendarYear(p) \in Years
  BY LedgerAssumption DEF Periods, Years, CalendarYear

LEMMA YearRange ==
  ASSUME NEW y \in Years
  PROVE  /\ CalendarRange(y)[1] \in Periods
         /\ CalendarRange(y)[2] \in Periods
  BY LedgerAssumption DEF Periods, Years, CalendarRange

\* The latest year covering the clock is one of the years that cover it.
LEMMA LatestCoveringYear ==
  ASSUME years \in [Years -> FiscalYear], Covering # {}
  PROVE  LatestCovering \in Covering
<1> DEFINE Back(y) == 2 * LastYear - years[y].from
           Down(y) == LastYear - y
           Latest  == {y \in Covering : \A z \in Covering : Back(y) <= Back(z)}
<1>1. \A y \in Covering : y \in Years /\ years[y].from \in Periods
  BY DEF Covering, FiscalYear
<1>2. \A y \in Covering : Back(y) \in Nat /\ Down(y) \in Nat
  BY <1>1, LedgerAssumption DEF Periods, Years
<1>3. Latest # {}
  <2>1. {Back(y) : y \in Covering} \subseteq Nat /\ {Back(y) : y \in Covering} # {}
    BY <1>2
  <2> HIDE DEF Back
  <2>2. PICK x \in {Back(y) : y \in Covering} : \A z \in {Back(y) : y \in Covering} : x <= z
    BY <2>1, LeastNat
  <2>3. QED BY <2>2
<1>4. PICK y \in Latest : \A z \in Latest : Down(y) <= Down(z)
  <2>1. {Down(y) : y \in Latest} \subseteq Nat /\ {Down(y) : y \in Latest} # {}
    BY <1>2, <1>3
  <2> HIDE DEF Down, Latest
  <2>2. PICK x \in {Down(y) : y \in Latest} : \A z \in {Down(y) : y \in Latest} : x <= z
    BY <2>1, LeastNat
  <2>3. QED BY <2>2
<1>5. \A z \in Covering : \/ years[z].from < years[y].from
                          \/ years[z].from = years[y].from /\ z <= y
  <2> SUFFICES ASSUME NEW z \in Covering, ~(years[z].from < years[y].from)
               PROVE  years[z].from = years[y].from /\ z <= y
    BY <1>1, <1>4 DEF Periods
  <2>1. /\ years[z].from \in Int /\ years[y].from \in Int /\ z \in Int /\ y \in Int
    BY <1>1, <1>4 DEF Periods, Years
  <2>2. years[z].from = years[y].from
    BY <2>1, <1>4, LedgerAssumption
  <2>3. z \in Latest
    BY <2>2, <1>4
  <2>4. QED BY <2>1, <2>2, <2>3, <1>4, LedgerAssumption
<1>6. QED BY <1>4, <1>5 DEF LatestCovering

\* Provisioning and posting stay within the fiscal years.
LEMMA ProvisionedYears ==
  ASSUME years \in [Years -> FiscalYear], NEW y \in Years
  PROVE  Provisioned(y) \in [Years -> FiscalYear]
<1> DEFINE row == [status |-> "OPEN", from |-> CalendarRange(y)[1],
                                      to   |-> CalendarRange(y)[2]]
<1>1. row \in FiscalYear
  BY YearRange DEF FiscalYear
<1> HIDE DEF row
<1>2. [years EXCEPT ![y] = row] \in [Years -> FiscalYear]
  BY <1>1
<1>3. QED BY <1>2 DEF Provisioned, row

LEMMA PostingTypes ==
  ASSUME FiscalOK
  PROVE  /\ PostingYear \in Years
         /\ PostingYears \in [Years -> FiscalYear]
<1>1. CalendarYear(now) \in Years
  BY PeriodYear DEF FiscalOK
<1>2. PostingYear \in Years
  BY <1>1, LatestCoveringYear DEF FiscalOK, PostingYear, Covering
<1>3. QED BY <1>2, ProvisionedYears DEF FiscalOK, PostingYears

\* What every operation on an existing invoice does to the fiscal state.
LEMMA FiscalKept ==
  ASSUME LedgerInv, NEW i \in Invoices,
         years' = Provisioned(CalendarYear(invoice[i].created)),
         UNCHANGED numbers, now' = now
  PROVE  FiscalOK'
<1>1. invoice[i].created \in Periods
  BY DEF LedgerInv, RowsOK, Invoice
<1>2. years' \in [Years -> FiscalYear]
  BY <1>1, PeriodYear, ProvisionedYears DEF LedgerInv, FiscalOK
<1>3. QED BY <1>2 DEF LedgerInv, FiscalOK, numbers
-----------------------------------------------------------------------------
LEMMA InitLedger == Init => LedgerInv
<1> SUFFICES ASSUME Init PROVE LedgerInv
  OBVIOUS
<1>1. RowOK(NoInvoice)
  BY LedgerAssumption, NoLine
  DEF RowOK, Invoice, NoInvoice, Years, Periods, Statuses, Priced, Settled, Covered, Numbered
<1>2. RowsOK
  BY <1>1 DEF Init, RowsOK, RowOK
<1>3. AccountOK
  BY LedgerAssumption DEF Init, AccountOK, Tolerance
<1>4. FiscalOK
  BY LedgerAssumption DEF Init, FiscalOK, Years, Periods, FiscalYear
<1>5. QED BY <1>2, <1>3, <1>4 DEF LedgerInv

\* One lemma per action: it keeps LedgerInv.
LEMMA SaleLedger ==
  ASSUME LedgerInv, NEW i \in Invoices, NEW q \in Quantities,
         NEW ld \in LineDiscounts, NEW customer \in BOOLEAN, NEW d \in Discounts,
         NEW t \in Tenders, Sale(i, q, ld, customer, d, t)
  PROVE  LedgerInv'
<1> DEFINE line      == Lesser(ld, Rounded(q))
           gross     == LineTotal(q, line)
           discount  == Lesser(d, gross)
           total     == gross - discount
           tendered  == t.cash + t.card + t.wallet
           paid      == Lesser(tendered, total)
           remaining == total - paid
           status    == Settlement(paid, total)
           pts       == IF customer /\ status = "PAID" THEN total \div PointEvery ELSE 0
           row       == [ status |-> status, customer |-> customer,
                          created |-> now, year |-> PostingYear,
                          number |-> NextNumber(PostingYear),
                          qty |-> q, returnedQty |-> 0, lineDiscount |-> line,
                          gross |-> gross, discount |-> discount,
                          total |-> total, paid |-> paid, remaining |-> remaining,
                          cash |-> t.cash, card |-> t.card,
                          walletPaid |-> t.wallet, refund |-> 0,
                          debited |-> t.wallet, credited |-> 0, earned |-> pts,
                          returned |-> FALSE ]
<1>1. q \in Nat /\ line \in Nat /\ gross \in Nat
  <2>1. q \in Nat /\ ld \in Nat
    BY LedgerAssumption
  <2>2. line \in Nat
    BY <2>1, RoundedNat, LesserNat
  <2> HIDE DEF line
  <2>3. QED BY <2>1, <2>2, LineTotalNat
<1>2. discount \in Nat /\ discount <= gross
  <2>1. d \in Nat
    BY LedgerAssumption
  <2> HIDE DEF gross
  <2>2. QED BY <1>1, <2>1, LesserNat
<1>3. t.cash \in Nat /\ t.card \in Nat /\ t.wallet \in Nat /\ tendered \in Nat
  <2>1. t.cash \in Amounts /\ t.card \in Amounts /\ t.wallet \in Amounts
    BY DEF Tenders
  <2>2. t.cash \in Nat /\ t.card \in Nat /\ t.wallet \in Nat
    BY <2>1, LedgerAssumption
  <2>3. QED BY <2>2
<1>4. total \in Nat /\ total = gross - discount
  <2> HIDE DEF gross, discount
  <2>1. QED BY <1>1, <1>2
<1>5. paid \in Nat /\ paid <= tendered /\ paid <= total
  <2> HIDE DEF total, tendered
  <2>1. QED BY <1>3, <1>4, LesserNat
<1>6. remaining \in Nat /\ paid + remaining = total
  <2> HIDE DEF total, paid
  <2>1. QED BY <1>4, <1>5
<1>7. pts \in Nat
  <2> HIDE DEF total, status
  <2>1. QED BY <1>4, DivNat, LedgerAssumption
<1>8. /\ now \in Periods /\ PostingYear \in Years
      /\ NextNumber(PostingYear) \in Nat \ {0}
  <2>1. now \in Periods /\ PostingYear \in Years /\ seq[PostingYear] \in Nat
    BY PostingTypes DEF LedgerInv, FiscalOK
  <2>2. QED BY <2>1 DEF NextNumber
<1>9. /\ status \in {"PAID", "UNPAID", "PARTIAL"}
      /\ status = "PAID" => remaining <= Tolerance
      /\ status = "UNPAID" => paid <= Tolerance /\ remaining > Tolerance
      /\ status = "PARTIAL" => paid > Tolerance /\ remaining > Tolerance
  <2> HIDE DEF total, paid
  <2>1. QED BY <1>4, <1>5 DEF Settlement, Tolerance
<1>10. RowOK(row)
  <2> HIDE DEF line, gross, discount, total, paid, remaining, status, pts
  <2>1. row \in Invoice
    BY <1>1, <1>2, <1>3, <1>4, <1>5, <1>6, <1>7, <1>8, <1>9 DEF Invoice, Statuses
  <2>2. Priced(row)
    BY <1>2, <1>4 DEF Priced, gross
  <2>3. Settled(row)
    BY <1>6, <1>9, <1>5 DEF Settled, Tolerance
  <2>4. Covered(row)
    BY <1>3, <1>5 DEF Covered
  <2>5. Numbered(row)
    BY <1>8, <1>9 DEF Numbered
  <2>6. QED BY <2>1, <2>2, <2>3, <2>4, <2>5 DEF RowOK
<1>11. invoice' = [invoice EXCEPT ![i] = row]
  BY DEF Sale
<1>12. RowsOK'
  <2> HIDE DEF row
  <2>1. QED BY <1>10, <1>11, RowReplaced DEF LedgerInv
<1>13. AccountOK'
  <2>1. /\ stock' = stock - q
        /\ credit' = IF OnAccount(customer, remaining) THEN credit + remaining ELSE credit
        /\ wallet' = wallet - t.wallet
        /\ points' = points + pts
        /\ t.wallet > 0 => wallet >= t.wallet - Tolerance
    BY DEF Sale, WalletAllows
  <2> HIDE DEF remaining, pts
  <2>2. QED BY <1>1, <1>3, <1>6, <1>7, <2>1 DEF LedgerInv, AccountOK, Tolerance
<1>14. FiscalOK'
  <2>1. /\ seq' = [seq EXCEPT ![PostingYear] = @ + 1] /\ burnt' = burnt
        /\ years' = PostingYears /\ now' = now
    BY DEF Sale
  <2>2. QED BY <2>1, PostingTypes DEF LedgerInv, FiscalOK
<1>15. QED BY <1>12, <1>13, <1>14 DEF LedgerInv

LEMMA PayLedger ==
  ASSUME LedgerInv, NEW i \in Invoices, NEW method \in Methods, NEW a \in Amounts,
         Pay(i, method, a)
  PROVE  LedgerInv'
<1> DEFINE inv       == invoice[i]
           recorded  == IF method = "WALLET" THEN Lesser(a, inv.total - inv.paid) ELSE a
           debit     == IF method = "WALLET" THEN recorded ELSE 0
           paid      == Lesser(inv.paid + recorded, inv.total)
           remaining == inv.total - paid
           status    == IF remaining <= Tolerance THEN "PAID" ELSE "PARTIAL"
           cash      == IF method = "CASH" THEN inv.cash + recorded ELSE inv.cash
           card      == IF method = "CARD" THEN inv.card + recorded ELSE inv.card
           walletPaid == inv.walletPaid + debit
           debited   == inv.debited + debit
           row       == [inv EXCEPT !.status = status, !.paid = paid,
                           !.remaining = remaining, !.cash = cash, !.card = card,
                           !.walletPaid = walletPaid, !.debited = debited]
<1>1. RowOK(inv) /\ inv \in Invoice
  BY DEF LedgerInv, RowsOK, RowOK
<1>2. /\ inv.total \in Nat /\ inv.paid \in Nat /\ inv.remaining \in Nat
      /\ inv.total - inv.paid \in Nat
  BY <1>1 DEF RowOK, Invoice, Settled
<1>3. a > 0 /\ a \in Nat /\ inv.status \in {"UNPAID", "PARTIAL"}
  <2>1. a > 0 /\ Payable(inv)
    BY DEF Pay
  <2>2. inv.status \in Statuses
    BY <1>1 DEF Invoice
  <2>3. QED BY <2>1, <2>2, LedgerAssumption DEF Payable, Statuses
<1>4. recorded \in Nat /\ debit \in Nat
  <2> HIDE DEF inv
  <2>1. QED BY <1>2, <1>3, LesserNat
<1>5. /\ paid \in Nat /\ paid <= inv.paid + recorded /\ paid <= inv.total
      /\ remaining \in Nat
      /\ paid + remaining = inv.total
  <2>1. inv.paid + recorded \in Nat
    <3> HIDE DEF inv, recorded
    <3>1. QED BY <1>2, <1>4
  <2>2. paid \in Nat /\ paid <= inv.paid + recorded /\ paid <= inv.total
    BY <1>2, <2>1, LesserNat
  <2> HIDE DEF inv, paid
  <2>3. QED BY <1>2, <2>2
<1>6. paid > 0 \/ remaining <= Tolerance
  <2>1. CASE method = "WALLET"
    <3>1. inv.remaining > Tolerance /\ inv.total - inv.paid = inv.remaining
      BY <1>1, <1>2, <1>3 DEF RowOK, Settled
    <3>2. recorded > 0
      <4> HIDE DEF inv
      <4>1. QED BY <1>2, <1>3, <2>1, <3>1 DEF Lesser, Tolerance
    <3>3. QED
      <4> HIDE DEF inv, recorded
      <4>1. QED BY <1>2, <1>4, <3>2 DEF Lesser, Tolerance
  <2>2. CASE method # "WALLET"
    <3>1. recorded > 0
      BY <1>3, <2>2
    <3>2. QED
      <4> HIDE DEF inv, recorded
      <4>1. QED BY <1>2, <1>4, <3>1 DEF Lesser, Tolerance
  <2>3. QED BY <2>1, <2>2
<1>7. RowOK(row)
  <2>a. /\ status \in {"PAID", "PARTIAL"}
        /\ cash \in Nat /\ card \in Nat /\ walletPaid \in Nat /\ debited \in Nat
        /\ cash + card + walletPaid = inv.cash + inv.card + inv.walletPaid + recorded
    <3>1. /\ inv.cash \in Nat /\ inv.card \in Nat
          /\ inv.walletPaid \in Nat /\ inv.debited \in Nat
      BY <1>1 DEF Invoice
    <3> HIDE DEF inv, recorded, remaining
    <3>2. QED BY <1>4, <3>1 DEF Methods
  <2> HIDE DEF inv, recorded, debit, paid, remaining, cash, card, walletPaid, debited, status
  <2>1. row \in Invoice
    BY <1>1, <1>5, <2>a DEF Invoice, Statuses
  <2>2. /\ row.status = status /\ row.paid = paid /\ row.remaining = remaining
        /\ row.cash = cash /\ row.card = card /\ row.walletPaid = walletPaid
        /\ row.number = inv.number /\ row.qty = inv.qty /\ row.gross = inv.gross
        /\ row.lineDiscount = inv.lineDiscount
        /\ row.discount = inv.discount /\ row.total = inv.total
        /\ row.refund = inv.refund /\ row.credited = inv.credited
    BY <1>1 DEF Invoice
  <2> HIDE DEF row
  <2>3. Priced(row)
    BY <1>1, <2>2 DEF Priced, RowOK
  <2>4. Settled(row)
    BY <1>5, <1>6, <2>2 DEF Settled, Tolerance, status
  <2>5. Covered(row)
    <3>1. inv.paid + inv.refund + inv.credited <= inv.cash + inv.card + inv.walletPaid
      BY <1>1, <1>3 DEF RowOK, Covered
    <3>2. inv.cash \in Nat /\ inv.card \in Nat /\ inv.walletPaid \in Nat
          /\ inv.refund \in Nat /\ inv.credited \in Nat
      BY <1>1 DEF Invoice
    <3>3. QED BY <1>2, <1>4, <1>5, <2>a, <2>2, <3>1, <3>2 DEF Covered
  <2>6. Numbered(row)
    BY <1>1, <1>3, <2>a, <2>2 DEF RowOK, Numbered
  <2>7. QED BY <2>1, <2>3, <2>4, <2>5, <2>6 DEF RowOK
<1>8. invoice' = [invoice EXCEPT ![i] = row]
  BY DEF Pay
<1>9. RowsOK'
  <2> HIDE DEF row
  <2>1. QED BY <1>7, <1>8, RowReplaced DEF LedgerInv
<1>10. AccountOK'
  <2>1. /\ stock' = stock /\ points' = points
        /\ credit' = IF inv.customer
                       THEN AtLeast0(credit - Released(inv, remaining)) ELSE credit
        /\ wallet' = wallet - debit
        /\ debit > 0 => wallet >= debit - Tolerance
    BY DEF Pay, WalletAllows
  <2>2. credit' \in Nat
    <3> HIDE DEF inv, remaining
    <3>1. Released(inv, remaining) \in Nat
      BY <1>2, <1>5, AtLeast0Nat DEF Released
    <3>2. QED BY <2>1, <3>1, AtLeast0Nat DEF LedgerInv, AccountOK
  <2> HIDE DEF debit
  <2>3. QED BY <1>4, <2>1, <2>2 DEF LedgerInv, AccountOK, Tolerance
<1>11. FiscalOK'
  BY FiscalKept DEF Pay
<1>12. QED BY <1>9, <1>10, <1>11 DEF LedgerInv

LEMMA VoidLedger ==
  ASSUME LedgerInv, NEW i \in Invoices, Void(i)
  PROVE  LedgerInv'
<1> DEFINE inv      == invoice[i]
           credited == IF inv.customer THEN inv.credited + inv.walletPaid
                                       ELSE inv.credited
           row      == [inv EXCEPT !.status = "VOIDED", !.credited = credited]
<1>1. RowOK(inv) /\ inv \in Invoice
  BY DEF LedgerInv, RowsOK, RowOK
<1>2. inv.status # "NONE"
  BY DEF Void
<1>3. RowOK(row)
  <2>1. credited \in Nat
    BY <1>1 DEF Invoice
  <2> HIDE DEF inv, credited
  <2>2. row \in Invoice
    BY <1>1, <2>1 DEF Invoice, Statuses
  <2>3. /\ row.status = "VOIDED" /\ row.number = inv.number /\ row.qty = inv.qty
        /\ row.lineDiscount = inv.lineDiscount /\ row.gross = inv.gross /\ row.discount = inv.discount
        /\ row.total = inv.total /\ row.paid = inv.paid
        /\ row.remaining = inv.remaining
    BY <1>1 DEF Invoice
  <2> HIDE DEF row
  <2>4. QED
    BY <1>1, <1>2, <2>2, <2>3 DEF RowOK, Priced, Settled, Covered, Numbered
<1>4. RowsOK'
  <2>1. invoice' = [invoice EXCEPT ![i] = row]
    BY DEF Void
  <2> HIDE DEF row
  <2>2. QED BY <1>3, <2>1, RowReplaced DEF LedgerInv
<1>5. AccountOK'
  <2>1. /\ inv.qty \in Nat /\ inv.remaining \in Nat
        /\ inv.walletPaid \in Nat /\ inv.earned \in Nat
    BY <1>1 DEF Invoice
  <2>2. stock' \in Int
    BY <2>1 DEF Void, RestoredUnits, LedgerInv, AccountOK
  <2>3. CASE inv.customer
    <3>1. /\ points' = AtLeast0(points - inv.earned)
          /\ credit' = AtLeast0(credit - inv.remaining)
          /\ wallet' = wallet + inv.walletPaid
      BY <2>3 DEF Void, ReverseAccount, PointsAfterReversal
    <3> HIDE DEF inv
    <3>2. QED BY <2>1, <2>2, <3>1, AtLeast0Nat DEF LedgerInv, AccountOK, Tolerance
  <2>4. CASE ~inv.customer
    BY <2>2, <2>4 DEF Void, account, LedgerInv, AccountOK
  <2>5. QED BY <2>3, <2>4
<1>6. FiscalOK'
  BY FiscalKept DEF Void
<1>7. QED BY <1>4, <1>5, <1>6 DEF LedgerInv

LEMMA FullReturnLedger ==
  ASSUME LedgerInv, NEW i \in Invoices, FullReturn(i)
  PROVE  LedgerInv'
<1> DEFINE inv      == invoice[i]
           reversed == inv.customer /\ inv.status \in {"PAID", "PARTIAL"}
           credited == IF reversed THEN inv.credited + inv.walletPaid
                                   ELSE inv.credited
           row      == [inv EXCEPT !.status = "RETURNED", !.returned = TRUE,
                                   !.credited = credited]
<1>1. RowOK(inv) /\ inv \in Invoice
  BY DEF LedgerInv, RowsOK, RowOK
<1>2. inv.status # "NONE"
  BY DEF FullReturn
<1>3. RowOK(row)
  <2>1. credited \in Nat
    BY <1>1 DEF Invoice
  <2> HIDE DEF inv, credited
  <2>2. row \in Invoice
    BY <1>1, <2>1 DEF Invoice, Statuses
  <2>3. /\ row.status = "RETURNED" /\ row.number = inv.number /\ row.qty = inv.qty
        /\ row.lineDiscount = inv.lineDiscount /\ row.gross = inv.gross /\ row.discount = inv.discount
        /\ row.total = inv.total /\ row.paid = inv.paid
        /\ row.remaining = inv.remaining
    BY <1>1 DEF Invoice
  <2> HIDE DEF row
  <2>4. QED
    BY <1>1, <1>2, <2>2, <2>3 DEF RowOK, Priced, Settled, Covered, Numbered
<1>4. RowsOK'
  <2>1. invoice' = [invoice EXCEPT ![i] = row]
    BY DEF FullReturn
  <2> HIDE DEF row
  <2>2. QED BY <1>3, <2>1, RowReplaced DEF LedgerInv
<1>5. AccountOK'
  <2>1. /\ inv.qty \in Nat /\ inv.remaining \in Nat
        /\ inv.walletPaid \in Nat /\ inv.earned \in Nat
    BY <1>1 DEF Invoice
  <2>2. stock' \in Int
    BY <2>1 DEF FullReturn, RestoredUnits, LedgerInv, AccountOK
  <2>3. CASE reversed
    <3>1. /\ points' = AtLeast0(points - inv.earned)
          /\ credit' = AtLeast0(credit - inv.remaining)
          /\ wallet' = wallet + inv.walletPaid
      BY <2>3 DEF FullReturn, ReverseAccount, PointsAfterReversal
    <3> HIDE DEF inv
    <3>2. QED BY <2>1, <2>2, <3>1, AtLeast0Nat DEF LedgerInv, AccountOK, Tolerance
  <2>4. CASE ~reversed
    BY <2>2, <2>4 DEF FullReturn, account, LedgerInv, AccountOK
  <2>5. QED BY <2>3, <2>4
<1>6. FiscalOK'
  BY FiscalKept DEF FullReturn
<1>7. QED BY <1>4, <1>5, <1>6 DEF LedgerInv

LEMMA PartialReturnLedger ==
  ASSUME LedgerInv, NEW i \in Invoices, NEW q \in 1..invoice[i].qty,
         NEW creditToWallet \in BOOLEAN, PartialReturn(i, q, creditToWallet)
  PROVE  LedgerInv'
<1> DEFINE inv       == invoice[i]
           line      == LineDiscountKept(inv, inv.qty - q)
           gross     == LineTotal(inv.qty - q, line)
           discount  == ProRated(inv, gross)
           total     == gross - discount
           paid      == Lesser(inv.paid, total)
           remaining == total - paid
           overpaid  == inv.paid - paid
           toWallet  == IF inv.customer THEN Lesser(inv.walletPaid, overpaid) ELSE 0
           rest      == overpaid - toWallet
           credited  == toWallet + (IF creditToWallet /\ inv.customer THEN rest ELSE 0)
           lost      == IF inv.customer
                          THEN AtLeast0(inv.earned - total \div PointEvery) ELSE 0
           status    == IF remaining <= Tolerance THEN "PAID" ELSE "PARTIAL"
           qty       == inv.qty - q
           returnedQty == inv.returnedQty + q
           refund    == inv.refund + RefundRow(overpaid, credited)
           creditedSum == inv.credited + credited
           earned    == inv.earned - lost
           row       == [inv EXCEPT !.status = status, !.qty = qty,
                           !.returnedQty = returnedQty, !.lineDiscount = line,
                           !.gross = gross, !.discount = discount, !.total = total, !.paid = paid,
                           !.remaining = remaining, !.refund = refund,
                           !.credited = creditedSum, !.earned = earned]
<1>1. RowOK(inv) /\ inv \in Invoice
  BY DEF LedgerInv, RowsOK, RowOK
<1>2. /\ inv.qty \in Nat /\ inv.returnedQty \in Nat /\ inv.paid \in Nat
      /\ inv.remaining \in Nat /\ inv.total \in Nat /\ inv.walletPaid \in Nat
      /\ inv.cash \in Nat /\ inv.card \in Nat
      /\ inv.refund \in Nat /\ inv.credited \in Nat /\ inv.earned \in Nat
  BY <1>1 DEF Invoice
<1>3. inv.status \in {"PAID", "PARTIAL"}
  <2>1. inv.status \in Statuses
    BY <1>1 DEF Invoice
  <2>2. QED BY <2>1 DEF PartialReturn, Statuses
<1>4. q \in Nat /\ qty \in Nat /\ returnedQty \in Nat /\ returnedQty > 0
  <2>1. q \in 1..inv.qty
    OBVIOUS
  <2> HIDE DEF inv
  <2>2. QED BY <1>2, <2>1
<1>5. line \in Nat /\ gross \in Nat
  <2>1. q \in 1..inv.qty
    OBVIOUS
  <2> HIDE DEF inv
  <2>2. QED BY <1>1, <2>1, ReturnedTotal
<1>6. discount \in Nat /\ discount <= gross
  <2> HIDE DEF inv, gross
  <2>1. QED BY <1>1, <1>5, ProRatedNat
<1>7. total \in Nat
  <2> HIDE DEF inv, gross, discount
  <2>1. QED BY <1>5, <1>6
<1>8. paid \in Nat /\ paid <= inv.paid /\ paid <= total
  <2> HIDE DEF inv, total
  <2>1. QED BY <1>2, <1>7, LesserNat
<1>9. remaining \in Nat /\ paid + remaining = total /\ overpaid \in Nat
  <2> HIDE DEF inv, total, paid
  <2>1. QED BY <1>2, <1>7, <1>8
<1>10. toWallet \in Nat /\ toWallet <= overpaid
  <2> HIDE DEF inv, overpaid
  <2>1. QED BY <1>2, <1>9 DEF Lesser
<1>11. credited \in Nat /\ credited <= overpaid
  <2> HIDE DEF inv, overpaid, toWallet
  <2>1. QED BY <1>9, <1>10
<1>12. lost \in Nat /\ lost <= inv.earned
  <2> HIDE DEF inv, total
  <2>1. total \div PointEvery \in Nat
    BY <1>7, DivNat, LedgerAssumption
  <2>2. QED BY <1>2, <2>1 DEF AtLeast0
<1>14. RowOK(row)
  <2>1. /\ status \in {"PAID", "PARTIAL"}
        /\ refund \in Nat /\ creditedSum \in Nat /\ earned \in Nat
        /\ refund + creditedSum = inv.refund + inv.credited + overpaid
    <3> HIDE DEF inv, remaining, overpaid, credited, lost
    <3>1. QED BY <1>2, <1>9, <1>11, <1>12 DEF RefundRow
  <2> HIDE DEF inv, line, gross, discount, total, paid, remaining, status, qty,
               returnedQty, refund, creditedSum, earned
  <2>2. row \in Invoice
    BY <1>1, <1>4, <1>5, <1>6, <1>7, <1>8, <1>9, <2>1 DEF Invoice, Statuses
  <2>3. /\ row.status = status /\ row.number = inv.number /\ row.qty = qty
        /\ row.returnedQty = returnedQty /\ row.lineDiscount = line
        /\ row.gross = gross /\ row.discount = discount /\ row.total = total
        /\ row.paid = paid /\ row.remaining = remaining /\ row.refund = refund
        /\ row.credited = creditedSum /\ row.cash = inv.cash
        /\ row.card = inv.card /\ row.walletPaid = inv.walletPaid
    BY <1>1 DEF Invoice
  <2> HIDE DEF row
  <2>4. Priced(row)
    BY <1>6, <2>3 DEF Priced, gross, qty, total
  <2>5. Settled(row)
    BY <1>4, <1>8, <1>9, <2>3 DEF Settled, status, Tolerance
  <2>6. Covered(row)
    <3>1. inv.paid + inv.refund + inv.credited <= inv.cash + inv.card + inv.walletPaid
      BY <1>1, <1>3 DEF RowOK, Covered
    <3>2. paid + overpaid = inv.paid
      BY <1>2, <1>8 DEF overpaid
    <3> HIDE DEF overpaid
    <3>3. QED BY <1>2, <1>8, <1>9, <2>1, <2>3, <3>1, <3>2 DEF Covered
  <2>7. Numbered(row)
    BY <1>1, <1>3, <2>1, <2>3 DEF RowOK, Numbered
  <2>8. QED BY <2>2, <2>4, <2>5, <2>6, <2>7 DEF RowOK
<1>15. RowsOK'
  <2>1. invoice' = [invoice EXCEPT ![i] = row]
    BY DEF PartialReturn
  <2> HIDE DEF row
  <2>2. QED BY <1>14, <2>1, RowReplaced DEF LedgerInv
<1>16. AccountOK'
  <2>1. /\ stock' = stock + q
        /\ wallet' = wallet + credited
        /\ credit' = IF inv.customer THEN AtLeast0(credit + remaining - inv.remaining)
                                     ELSE credit
        /\ points' = AtLeast0(points - lost)
    BY DEF PartialReturn
  <2> HIDE DEF inv, remaining, credited, lost
  <2>2. QED BY <1>2, <1>4, <1>9, <1>11, <1>12, <2>1, AtLeast0Nat
            DEF LedgerInv, AccountOK, Tolerance
<1>17. FiscalOK'
  BY FiscalKept DEF PartialReturn
<1>18. QED BY <1>15, <1>16, <1>17 DEF LedgerInv

LEMMA AccountStepLedger == ASSUME LedgerInv, AccountStep PROVE LedgerInv'
<1>1. RowsOK'
  BY DEF AccountStep, WalletCredit, WalletDebit, CreditPay, Redeem, LedgerInv, RowsOK
<1>2. FiscalOK'
  BY DEF AccountStep, WalletCredit, WalletDebit, CreditPay, Redeem, LedgerInv,
         FiscalOK, numbers, fiscal
<1>3. ASSUME NEW a \in Amounts, WalletCredit(a) \/ WalletDebit(a) \/ CreditPay(a)
      PROVE  AccountOK'
  <2>1. a \in Nat
    BY LedgerAssumption
  <2>2. QED BY <1>3, <2>1 DEF WalletCredit, WalletDebit, CreditPay, Lesser, LedgerInv,
                              AccountOK, Tolerance
<1>4. ASSUME NEW p \in 1..points, Redeem(p)
      PROVE  AccountOK'
  <2>1. p \in Nat /\ points - p \in Nat /\ p * PointValue \in Nat
    BY LedgerAssumption DEF LedgerInv, AccountOK
  <2>2. stock' = stock /\ credit' = credit /\ points' = points - p
        /\ wallet' = wallet + p * PointValue
    BY <1>4 DEF Redeem
  <2>3. QED BY <2>1, <2>2 DEF LedgerInv, AccountOK, Tolerance
<1>5. QED BY <1>1, <1>2, <1>3, <1>4 DEF AccountStep, LedgerInv

LEMMA FiscalStepLedger == ASSUME LedgerInv, FiscalStep PROVE LedgerInv'
<1>1. RowsOK' /\ AccountOK'
  BY DEF FiscalStep, OpenYear, CloseYear, ReopenYear, RefusedSale, NewPeriod, account,
         LedgerInv, RowsOK, AccountOK
<1>2. ASSUME NEW y \in Years, NEW r \in {CalendarRange(y)} \cup CustomYears, OpenYear(y, r)
      PROVE  FiscalOK'
  <2>1. r[1] \in Periods /\ r[2] \in Periods
    BY YearRange, LedgerAssumption DEF Periods
  <2> DEFINE row == [status |-> "OPEN", from |-> r[1], to |-> r[2]]
  <2>2. row \in FiscalYear
    BY <2>1 DEF FiscalYear
  <2>3. years' = [years EXCEPT ![y] = row] /\ UNCHANGED numbers /\ now' = now
    BY <1>2 DEF OpenYear
  <2> HIDE DEF row
  <2>4. QED BY <2>2, <2>3 DEF LedgerInv, FiscalOK, numbers
<1>3. ASSUME NEW y \in Years, CloseYear(y) \/ ReopenYear(y)
      PROVE  FiscalOK'
  <2>1. PICK s \in {"OPEN", "CLOSED"} : years' = [years EXCEPT ![y].status = s]
    BY <1>3 DEF CloseYear, ReopenYear
  <2>2. [years[y] EXCEPT !.status = s] \in FiscalYear
    BY DEF LedgerInv, FiscalOK, FiscalYear
  <2>3. years' \in [Years -> FiscalYear]
    BY <2>1, <2>2 DEF LedgerInv, FiscalOK
  <2>4. QED BY <1>3, <2>3 DEF CloseYear, ReopenYear, LedgerInv, FiscalOK, numbers
<1>4. ASSUME RefusedSale PROVE FiscalOK'
  BY <1>4, PostingTypes DEF RefusedSale, LedgerInv, FiscalOK, numbers
<1>5. ASSUME NewPeriod PROVE FiscalOK'
  <2>1. now' \in Periods
    BY <1>5, LedgerAssumption DEF NewPeriod, LedgerInv, FiscalOK, Periods
  <2>2. UNCHANGED numbers /\ years' = years
    BY <1>5 DEF NewPeriod
  <2>3. QED BY <2>1, <2>2 DEF LedgerInv, FiscalOK, numbers
<1>6. QED BY <1>1, <1>2, <1>3, <1>4, <1>5 DEF LedgerInv, FiscalStep

LEMMA DuplicateLedger == ASSUME LedgerInv, DuplicateStep PROVE LedgerInv'
<1>1. PICK i \in Invoices : DuplicateSale(i)
  BY DEF DuplicateStep
<1>2. RowsOK' /\ AccountOK'
  BY <1>1 DEF DuplicateSale, account, LedgerInv, RowsOK, AccountOK
<1>3. invoice[i].year \in Years /\ seq[invoice[i].year] \in Nat
  BY DEF LedgerInv, RowsOK, FiscalOK, Invoice
<1>4. NextNumber(invoice[i].year) \in Nat
  BY <1>3 DEF NextNumber
<1>5. /\ seq' = [seq EXCEPT ![invoice[i].year] = @ + 1]
      /\ burnt' = [burnt EXCEPT ![i] = @ \cup {NextNumber(invoice[i].year)}]
      /\ years' = years /\ now' = now
  BY <1>1 DEF DuplicateSale, fiscal
<1>6. seq' \in [Years -> Nat] /\ burnt' \in [Invoices -> SUBSET Nat]
  BY <1>3, <1>4, <1>5 DEF LedgerInv, FiscalOK
<1>7. QED BY <1>2, <1>5, <1>6 DEF LedgerInv, FiscalOK

LEMMA NextLedger == LedgerInv /\ [Next]_vars => LedgerInv'
<1> SUFFICES ASSUME LedgerInv, [Next]_vars PROVE LedgerInv'
  OBVIOUS
<1>1. ASSUME NEW i \in Invoices, InvoiceStep(i) PROVE LedgerInv'
  <2>1. ASSUME NEW q \in Quantities, NEW ld \in LineDiscounts,
               NEW customer \in BOOLEAN, NEW d \in Discounts, NEW t \in Tenders,
               Sale(i, q, ld, customer, d, t)
        PROVE  LedgerInv'
    BY <2>1, SaleLedger
  <2>2. ASSUME NEW method \in Methods, NEW a \in Amounts, Pay(i, method, a)
        PROVE  LedgerInv'
    BY <2>2, PayLedger
  <2>3. ASSUME Void(i) PROVE LedgerInv'
    BY <2>3, VoidLedger
  <2>4. ASSUME FullReturn(i) PROVE LedgerInv'
    BY <2>4, FullReturnLedger
  <2>5. ASSUME NEW q \in 1..invoice[i].qty, NEW c \in CreditReturns, PartialReturn(i, q, c)
        PROVE  LedgerInv'
    <3>1. c \in BOOLEAN
      BY LedgerAssumption
    <3>2. QED BY <2>5, <3>1, PartialReturnLedger
  <2>6. QED BY <1>1, <2>1, <2>2, <2>3, <2>4, <2>5
       DEF InvoiceStep, SaleStep, LaterStep
<1>2. ASSUME AccountStep PROVE LedgerInv'
  BY <1>2, AccountStepLedger
<1>3. ASSUME FiscalStep PROVE LedgerInv'
  BY <1>3, FiscalStepLedger
<1>4. ASSUME UNCHANGED vars PROVE LedgerInv'
  BY <1>4 DEF vars, account, numbers, fiscal, LedgerInv, RowsOK, AccountOK, FiscalOK
<1>5. QED BY <1>1, <1>2, <1>3, <1>4, DuplicateLedger DEF Next

\* Every reachable state satisfies the row, account and fiscal invariant.
THEOREM LedgerInvariant == Spec => []LedgerInv
<1>1. QED BY InitLedger, NextLedger, PTL DEF Spec

\* Amounts, points and sequence numbers never go negative, and the wallet at
\* most by the tolerance deductWallet and the wallet route allow.
THEOREM TypeCorrect == Spec => []TypeOK
<1>1. LedgerInv => TypeOK
  BY DEF LedgerInv, RowsOK, AccountOK, FiscalOK, TypeOK
<1>2. QED BY <1>1, LedgerInvariant, PTL

\* Paid, remaining and status agree on every invoice, whatever sequence of
\* payments and partial returns led there.
THEOREM SettlementCorrect == Spec => []SettlementAgrees
<1>1. LedgerInv => SettlementAgrees
  BY DEF LedgerInv, RowsOK, RowOK, Settled, SettlementAgrees
<1>2. QED BY <1>1, LedgerInvariant, PTL

\* A live invoice never gave back more than was tendered for it.
THEOREM RefundsAreCovered == Spec => []RefundsCovered
<1>1. LedgerInv => RefundsCovered
  <2> SUFFICES ASSUME LedgerInv, NEW i \in Live
               PROVE  invoice[i].paid + ReturnedTo(invoice[i]) <= TenderedFor(invoice[i])
    BY DEF RefundsCovered
  <2>1. i \in Invoices /\ invoice[i].status \in {"UNPAID", "PARTIAL", "PAID"}
    BY DEF Live
  <2>2. RowOK(invoice[i])
    BY <2>1 DEF LedgerInv, RowsOK
  <2>3. invoice[i].paid + invoice[i].refund + invoice[i].credited
          <= invoice[i].cash + invoice[i].card + invoice[i].walletPaid
    BY <2>1, <2>2 DEF RowOK, Covered
  <2>4. invoice[i].paid \in Nat /\ invoice[i].refund \in Nat /\ invoice[i].credited \in Nat
    BY <2>2 DEF RowOK, Invoice
  <2>5. QED BY <2>3, <2>4 DEF ReturnedTo, TenderedFor
<1>2. QED BY <1>1, LedgerInvariant, PTL
-----------------------------------------------------------------------------

\* An invoice step creates its invoice or is one of the later operations.
Created(i) ==
  \E q \in Quantities, ld \in LineDiscounts, customer \in BOOLEAN,
     d \in Discounts, t \in Tenders :
    Sale(i, q, ld, customer, d, t)
Settling(i)   == \E method \in Methods, a \in Amounts : Pay(i, method, a)
Returning(i)  == \E q \in 1..invoice[i].qty, c \in CreditReturns : PartialReturn(i, q, c)
Continued(i)  == Settling(i) \/ Void(i) \/ FullReturn(i) \/ Returning(i)

\* Any other step leaves the invoices alone, and but for a duplicate's it
\* takes no number.
Quiet == DuplicateStep \/ AccountStep \/ FiscalStep \/ UNCHANGED vars

LEMMA StepKinds ==
  ASSUME [Next]_vars
  PROVE  (\E i \in Invoices : Created(i) \/ Continued(i)) \/ Quiet
  BY DEF Quiet, Next, InvoiceStep, SaleStep, LaterStep, Created, Settling, Returning, Continued

LEMMA QuietSteps ==
  ASSUME Quiet
  PROVE  invoice' = invoice /\ (DuplicateStep \/ UNCHANGED numbers)
  BY DEF Quiet, DuplicateStep, DuplicateSale, AccountStep, WalletCredit, WalletDebit,
         CreditPay, Redeem, FiscalStep, OpenYear, CloseYear, ReopenYear, RefusedSale,
         NewPeriod, vars, numbers

\* A step about one invoice leaves the others alone.
LEMMA OtherRows ==
  ASSUME LedgerInv, NEW i \in Invoices, NEW j \in Invoices, i # j,
         Created(i) \/ Continued(i)
  PROVE  invoice'[j] = invoice[j]
<1>1. invoice \in [Invoices -> Invoice]
  BY DEF LedgerInv, RowsOK
<1>2. CASE Created(i)
  BY <1>1, <1>2 DEF Created, Sale
<1>3. CASE Settling(i)
  BY <1>1, <1>3 DEF Settling, Pay
<1>4. CASE Void(i)
  BY <1>1, <1>4 DEF Void
<1>5. CASE FullReturn(i)
  BY <1>1, <1>5 DEF FullReturn
<1>6. CASE Returning(i)
  BY <1>1, <1>6 DEF Returning, PartialReturn
<1>7. QED BY <1>2, <1>3, <1>4, <1>5, <1>6 DEF Continued

\* A sale takes the next number of the year it is posted to, an open one.
LEMMA CreatedRow ==
  ASSUME LedgerInv, NEW i \in Invoices, Created(i)
  PROVE  /\ invoice[i].status = "NONE"
         /\ PeriodOpen
         /\ invoice'[i].number = seq[PostingYear] + 1
         /\ invoice'[i].year = PostingYear
         /\ invoice'[i].created = now
         /\ invoice'[i].returnedQty = 0
         /\ seq' = [seq EXCEPT ![PostingYear] = @ + 1] /\ burnt' = burnt
         /\ years' = PostingYears
  BY DEF Created, Sale, NextNumber, LedgerInv, RowsOK

\* Whatever happens to it later, an invoice keeps its number, its year and its
\* day, and the fiscal year named after that day was not closed.
LEMMA ContinuedRow ==
  ASSUME LedgerInv, NEW i \in Invoices, Continued(i)
  PROVE  /\ invoice[i].status \notin {"NONE", "VOIDED"}
         /\ YearOpen(invoice[i])
         /\ invoice'[i].number = invoice[i].number
         /\ invoice'[i].year = invoice[i].year
         /\ invoice'[i].created = invoice[i].created
         /\ UNCHANGED numbers
         /\ years' = Provisioned(CalendarYear(invoice[i].created))
<1>1. invoice[i] \in Invoice /\ invoice \in [Invoices -> Invoice]
  BY DEF LedgerInv, RowsOK
<1>2. CASE Settling(i)
  BY <1>1, <1>2 DEF Settling, Pay, Payable, Invoice
<1>3. CASE Void(i)
  BY <1>1, <1>3 DEF Void, Invoice
<1>4. CASE FullReturn(i)
  BY <1>1, <1>4 DEF FullReturn, Invoice
<1>5. CASE Returning(i)
  BY <1>1, <1>5 DEF Returning, PartialReturn, Invoice
<1>6. QED BY <1>2, <1>3, <1>4, <1>5 DEF Continued

\* A returned invoice can only be voided.
LEMMA ReturnedRow ==
  ASSUME LedgerInv, NEW i \in Invoices, Continued(i), invoice[i].status = "RETURNED"
  PROVE  /\ invoice'[i].status = "VOIDED"
         /\ invoice'[i].paid = invoice[i].paid
         /\ invoice'[i].total = invoice[i].total
<1>1. invoice[i] \in Invoice /\ invoice \in [Invoices -> Invoice]
  BY DEF LedgerInv, RowsOK
<1>2. Void(i)
  BY DEF Continued, Settling, Returning, Pay, Payable, FullReturn, PartialReturn
<1>3. QED BY <1>1, <1>2 DEF Void, Invoice
-----------------------------------------------------------------------------
\* Once reversed, an invoice stays reversed.
THEOREM ReversalStays == Spec => ReversalIsFinal
<1>1. ASSUME LedgerInv, [Next]_vars, NEW i \in Invoices
      PROVE  /\ invoice[i].status = "VOIDED" => invoice'[i] = invoice[i]
             /\ invoice[i].status = "RETURNED" =>
                  /\ invoice'[i].status \in {"RETURNED", "VOIDED"}
                  /\ invoice'[i].paid = invoice[i].paid
                  /\ invoice'[i].total = invoice[i].total
  <2>1. CASE Quiet
    BY <2>1, QuietSteps
  <2>2. ASSUME NEW j \in Invoices, Created(j) \/ Continued(j), j # i
        PROVE  invoice'[i] = invoice[i]
    BY <1>1, <2>2, OtherRows
  <2>3. CASE Created(i)
    BY <1>1, <2>3, CreatedRow
  <2>4. CASE Continued(i)
    BY <1>1, <2>4, ContinuedRow, ReturnedRow
  <2>5. QED BY <1>1, <2>1, <2>2, <2>3, <2>4, StepKinds
<1>2. LedgerInv /\ [Next]_vars =>
        [\A i \in Invoices :
           /\ invoice[i].status = "VOIDED" => invoice'[i] = invoice[i]
           /\ invoice[i].status = "RETURNED" =>
                /\ invoice'[i].status \in {"RETURNED", "VOIDED"}
                /\ invoice'[i].paid = invoice[i].paid
                /\ invoice'[i].total = invoice[i].total]_vars
  BY <1>1
<1>3. QED BY <1>2, LedgerInvariant, PTL DEF Spec, ReversalIsFinal

-----------------------------------------------------------------------------
\* What ClosedYearImmutable rests on while fiscal years are calendar years: the
\* code in an invoice's number and the calendar year the later operations look
\* at are the same.
PostedByCalendar ==
  \A i \in Invoices : invoice[i].status # "NONE" =>
    invoice[i].year = CalendarYear(invoice[i].created)

CalendarInv == CalendarYears /\ PostedByCalendar

\* A sale is then posted to the calendar year of the clock, which is not closed.
LEMMA CalendarPosting ==
  ASSUME LedgerInv, CalendarInv, PeriodOpen
  PROVE  PostingYear = CalendarYear(now) /\ years[CalendarYear(now)].status # "CLOSED"
<1>1. now \in Periods /\ CalendarYear(now) \in Years /\ years \in [Years -> FiscalYear]
  BY PeriodYear DEF LedgerInv, FiscalOK
<1>2. \A y \in Covering : y = CalendarYear(now)
  BY <1>1 DEF Covering, CalendarInv, CalendarYears, CalendarRange, CalendarYear, Periods, Years
<1>3. CASE Covering = {}
  <2>1. CalendarRange(CalendarYear(now))[1] <= now /\ now <= CalendarRange(CalendarYear(now))[2]
    BY <1>1 DEF CalendarRange, CalendarYear, Periods
  <2>2. years[CalendarYear(now)].status = "ABSENT"
    BY <1>1, <1>3, <2>1 DEF Covering, CalendarInv, CalendarYears
  <2>3. QED BY <1>3, <2>2 DEF PostingYear
<1>4. CASE Covering # {}
  <2>1. PostingYear = CalendarYear(now)
    BY <1>1, <1>2, <1>4, LatestCoveringYear DEF PostingYear
  <2>2. QED BY <1>4, <2>1 DEF PeriodOpen
<1>5. QED BY <1>3, <1>4

\* A year's dates never change once it has them.
YearsKept ==
  \A y \in Years : years[y].status # "ABSENT" =>
    /\ years'[y].status # "ABSENT"
    /\ years'[y].from = years[y].from /\ years'[y].to = years[y].to

LEMMA ProvisionedKeeps ==
  ASSUME LedgerInv, NEW y \in Years, years' = Provisioned(y)
  PROVE  YearsKept
  BY DEF Provisioned, YearsKept, LedgerInv, FiscalOK, FiscalYear

LEMMA FiscalStepKeeps ==
  ASSUME LedgerInv, FiscalStep
  PROVE  YearsKept
<1>1. years \in [Years -> FiscalYear]
  BY DEF LedgerInv, FiscalOK
<1>2. ASSUME NEW y \in Years, NEW r, OpenYear(y, r) PROVE YearsKept
  BY <1>1, <1>2 DEF OpenYear, YearsKept
<1>3. ASSUME NEW y \in Years, CloseYear(y) \/ ReopenYear(y) PROVE YearsKept
  BY <1>1, <1>3 DEF CloseYear, ReopenYear, YearsKept, FiscalYear
<1>4. CASE RefusedSale
  <2>1. CalendarYear(now) \in Years /\ years' = Provisioned(CalendarYear(now))
    BY <1>4, PeriodYear DEF RefusedSale, PostingYears, PostingYear, LedgerInv, FiscalOK
  <2>2. QED BY <2>1, ProvisionedKeeps
<1>5. CASE NewPeriod
  BY <1>5 DEF NewPeriod, YearsKept
<1>6. QED BY <1>2, <1>3, <1>4, <1>5 DEF FiscalStep

LEMMA YearsKeepDates ==
  ASSUME LedgerInv, [Next]_vars
  PROVE  YearsKept
<1>1. CASE DuplicateStep \/ AccountStep \/ UNCHANGED vars
  BY <1>1 DEF DuplicateStep, DuplicateSale, AccountStep, WalletCredit, WalletDebit, CreditPay,
              Redeem, vars, fiscal, YearsKept
<1>2. ASSUME NEW i \in Invoices, Created(i) PROVE YearsKept
  <2>1. years' = PostingYears /\ CalendarYear(now) \in Years
    BY <1>2, CreatedRow, PeriodYear DEF LedgerInv, FiscalOK
  <2>2. CASE Covering = {}
    BY <2>1, <2>2, ProvisionedKeeps DEF PostingYears, PostingYear
  <2>3. CASE Covering # {}
    BY <2>1, <2>3 DEF PostingYears, YearsKept
  <2>4. QED BY <2>2, <2>3
<1>3. ASSUME NEW i \in Invoices, Continued(i) PROVE YearsKept
  <2>1. invoice[i].created \in Periods
    BY DEF LedgerInv, RowsOK, Invoice
  <2>2. CalendarYear(invoice[i].created) \in Years
    BY <2>1, PeriodYear
  <2>3. QED BY <1>3, <2>2, ContinuedRow, ProvisionedKeeps
<1>4. QED BY <1>1, <1>2, <1>3, FiscalStepKeeps, StepKinds DEF Quiet

LEMMA CalendarNext ==
  ASSUME LedgerInv, CalendarYears => PostedByCalendar, [Next]_vars, CalendarYears'
  PROVE  PostedByCalendar'
<1>1. CalendarYears
  BY YearsKeepDates DEF CalendarYears, YearsKept
<1>2. CalendarInv
  BY <1>1 DEF CalendarInv
<1>3. CASE Quiet
  BY <1>1, <1>3, QuietSteps DEF PostedByCalendar
<1>4. ASSUME NEW i \in Invoices, Created(i) PROVE PostedByCalendar'
  <2>1. PostingYear = CalendarYear(now)
    BY <1>2, <1>4, CreatedRow, CalendarPosting
  <2>2. QED BY <1>1, <1>4, <2>1, CreatedRow, OtherRows DEF PostedByCalendar
<1>5. ASSUME NEW i \in Invoices, Continued(i) PROVE PostedByCalendar'
  BY <1>1, <1>5, ContinuedRow, OtherRows DEF PostedByCalendar
<1>6. QED BY <1>3, <1>4, <1>5, StepKinds

\* Nothing is posted to a closed fiscal year while fiscal years are calendar
\* years: whatever dates an administrator may give one, none has others yet.
THEOREM ClosedYearsStay == Spec => ClosedYearImmutable
<1>1. Init => (CalendarYears => PostedByCalendar)
  BY DEF Init, PostedByCalendar, NoInvoice
<1>2. LedgerInv /\ (CalendarYears => PostedByCalendar) /\ [Next]_vars
        => (CalendarYears => PostedByCalendar)'
  BY CalendarNext
<1>3. ASSUME LedgerInv, CalendarInv, [Next]_vars, NEW i \in Invoices
      PROVE  /\ invoice[i].status # "NONE" /\ years[invoice[i].year].status = "CLOSED"
                  => invoice'[i] = invoice[i]
             /\ invoice[i].status = "NONE" /\ invoice'[i].status # "NONE"
                  => years[invoice'[i].year].status # "CLOSED"
  <2>1. CASE Quiet
    BY <2>1, QuietSteps
  <2>2. ASSUME NEW j \in Invoices, Created(j) \/ Continued(j), j # i
        PROVE  invoice'[i] = invoice[i]
    BY <1>3, <2>2, OtherRows
  <2>3. CASE Created(i)
    BY <1>3, <2>3, CreatedRow, CalendarPosting
  <2>4. CASE Continued(i)
    BY <1>3, <2>4, ContinuedRow DEF CalendarInv, PostedByCalendar, YearOpen
  <2>5. QED BY <1>3, <2>1, <2>2, <2>3, <2>4, StepKinds
<1>4. LedgerInv /\ (CalendarYears => PostedByCalendar) /\ [Next]_vars =>
        [CalendarYears => \A i \in Invoices :
           /\ invoice[i].status # "NONE" /\ years[invoice[i].year].status = "CLOSED"
                => invoice'[i] = invoice[i]
           /\ invoice[i].status = "NONE" /\ invoice'[i].status # "NONE"
                => years[invoice'[i].year].status # "CLOSED"]_vars
  BY <1>3 DEF CalendarInv
<1>5. QED BY <1>1, <1>2, <1>4, LedgerInvariant, PTL DEF Spec, ClosedYearImmutable
-----------------------------------------------------------------------------
(***************************************************************************)
(* Numbers.  Those of an invoice are its own and the ones duplicates of    *)
(* its sale took; only the first process to sell and its duplicates in     *)
(* other processes take any.                                               *)
(***************************************************************************)
NumbersInv ==
  /\ NumbersGapless
  /\ \A i \in Invoices : /\ IsFiniteSet(burnt[i])
                         /\ i \notin Issued => burnt[i] = {}

\* Numbers of a step that takes none.
LEMMA NumbersKept ==
  ASSUME NumbersInv, UNCHANGED numbers,
         \A i \in Invoices : /\ invoice'[i].number = invoice[i].number
                             /\ invoice'[i].year = invoice[i].year
  PROVE  NumbersInv'
<1> DEFINE In(y)   == {i \in Issued : invoice[i].year = y}
           In1(y)  == {i \in Issued' : invoice'[i].year = y}
           Own(i)  == {invoice[i].number} \cup burnt[i]
           Own1(i) == {invoice'[i].number} \cup burnt'[i]
<1>1. Issued' = Issued /\ Issued \subseteq Invoices /\ seq' = seq /\ burnt' = burnt
  BY DEF Issued, numbers
<1>2. \A y \in Years : In1(y) = In(y)
  BY <1>1
<1>3. \A i \in Issued : Own1(i) = Own(i)
  BY <1>1
<1>4. /\ \A y \in Years : UNION {Own(i) : i \in In(y)} = 1..seq[y]
      /\ \A y \in Years : \A i, j \in In(y) : i # j => Own(i) \cap Own(j) = {}
      /\ \A i \in Issued : invoice[i].number \notin burnt[i]
      /\ \A i \in Invoices : Cardinality(burnt[i]) < Processes
  BY DEF NumbersInv, NumbersGapless
<1>5. \A y \in Years : {Own1(i) : i \in In1(y)} = {Own(i) : i \in In(y)}
  BY <1>2, <1>3
<1>6. \A y \in Years : \A i, j \in In1(y) : i # j => Own1(i) \cap Own1(j) = {}
  BY <1>2, <1>3, <1>4
<1>7. NumbersGapless'
  BY <1>1, <1>4, <1>5, <1>6 DEF NumbersGapless
<1>8. QED BY <1>1, <1>7 DEF NumbersInv

\* Numbers of a step in which one invoice, new or not, gets the next number of
\* its year, as its own or by a duplicate.
LEMMA NumbersExtended ==
  ASSUME LedgerInv, NumbersInv, NEW i \in Invoices, NEW y \in Years,
         Issued' = Issued \cup {i},
         \A j \in Invoices \ {i} : /\ invoice'[j].number = invoice[j].number
                                   /\ invoice'[j].year = invoice[j].year
                                   /\ burnt'[j] = burnt[j],
         invoice'[i].year = y, i \in Issued => invoice[i].year = y,
         seq' = [seq EXCEPT ![y] = @ + 1],
         {invoice'[i].number} \cup burnt'[i] =
           (IF i \in Issued THEN {invoice[i].number} \cup burnt[i] ELSE {})
             \cup {seq[y] + 1},
         invoice'[i].number \notin burnt'[i],
         IsFiniteSet(burnt'[i]), Cardinality(burnt'[i]) < Processes
  PROVE  NumbersInv'
<1> DEFINE In(z)   == {j \in Issued : invoice[j].year = z}
           In1(z)  == {j \in Issued' : invoice'[j].year = z}
           Own(j)  == {invoice[j].number} \cup burnt[j]
           Own1(j) == {invoice'[j].number} \cup burnt'[j]
           old     == IF i \in Issued THEN Own(i) ELSE {}
           next    == seq[y] + 1
<1>1. /\ \A z \in Years : UNION {Own(j) : j \in In(z)} = 1..seq[z]
      /\ \A z \in Years : \A j, k \in In(z) : j # k => Own(j) \cap Own(k) = {}
      /\ \A j \in Issued : invoice[j].number \notin burnt[j]
      /\ \A j \in Invoices : Cardinality(burnt[j]) < Processes
      /\ \A j \in Invoices : IsFiniteSet(burnt[j]) /\ (j \notin Issued => burnt[j] = {})
  BY DEF NumbersInv, NumbersGapless
<1>2. seq[y] \in Nat /\ Issued \subseteq Invoices /\ seq \in [Years -> Nat]
  BY DEF LedgerInv, FiscalOK, Issued
<1>3. \A j \in Invoices \ {i} : Own1(j) = Own(j)
  OBVIOUS
<1>4. Own1(i) = old \cup {next}
  OBVIOUS
<1>5. \A z \in Years \ {y} : In1(z) = In(z) /\ i \notin In(z)
  BY <1>2
<1>6. In1(y) = In(y) \cup {i}
  BY <1>2
<1>7. i \in Issued <=> i \in In(y)
  OBVIOUS
<1>8. seq'[y] = next /\ \A z \in Years \ {y} : seq'[z] = seq[z]
  BY <1>2
<1>9. \A z \in Years : In(z) \subseteq Invoices
  BY <1>2
<1> HIDE DEF In, In1, Own, Own1
<1>10. \A j \in In(y) : Own(j) \subseteq 1..seq[y]
  BY <1>1
<1>11. next \notin 1..seq[y] /\ 1..next = (1..seq[y]) \cup {next}
  BY <1>2
<1>12. UNION {Own1(j) : j \in In1(y)} = (UNION {Own(j) : j \in In(y)}) \cup {next}
  <2>1. ASSUME NEW x, x \in UNION {Own1(j) : j \in In1(y)}
        PROVE  x \in (UNION {Own(j) : j \in In(y)}) \cup {next}
    <3>1. PICK j \in In1(y) : x \in Own1(j)
      BY <2>1
    <3>2. CASE j = i
      BY <1>4, <1>7, <3>1, <3>2
    <3>3. CASE j # i
      BY <1>3, <1>6, <1>9, <3>1, <3>3
    <3>4. QED BY <3>2, <3>3
  <2>2. ASSUME NEW x, x \in (UNION {Own(j) : j \in In(y)}) \cup {next}
        PROVE  x \in UNION {Own1(j) : j \in In1(y)}
    <3>1. CASE x = next
      BY <1>4, <1>6, <3>1
    <3>2. CASE x # next
      <4>1. PICK j \in In(y) : x \in Own(j)
        BY <2>2, <3>2
      <4>2. x \in Own1(j)
        BY <1>3, <1>4, <1>7, <1>9, <4>1
      <4>3. QED BY <1>6, <4>1, <4>2
    <3>3. QED BY <3>1, <3>2
  <2>3. QED BY <2>1, <2>2
<1>13. \A z \in Years : UNION {Own1(j) : j \in In1(z)} = 1..seq'[z]
  <2>1. ASSUME NEW z \in Years \ {y}
        PROVE  UNION {Own1(j) : j \in In1(z)} = 1..seq'[z]
    <3>1. \A j \in In(z) : Own1(j) = Own(j)
      BY <1>3, <1>5, <1>9
    <3>2. {Own1(j) : j \in In1(z)} = {Own(j) : j \in In(z)}
      BY <1>5, <3>1
    <3>3. QED BY <1>1, <1>8, <3>2
  <2>2. UNION {Own1(j) : j \in In1(y)} = 1..seq'[y]
    BY <1>1, <1>8, <1>11, <1>12
  <2>3. QED BY <2>1, <2>2
<1>14. \A z \in Years : \A j, k \in In1(z) : j # k => Own1(j) \cap Own1(k) = {}
  <2>1. ASSUME NEW z \in Years \ {y}, NEW j \in In1(z), NEW k \in In1(z), j # k
        PROVE  Own1(j) \cap Own1(k) = {}
    BY <1>1, <1>3, <1>5, <1>9, <2>1
  <2>2. ASSUME NEW k \in In1(y), k # i PROVE Own1(i) \cap Own1(k) = {}
    <3>1. k \in In(y) /\ Own1(k) = Own(k)
      BY <1>3, <1>6, <1>9, <2>2
    <3>2. next \notin Own(k)
      BY <1>10, <1>11, <3>1
    <3>3. old \cap Own(k) = {}
      BY <1>1, <1>7, <2>2, <3>1
    <3>4. QED BY <1>4, <3>1, <3>2, <3>3
  <2>3. ASSUME NEW j \in In1(y), NEW k \in In1(y), j # k, j # i, k # i
        PROVE  Own1(j) \cap Own1(k) = {}
    BY <1>1, <1>3, <1>6, <1>9, <2>3
  <2>4. QED BY <2>1, <2>2, <2>3
<1>15. /\ \A j \in Issued' : invoice'[j].number \notin burnt'[j]
       /\ \A j \in Invoices : Cardinality(burnt'[j]) < Processes
       /\ \A j \in Invoices : /\ IsFiniteSet(burnt'[j])
                              /\ j \notin Issued' => burnt'[j] = {}
  BY <1>1, <1>2
<1>16. NumbersGapless'
  BY <1>13, <1>14, <1>15 DEF NumbersGapless, In1, Own1
<1>17. QED BY <1>15, <1>16 DEF NumbersInv

\* A sale gives its invoice the next number of the year it is posted to.
LEMMA SaleNumbers ==
  ASSUME LedgerInv, NumbersInv, NEW i \in Invoices, Created(i)
  PROVE  NumbersInv'
<1>1. /\ invoice[i].status = "NONE" /\ PostingYear \in Years /\ seq[PostingYear] \in Nat
      /\ invoice'[i].number = seq[PostingYear] + 1 /\ invoice'[i].year = PostingYear
      /\ seq' = [seq EXCEPT ![PostingYear] = @ + 1] /\ burnt' = burnt
  BY CreatedRow, PostingTypes DEF LedgerInv, FiscalOK
<1>2. i \notin Issued
  BY <1>1 DEF LedgerInv, RowsOK, RowOK, Numbered, Issued
<1>3. \A j \in Invoices \ {i} : invoice'[j] = invoice[j]
  BY OtherRows
<1>4. Issued' = Issued \cup {i}
  BY <1>1, <1>2, <1>3 DEF Issued
<1>5. burnt[i] = {} /\ IsFiniteSet(burnt[i]) /\ Cardinality(burnt[i]) < Processes
  BY <1>2 DEF NumbersInv, NumbersGapless
<1>6. QED BY <1>1, <1>2, <1>3, <1>4, <1>5, NumbersExtended

\* A duplicate takes the next number of the year of the invoice it duplicates.
LEMMA DuplicateNumbers ==
  ASSUME LedgerInv, NumbersInv, NEW i \in Invoices, DuplicateSale(i)
  PROVE  NumbersInv'
<1> DEFINE y == invoice[i].year
<1>1. /\ invoice[i].status # "NONE" /\ Cardinality(burnt[i]) + 1 < Processes
      /\ seq' = [seq EXCEPT ![y] = @ + 1]
      /\ burnt' = [burnt EXCEPT ![i] = @ \cup {seq[y] + 1}]
      /\ invoice' = invoice
  BY DEF DuplicateSale, NextNumber
<1>2. /\ y \in Years /\ seq[y] \in Nat /\ burnt \in [Invoices -> SUBSET Nat]
      /\ invoice[i].number \in Nat
  BY DEF LedgerInv, RowsOK, FiscalOK, Invoice
<1>3. i \in Issued /\ Issued' = Issued
  BY <1>1, <1>2 DEF LedgerInv, RowsOK, RowOK, Numbered, Issued
<1>4. burnt'[i] = burnt[i] \cup {seq[y] + 1} /\ \A j \in Invoices \ {i} : burnt'[j] = burnt[j]
  BY <1>1, <1>2
<1>5. ({invoice[i].number} \cup burnt[i]) \subseteq 1..seq[y]
  BY <1>2, <1>3 DEF NumbersInv, NumbersGapless
<1>6. seq[y] + 1 \notin {invoice[i].number} \cup burnt[i]
  BY <1>2, <1>5
<1>7. IsFiniteSet(burnt'[i]) /\ Cardinality(burnt'[i]) = Cardinality(burnt[i]) + 1
  <2>1. IsFiniteSet(burnt[i])
    BY DEF NumbersInv
  <2>2. QED BY <1>4, <1>6, <2>1, FS_AddElement
<1>8. invoice[i].number \notin burnt[i]
  BY <1>3 DEF NumbersInv, NumbersGapless
<1>9. invoice'[i].number \notin burnt'[i]
  BY <1>1, <1>4, <1>6, <1>8
<1>10. {invoice'[i].number} \cup burnt'[i] =
         (IF i \in Issued THEN {invoice[i].number} \cup burnt[i] ELSE {}) \cup {seq[y] + 1}
  BY <1>1, <1>3, <1>4
<1>11. Cardinality(burnt'[i]) < Processes
  BY <1>1, <1>7
<1>12. /\ Issued' = Issued \cup {i} /\ invoice'[i].year = y
       /\ \A j \in Invoices \ {i} : /\ invoice'[j].number = invoice[j].number
                                     /\ invoice'[j].year = invoice[j].year
                                     /\ burnt'[j] = burnt[j]
  BY <1>1, <1>3, <1>4
<1>13. /\ y \in Years /\ seq' = [seq EXCEPT ![y] = @ + 1]
       /\ i \in Issued => invoice[i].year = y
       /\ IsFiniteSet(burnt'[i])
  BY <1>1, <1>2, <1>7
<1> HIDE DEF y
<1>14. QED BY <1>9, <1>10, <1>11, <1>12, <1>13, NumbersExtended

\* Invoice numbers are unique per fiscal year, and its only gaps are numbers
\* that duplicates of a sale took, fewer than there are processes for each.
THEOREM NumbersStayGapless == Spec => []NumbersGapless
<1>1. Init => NumbersInv
  <2> SUFFICES ASSUME Init PROVE NumbersInv
    OBVIOUS
  <2>1. Issued = {}
    BY DEF Init, NoInvoice, Issued
  <2>2. \A i \in Invoices : burnt[i] = {} /\ IsFiniteSet(burnt[i]) /\ Cardinality(burnt[i]) = 0
    BY FS_EmptySet DEF Init
  <2>3. \A y \in Years : 1..seq[y] = {}
    BY DEF Init
  <2>4. 0 < Processes
    BY LedgerAssumption
  <2>5. QED BY <2>1, <2>2, <2>3, <2>4 DEF NumbersInv, NumbersGapless
<1>2. ASSUME LedgerInv, NumbersInv, [Next]_vars
      PROVE  NumbersInv'
  <2>1. CASE Quiet
    <3>1. CASE DuplicateStep
      BY <1>2, <3>1, DuplicateNumbers DEF DuplicateStep
    <3>2. CASE ~DuplicateStep
      BY <1>2, <2>1, <3>2, QuietSteps, NumbersKept
    <3>3. QED BY <3>1, <3>2
  <2>2. ASSUME NEW i \in Invoices, Created(i) PROVE NumbersInv'
    BY <1>2, <2>2, SaleNumbers
  <2>3. ASSUME NEW i \in Invoices, Continued(i) PROVE NumbersInv'
    <3>1. UNCHANGED numbers
      BY <1>2, <2>3, ContinuedRow
    <3>2. \A j \in Invoices : /\ invoice'[j].number = invoice[j].number
                              /\ invoice'[j].year = invoice[j].year
      BY <1>2, <2>3, ContinuedRow, OtherRows
    <3>3. QED BY <1>2, <3>1, <3>2, NumbersKept
  <2>4. QED BY <1>2, <2>1, <2>2, <2>3, StepKinds
<1>3. NumbersInv => NumbersGapless
  BY DEF NumbersInv
<1>4. QED BY <1>1, <1>2, <1>3, LedgerInvariant, PTL DEF Spec
-----------------------------------------------------------------------------
\* A partial return raises what the invoice comes to, what is owed on it and
\* the customer's credit by no more than rounding adds.
LEMMA ReturningRow ==
  ASSUME LedgerInv, NEW i \in Invoices, Returning(i)
  PROVE  /\ invoice'[i].returnedQty > invoice[i].returnedQty
         /\ invoice'[i].total <= invoice[i].total + RoundingSlack(invoice[i])
         /\ invoice'[i].remaining <= invoice[i].remaining + RoundingSlack(invoice[i])
         /\ credit' <= credit + RoundingSlack(invoice[i])
<1> DEFINE inv == invoice[i]
           k   == RoundingSlack(inv)
<1>1. RowOK(inv) /\ inv \in Invoice /\ invoice \in [Invoices -> Invoice]
  BY DEF LedgerInv, RowsOK, RowOK
<1>2. /\ inv.qty \in Nat /\ inv.returnedQty \in Nat
      /\ inv.paid \in Nat /\ inv.remaining \in Nat
      /\ inv.total \in Nat /\ inv.paid + inv.remaining = inv.total
  BY <1>1 DEF Invoice, RowOK, Settled
<1>3. PICK q \in 1..inv.qty, c \in CreditReturns : PartialReturn(i, q, c)
  BY DEF Returning
<1> DEFINE line      == LineDiscountKept(inv, inv.qty - q)
           gross     == LineTotal(inv.qty - q, line)
           total     == gross - ProRated(inv, gross)
           paid      == Lesser(inv.paid, total)
           remaining == total - paid
<1>4. /\ invoice'[i].total = total /\ invoice'[i].remaining = remaining
      /\ invoice'[i].returnedQty = inv.returnedQty + q
      /\ credit' = IF inv.customer THEN AtLeast0(credit + remaining - inv.remaining)
                                   ELSE credit
  BY <1>1, <1>3 DEF PartialReturn, Invoice
<1>5. k \in Nat
  BY DEF RoundingSlack
<1>6. gross \in Nat /\ total <= inv.total + k
  <2> HIDE DEF inv
  <2>1. QED BY <1>1, <1>3, ReturnedTotal
<1>7. total \in Nat
  <2> HIDE DEF inv, gross
  <2>1. QED BY <1>1, <1>6, ProRatedNat
<1>8. remaining <= inv.remaining + k /\ remaining \in Nat
  <2> HIDE DEF inv, k, total
  <2>1. QED BY <1>2, <1>5, <1>6, <1>7 DEF Lesser
<1>9. credit' <= credit + k
  <2> HIDE DEF inv, k, remaining
  <2>1. QED BY <1>2, <1>4, <1>5, <1>8 DEF AtLeast0, LedgerInv, AccountOK
<1>10. inv.returnedQty + q > inv.returnedQty
  <2> HIDE DEF inv
  <2>1. QED BY <1>2, <1>3
<1>11. QED BY <1>4, <1>6, <1>8, <1>9, <1>10

\* No other operation on an existing invoice counts units as returned.
LEMMA KeptUnits ==
  ASSUME LedgerInv, NEW i \in Invoices, Settling(i) \/ Void(i) \/ FullReturn(i)
  PROVE  invoice'[i].returnedQty = invoice[i].returnedQty
<1>1. invoice[i] \in Invoice /\ invoice \in [Invoices -> Invoice]
  BY DEF LedgerInv, RowsOK
<1>2. CASE Settling(i)
  <2>1. PICK method \in Methods, a \in Amounts : Pay(i, method, a)
    BY <1>2 DEF Settling
  <2> DEFINE inv       == invoice[i]
             recorded  == IF method = "WALLET" THEN Lesser(a, inv.total - inv.paid)
                                               ELSE a
             debit     == IF method = "WALLET" THEN recorded ELSE 0
             paid      == Lesser(inv.paid + recorded, inv.total)
             remaining == inv.total - paid
             status    == IF remaining <= Tolerance THEN "PAID" ELSE "PARTIAL"
             cash      == IF method = "CASH" THEN inv.cash + recorded ELSE inv.cash
             card      == IF method = "CARD" THEN inv.card + recorded ELSE inv.card
             walletPaid == inv.walletPaid + debit
             debited   == inv.debited + debit
             row       == [inv EXCEPT !.status = status, !.paid = paid,
                             !.remaining = remaining, !.cash = cash, !.card = card,
                             !.walletPaid = walletPaid, !.debited = debited]
  <2>2. invoice' = [invoice EXCEPT ![i] = row]
    BY <2>1 DEF Pay
  <2>3. row.returnedQty = inv.returnedQty
    <3> HIDE DEF inv, status, paid, remaining, cash, card, walletPaid, debited
    <3>1. QED BY <1>1 DEF Invoice, inv
  <2> HIDE DEF row
  <2>4. QED BY <1>1, <2>2, <2>3
<1>3. CASE Void(i)
  BY <1>1, <1>3 DEF Void, Invoice
<1>4. CASE FullReturn(i)
  BY <1>1, <1>4 DEF FullReturn, Invoice
<1>5. QED BY <1>2, <1>3, <1>4

\* A return costs the customer nothing but what rounding adds, however the
\* line discount, the tax and the manual discount are rounded.
THEOREM ReturnsChargeRoundingOnly == Spec => ReturnRaisesDebtByRoundingOnly
<1>1. ASSUME LedgerInv, [Next]_vars, NEW i \in Invoices,
             invoice'[i].returnedQty > invoice[i].returnedQty
      PROVE  /\ invoice'[i].total <= invoice[i].total + RoundingSlack(invoice[i])
             /\ invoice'[i].remaining
                  <= invoice[i].remaining + RoundingSlack(invoice[i])
  <2>0. invoice[i].returnedQty \in Nat
    BY <1>1 DEF LedgerInv, RowsOK, Invoice
  <2>1. ~Quiet
    BY <1>1, <2>0, QuietSteps
  <2>2. ASSUME NEW j \in Invoices, Created(j) \/ Continued(j) PROVE j = i
    BY <1>1, <2>0, <2>2, OtherRows
  <2>3. ~Created(i)
    BY <1>1, <2>0, CreatedRow
  <2>4. Continued(i)
    BY <1>1, <2>1, <2>2, <2>3, StepKinds
  <2>5. Returning(i)
    BY <1>1, <2>0, <2>4, KeptUnits DEF Continued
  <2>6. QED BY <1>1, <2>5, ReturningRow
<1>2. LedgerInv /\ [Next]_vars =>
        [\A i \in Invoices :
           invoice'[i].returnedQty > invoice[i].returnedQty =>
             /\ invoice'[i].total <= invoice[i].total + RoundingSlack(invoice[i])
             /\ invoice'[i].remaining
                  <= invoice[i].remaining + RoundingSlack(invoice[i])]_vars
  BY <1>1
<1>3. QED BY <1>2, LedgerInvariant, PTL DEF Spec, ReturnRaisesDebtByRoundingOnly

\* A sale charges the customer within the limit, if it charges at all.
LEMMA SaleCharges ==
  ASSUME LedgerInv, NEW i \in Invoices, Created(i), CreditLimit > 0, credit' > credit
  PROVE  credit' <= CreditLimit + Tolerance
<1>1. PICK q \in Quantities, ld \in LineDiscounts, customer \in BOOLEAN,
           d \in Discounts, t \in Tenders :
        Sale(i, q, ld, customer, d, t)
  BY DEF Created
<1> DEFINE gross     == LineTotal(q, Lesser(ld, Rounded(q)))
           total     == gross - Lesser(d, gross)
           remaining == total - Lesser(t.cash + t.card + t.wallet, total)
<1>2. /\ CreditAllows(customer, remaining)
      /\ credit' = IF OnAccount(customer, remaining) THEN credit + remaining ELSE credit
  BY <1>1 DEF Sale
<1>3. remaining \in Int
  <2>1. q \in Nat /\ ld \in Nat /\ d \in Nat
    BY LedgerAssumption
  <2>2. Lesser(ld, Rounded(q)) \in Nat
    BY <2>1, RoundedNat, LesserNat
  <2>3. gross \in Nat
    BY <2>1, <2>2, LineTotalNat
  <2>4. total \in Int
    <3> HIDE DEF gross
    <3>1. QED BY <2>1, <2>3 DEF Lesser
  <2>5. t.cash + t.card + t.wallet \in Int
    <3>1. t.cash \in Amounts /\ t.card \in Amounts /\ t.wallet \in Amounts
      BY DEF Tenders
    <3>2. t.cash \in Nat /\ t.card \in Nat /\ t.wallet \in Nat
      BY <3>1, LedgerAssumption
    <3>3. QED BY <3>2
  <2> HIDE DEF total
  <2>6. QED BY <2>4, <2>5 DEF Lesser
<1> HIDE DEF remaining
<1>4. credit \in Nat /\ CreditLimit \in Nat
  BY LedgerAssumption DEF LedgerInv, AccountOK
<1>5. QED BY <1>2, <1>3, <1>4 DEF CreditAllows, Tolerance

\* A payment and a reversal never charge the customer.
LEMMA SettlingReleases ==
  ASSUME LedgerInv, NEW i \in Invoices, Settling(i) \/ Void(i) \/ FullReturn(i)
  PROVE  credit' <= credit
<1>1. invoice[i] \in Invoice /\ credit \in Nat
  BY DEF LedgerInv, RowsOK, AccountOK
<1>2. invoice[i].remaining \in Nat
  BY <1>1 DEF Invoice
<1>3. CASE Settling(i)
  <2>1. PICK method \in Methods, a \in Amounts : Pay(i, method, a)
    BY <1>3 DEF Settling
  <2> DEFINE inv       == invoice[i]
             recorded  == IF method = "WALLET" THEN Lesser(a, inv.total - inv.paid)
                                               ELSE a
             remaining == inv.total - Lesser(inv.paid + recorded, inv.total)
  <2>2. \/ credit' = credit
        \/ credit' = AtLeast0(credit - AtLeast0(inv.remaining - remaining))
    BY <2>1 DEF Pay, Released
  <2>3. remaining \in Int
    <3>1. a \in Int /\ inv.total \in Int /\ inv.paid \in Int
      BY <1>1, LedgerAssumption DEF Invoice
    <3> HIDE DEF inv
    <3>2. recorded \in Int
      BY <3>1 DEF Lesser
    <3> HIDE DEF recorded
    <3>3. QED BY <3>1, <3>2 DEF Lesser
  <2> HIDE DEF remaining
  <2>4. AtLeast0(inv.remaining - remaining) \in Nat
    BY <1>2, <2>3, AtLeast0Nat
  <2>5. QED BY <1>1, <2>2, <2>4 DEF AtLeast0
<1>4. CASE Void(i)
  <2>1. credit' = credit \/ credit' = AtLeast0(credit - invoice[i].remaining)
    BY <1>4 DEF Void, ReverseAccount, account
  <2>2. QED BY <1>1, <1>2, <2>1 DEF AtLeast0
<1>5. CASE FullReturn(i)
  <2>1. credit' = credit \/ credit' = AtLeast0(credit - invoice[i].remaining)
    BY <1>5 DEF FullReturn, ReverseAccount, account
  <2>2. QED BY <1>1, <1>2, <2>1 DEF AtLeast0
<1>6. QED BY <1>3, <1>4, <1>5

\* Neither do the steps that are not about an invoice.
LEMMA QuietReleases ==
  ASSUME LedgerInv, Quiet
  PROVE  /\ credit' \in Int /\ credit' <= credit
         /\ points' \in Int /\ points' <= points
         /\ stock' = stock
<1>1. \A a \in Amounts : a \in Nat
  BY LedgerAssumption
<1>2. credit \in Nat /\ points \in Nat
  BY DEF LedgerInv, AccountOK
<1>3. CASE AccountStep
  BY <1>1, <1>2, <1>3
     DEF AccountStep, WalletCredit, WalletDebit, CreditPay, Redeem, Lesser
<1>4. CASE DuplicateStep \/ FiscalStep \/ UNCHANGED vars
  BY <1>2, <1>4 DEF DuplicateStep, DuplicateSale, FiscalStep, OpenYear, CloseYear,
                    ReopenYear, RefusedSale, NewPeriod, account, vars
<1>5. QED BY <1>3, <1>4 DEF Quiet

\* Nothing charges the customer beyond the limit, but for what rounding adds in
\* a return: only a sale and a return charge, and a sale looks at the limit.
THEOREM CreditStaysWithinLimit == Spec => CreditWithinLimit
<1>1. ASSUME LedgerInv, [Next]_vars, CreditLimit > 0, credit' > credit
      PROVE  \/ credit' <= CreditLimit + Tolerance
             \/ \E i \in Invoices :
                  /\ invoice'[i].returnedQty > invoice[i].returnedQty
                  /\ credit' <= credit + RoundingSlack(invoice[i])
  <2>1. credit \in Int /\ credit' \in Int
    BY <1>1, NextLedger DEF LedgerInv, AccountOK
  <2>2. ~Quiet
    BY <1>1, <2>1, QuietReleases
  <2>3. PICK i \in Invoices : Created(i) \/ Continued(i)
    BY <1>1, <2>2, StepKinds
  <2>4. CASE Created(i)
    BY <1>1, <2>4, SaleCharges
  <2>5. CASE Continued(i)
    <3>1. Returning(i)
      BY <1>1, <2>1, <2>5, SettlingReleases DEF Continued
    <3>2. QED BY <1>1, <3>1, ReturningRow
  <2>6. QED BY <2>3, <2>4, <2>5
<1>2. LedgerInv /\ [Next]_vars =>
        [CreditLimit > 0 /\ credit' > credit =>
           \/ credit' <= CreditLimit + Tolerance
           \/ \E i \in Invoices :
                /\ invoice'[i].returnedQty > invoice[i].returnedQty
                /\ credit' <= credit + RoundingSlack(invoice[i])]_vars
  BY <1>1
<1>3. QED BY <1>2, LedgerInvariant, PTL DEF Spec, CreditWithinLimit
-----------------------------------------------------------------------------
(***************************************************************************)
(* The sums.  What one row contributes to them, and the marks that tell    *)
(* which of its units were put back and which points it can have earned.   *)
(***************************************************************************)
LiveStatuses == {"UNPAID", "PARTIAL", "PAID"}

LiveUnits(inv)  == IF inv.status \in LiveStatuses THEN inv.qty ELSE 0
LiveEarned(inv) == IF inv.status \in LiveStatuses THEN inv.earned ELSE 0
LiveDebt(inv)   == IF inv.status \in LiveStatuses /\ inv.customer THEN inv.remaining ELSE 0
TwiceUnits(inv) == IF inv.status = "VOIDED" /\ inv.returned THEN inv.qty ELSE 0

Marked(inv) ==
  /\ inv.status \in LiveStatuses \cup {"NONE"} => ~inv.returned
  /\ inv.status = "RETURNED" => inv.returned
  /\ ~inv.customer => inv.earned = 0

RowsMarked == \A i \in Invoices : Marked(invoice[i])

\* What a step about invoice i does: stock, credit and points move with what
\* the invoice contributes, credit and points possibly by more than that.
MovesWith(i) ==
  LET old == invoice[i]
      new == invoice'[i]
  IN
  /\ Marked(new)
  /\ stock' + LiveUnits(new) - TwiceUnits(new) = stock + LiveUnits(old) - TwiceUnits(old)
  /\ credit' <= AtLeast0(credit + LiveDebt(new) - LiveDebt(old))
  /\ points' <= AtLeast0(points + LiveEarned(new) - LiveEarned(old))

LEMMA SaleMoves ==
  ASSUME LedgerInv, NEW i \in Invoices, Created(i)
  PROVE  MovesWith(i)
<1>1. PICK q \in Quantities, ld \in LineDiscounts, customer \in BOOLEAN,
           d \in Discounts, t \in Tenders :
        Sale(i, q, ld, customer, d, t)
  BY DEF Created
<1> DEFINE line      == Lesser(ld, Rounded(q))
           gross     == LineTotal(q, line)
           discount  == Lesser(d, gross)
           total     == gross - discount
           paid      == Lesser(t.cash + t.card + t.wallet, total)
           remaining == total - paid
           status    == Settlement(paid, total)
           pts       == IF customer /\ status = "PAID" THEN total \div PointEvery ELSE 0
           row       == [ status |-> status, customer |-> customer,
                          created |-> now, year |-> PostingYear,
                          number |-> NextNumber(PostingYear),
                          qty |-> q, returnedQty |-> 0, lineDiscount |-> line,
                          gross |-> gross, discount |-> discount,
                          total |-> total, paid |-> paid, remaining |-> remaining,
                          cash |-> t.cash, card |-> t.card,
                          walletPaid |-> t.wallet, refund |-> 0,
                          debited |-> t.wallet, credited |-> 0, earned |-> pts,
                          returned |-> FALSE ]
           old == invoice[i]
           new == invoice'[i]
<1>2. invoice' = [invoice EXCEPT ![i] = row] /\ invoice \in [Invoices -> Invoice]
  BY <1>1 DEF Sale, LedgerInv, RowsOK
<1>3. new = row
  <2> HIDE DEF row
  <2> QED BY <1>2
<1>4. /\ new.status = status /\ new.customer = customer /\ new.qty = q
      /\ new.remaining = remaining /\ new.earned = pts /\ ~new.returned
  <2> HIDE DEF new, status, remaining, pts
  <2> QED BY <1>3
<1>5. status \in LiveStatuses
  BY DEF Settlement, LiveStatuses
<1>6. /\ old.status = "NONE"
      /\ stock' = stock - q /\ points' = points + pts
      /\ credit' = IF OnAccount(customer, remaining) THEN credit + remaining ELSE credit
  BY <1>1 DEF Sale
<1>7. /\ stock \in Int /\ credit \in Nat /\ points \in Nat
      /\ credit' \in Nat /\ points' \in Nat /\ q \in Nat
  BY <1>1, SaleLedger, LedgerAssumption DEF LedgerInv, AccountOK
<1>8. remaining \in Nat /\ pts \in Nat
  <2>1. new \in Invoice BY <1>1, SaleLedger DEF LedgerInv, RowsOK
  <2> HIDE DEF remaining, pts, new
  <2> QED BY <1>4, <2>1 DEF Invoice
<1>9. ~customer => pts = 0
  OBVIOUS
<1> HIDE DEF old, new, status, remaining, pts
<1>10. Marked(new)
  BY <1>4, <1>5, <1>9 DEF Marked, LiveStatuses
<1>11. /\ LiveUnits(old) = 0 /\ LiveDebt(old) = 0 /\ LiveEarned(old) = 0 /\ TwiceUnits(old) = 0
  BY <1>6 DEF LiveUnits, LiveDebt, LiveEarned, TwiceUnits, LiveStatuses
<1>12. /\ LiveUnits(new) = q /\ LiveDebt(new) = (IF customer THEN remaining ELSE 0)
       /\ LiveEarned(new) = pts /\ TwiceUnits(new) = 0
  BY <1>4, <1>5 DEF LiveUnits, LiveDebt, LiveEarned, TwiceUnits, LiveStatuses
<1>13. stock' + LiveUnits(new) - TwiceUnits(new) = stock + LiveUnits(old) - TwiceUnits(old)
  BY <1>6, <1>7, <1>11, <1>12
<1>14. credit' <= AtLeast0(credit + LiveDebt(new) - LiveDebt(old))
  BY <1>6, <1>7, <1>8, <1>11, <1>12 DEF AtLeast0, OnAccount
<1>15. points' <= AtLeast0(points + LiveEarned(new) - LiveEarned(old))
  BY <1>6, <1>7, <1>8, <1>11, <1>12 DEF AtLeast0
<1> QED BY <1>10, <1>13, <1>14, <1>15 DEF MovesWith, old, new

LEMMA PayMoves ==
  ASSUME LedgerInv, RowsMarked, NEW i \in Invoices, Settling(i)
  PROVE  MovesWith(i)
<1>1. PICK method \in Methods, a \in Amounts : Pay(i, method, a)
  BY DEF Settling
<1> DEFINE old       == invoice[i]
           new       == invoice'[i]
           recorded  == IF method = "WALLET" THEN Lesser(a, old.total - old.paid) ELSE a
           debit     == IF method = "WALLET" THEN recorded ELSE 0
           paid      == Lesser(old.paid + recorded, old.total)
           remaining == old.total - paid
           status    == IF remaining <= Tolerance THEN "PAID" ELSE "PARTIAL"
           cash      == IF method = "CASH" THEN old.cash + recorded ELSE old.cash
           card      == IF method = "CARD" THEN old.card + recorded ELSE old.card
           walletPaid == old.walletPaid + debit
           debited   == old.debited + debit
           row       == [old EXCEPT !.status = status, !.paid = paid,
                           !.remaining = remaining, !.cash = cash, !.card = card,
                           !.walletPaid = walletPaid, !.debited = debited]
<1>2. RowOK(old) /\ old \in Invoice /\ invoice \in [Invoices -> Invoice] /\ Marked(old)
  BY DEF LedgerInv, RowsOK, RowOK, RowsMarked
<1>3. new = row
  <2>1. invoice' = [invoice EXCEPT ![i] = row] BY <1>1 DEF Pay
  <2> HIDE DEF row
  <2> QED BY <1>2, <2>1
<1>4. /\ new.status = status /\ new.customer = old.customer /\ new.qty = old.qty
      /\ new.remaining = remaining /\ new.earned = old.earned /\ new.returned = old.returned
  <2> HIDE DEF old, new, status, paid, remaining, cash, card, walletPaid, debited
  <2> QED BY <1>2, <1>3 DEF Invoice
<1>5. /\ stock' = stock /\ points' = points
      /\ credit' = IF old.customer THEN AtLeast0(credit - AtLeast0(old.remaining - remaining))
                                   ELSE credit
      /\ a \in Nat /\ Payable(old)
  BY <1>1, LedgerAssumption DEF Pay, Released
<1>6. old.status \in LiveStatuses
  BY <1>2, <1>5 DEF Payable, Invoice, Statuses, LiveStatuses
<1>7. status \in LiveStatuses
  BY DEF LiveStatuses
<1>8. /\ stock \in Int /\ credit \in Nat /\ points \in Nat
      /\ old.qty \in Nat /\ old.earned \in Nat /\ old.remaining \in Nat
      /\ old.paid \in Nat /\ old.total \in Nat /\ old.paid + old.remaining = old.total
  BY <1>2 DEF LedgerInv, AccountOK, RowOK, Settled, Invoice
<1>9. remaining \in Int /\ remaining <= old.remaining
  <2>1. recorded \in Nat
    <3>1. old.total - old.paid \in Nat BY <1>2, <1>8 DEF RowOK, Settled
    <3> HIDE DEF old
    <3> QED BY <1>5, <3>1, LesserNat
  <2> HIDE DEF old, recorded
  <2> QED BY <1>8, <2>1 DEF Lesser
<1> HIDE DEF old, new, status, remaining
<1>10. Marked(new)
  BY <1>2, <1>4, <1>6, <1>7 DEF Marked, LiveStatuses
<1>11. /\ LiveUnits(old) = old.qty /\ LiveUnits(new) = old.qty
       /\ LiveEarned(old) = old.earned /\ LiveEarned(new) = old.earned
       /\ TwiceUnits(old) = 0 /\ TwiceUnits(new) = 0
  BY <1>4, <1>6, <1>7 DEF LiveUnits, LiveEarned, TwiceUnits, LiveStatuses
<1>12. /\ LiveDebt(old) = (IF old.customer THEN old.remaining ELSE 0)
       /\ LiveDebt(new) = (IF old.customer THEN remaining ELSE 0)
  BY <1>4, <1>6, <1>7 DEF LiveDebt
<1>13. stock' + LiveUnits(new) - TwiceUnits(new) = stock + LiveUnits(old) - TwiceUnits(old)
  BY <1>5, <1>8, <1>11
<1>14. credit' <= AtLeast0(credit + LiveDebt(new) - LiveDebt(old))
  BY <1>5, <1>8, <1>9, <1>12 DEF AtLeast0
<1>15. points' <= AtLeast0(points + LiveEarned(new) - LiveEarned(old))
  BY <1>5, <1>8, <1>11 DEF AtLeast0
<1> QED BY <1>10, <1>13, <1>14, <1>15 DEF MovesWith, old, new

LEMMA ReturnMoves ==
  ASSUME LedgerInv, RowsMarked, NEW i \in Invoices, Returning(i)
  PROVE  MovesWith(i)
<1>1. PICK q \in 1..invoice[i].qty, c \in CreditReturns : PartialReturn(i, q, c)
  BY DEF Returning
<1> DEFINE old       == invoice[i]
           new       == invoice'[i]
           line      == LineDiscountKept(old, old.qty - q)
           gross     == LineTotal(old.qty - q, line)
           total     == gross - ProRated(old, gross)
           lost      == IF old.customer
                          THEN AtLeast0(old.earned - total \div PointEvery) ELSE 0
<1>2. RowOK(old) /\ old \in Invoice /\ invoice \in [Invoices -> Invoice] /\ Marked(old)
  BY DEF LedgerInv, RowsOK, RowOK, RowsMarked
<1>3. /\ new.status \in {"PAID", "PARTIAL"} /\ new.customer = old.customer
      /\ new.qty = old.qty - q /\ new.earned = old.earned - lost
      /\ new.returned = old.returned
      /\ stock' = stock + q /\ points' = AtLeast0(points - lost)
      /\ credit' = IF old.customer THEN AtLeast0(credit + new.remaining - old.remaining)
                                   ELSE credit
      /\ old.status \notin {"NONE", "VOIDED", "RETURNED", "UNPAID"} /\ q \in 1..old.qty
  BY <1>1, <1>2 DEF PartialReturn, Invoice
<1>4. old.status \in LiveStatuses /\ new.status \in LiveStatuses
  BY <1>2, <1>3 DEF Invoice, Statuses, LiveStatuses
<1>5. /\ stock \in Int /\ credit \in Nat /\ points \in Nat
      /\ old.qty \in Nat /\ old.earned \in Nat /\ old.remaining \in Nat
  BY <1>2 DEF LedgerInv, AccountOK, Invoice
<1>6. new.remaining \in Nat /\ new.earned \in Nat
  <2>1. c \in BOOLEAN BY LedgerAssumption
  <2>2. new \in Invoice BY <1>1, <2>1, PartialReturnLedger DEF LedgerInv, RowsOK
  <2> QED BY <2>2 DEF Invoice
<1>7. lost \in Nat /\ lost <= old.earned /\ (~old.customer => lost = 0)
  <2>1. gross \in Nat
    <3>1. q \in 1..old.qty
      BY <1>3
    <3> HIDE DEF old
    <3>2. QED BY <1>2, <3>1, ReturnedTotal
  <2>2. total \in Nat
    <3> HIDE DEF gross
    <3>1. QED BY <1>2, <2>1, ProRatedNat
  <2> HIDE DEF old, total
  <2>3. total \div PointEvery \in Nat
    BY <2>2, DivNat, LedgerAssumption
  <2> QED BY <1>5, <2>3 DEF AtLeast0
<1> HIDE DEF old, new, lost
<1>8. ~old.customer => new.earned = 0
  BY <1>2, <1>3, <1>5, <1>7 DEF Marked
<1>10. Marked(new)
  BY <1>2, <1>3, <1>4, <1>8 DEF Marked, LiveStatuses
<1>11. /\ LiveUnits(old) = old.qty /\ LiveUnits(new) = old.qty - q
       /\ LiveEarned(old) = old.earned /\ LiveEarned(new) = old.earned - lost
       /\ TwiceUnits(old) = 0 /\ TwiceUnits(new) = 0
  BY <1>3, <1>4 DEF LiveUnits, LiveEarned, TwiceUnits, LiveStatuses
<1>12. /\ LiveDebt(old) = (IF old.customer THEN old.remaining ELSE 0)
       /\ LiveDebt(new) = (IF old.customer THEN new.remaining ELSE 0)
  BY <1>3, <1>4 DEF LiveDebt
<1>13. stock' + LiveUnits(new) - TwiceUnits(new) = stock + LiveUnits(old) - TwiceUnits(old)
  BY <1>3, <1>5, <1>11
<1>14. credit' <= AtLeast0(credit + LiveDebt(new) - LiveDebt(old))
  BY <1>3, <1>5, <1>6, <1>12 DEF AtLeast0
<1>15. points' <= AtLeast0(points + LiveEarned(new) - LiveEarned(old))
  BY <1>3, <1>5, <1>7, <1>11 DEF AtLeast0
<1> QED BY <1>10, <1>13, <1>14, <1>15 DEF MovesWith, old, new

\* Void and full return keep the row but for what says that it is reversed.
LEMMA ReversalMoves ==
  ASSUME LedgerInv, RowsMarked, NEW i \in Invoices, Void(i) \/ FullReturn(i)
  PROVE  MovesWith(i)
<1> DEFINE old == invoice[i]
           new == invoice'[i]
<1>1. old \in Invoice /\ invoice \in [Invoices -> Invoice] /\ Marked(old)
  BY DEF LedgerInv, RowsOK, RowsMarked
<1>2. /\ new.customer = old.customer /\ new.qty = old.qty
      /\ new.earned = old.earned /\ stock' = stock + old.qty
      /\ \/ new.status = "VOIDED" /\ new.returned = old.returned
            /\ old.status \notin {"NONE", "VOIDED"}
         \/ new.status = "RETURNED" /\ new.returned = TRUE
            /\ old.status \notin {"NONE", "VOIDED", "RETURNED", "UNPAID"}
  <2>1. CASE Void(i) BY <1>1, <2>1 DEF Void, RestoredUnits, Invoice
  <2>2. CASE FullReturn(i) BY <1>1, <2>2 DEF FullReturn, RestoredUnits, Invoice
  <2> QED BY <2>1, <2>2
<1>3. IF old.customer
        THEN credit' = AtLeast0(credit - old.remaining) /\ points' = AtLeast0(points - old.earned)
        ELSE credit' = credit /\ points' = points
  <2>1. CASE Void(i)
    BY <1>1, <2>1 DEF Void, ReverseAccount, PointsAfterReversal, account
  <2>2. CASE FullReturn(i)
    <3>1. old.status \in {"PAID", "PARTIAL"}
      BY <1>1, <2>2 DEF FullReturn, Invoice, Statuses
    <3> QED BY <1>1, <2>2, <3>1 DEF FullReturn, ReverseAccount, PointsAfterReversal, account
  <2> QED BY <2>1, <2>2
<1>4. /\ stock \in Int /\ credit \in Nat /\ points \in Nat
      /\ old.qty \in Nat /\ old.earned \in Nat /\ old.remaining \in Nat
  BY <1>1 DEF LedgerInv, AccountOK, Invoice
<1>5. old.status \in LiveStatuses \cup {"RETURNED"}
  BY <1>1, <1>2 DEF Invoice, Statuses, LiveStatuses
<1> HIDE DEF old, new
<1>6. Marked(new)
  BY <1>1, <1>2, <1>5 DEF Marked, LiveStatuses
<1>7. LiveUnits(new) = 0 /\ LiveEarned(new) = 0 /\ LiveDebt(new) = 0 /\ TwiceUnits(old) = 0
  BY <1>2 DEF LiveUnits, LiveEarned, LiveDebt, TwiceUnits, LiveStatuses
<1>8. LiveUnits(old) + TwiceUnits(new) = old.qty
  <2>1. CASE old.status = "RETURNED"
    <3>1. new.status = "VOIDED" /\ new.returned
      BY <1>1, <1>2, <2>1 DEF Marked
    <3>2. LiveUnits(old) = 0 /\ TwiceUnits(new) = old.qty
      BY <1>2, <2>1, <3>1 DEF LiveUnits, TwiceUnits, LiveStatuses
    <3> QED BY <1>4, <3>2
  <2>2. CASE old.status \in LiveStatuses
    <3>1. ~(new.status = "VOIDED" /\ new.returned)
      BY <1>1, <1>2, <2>2 DEF Marked
    <3>2. LiveUnits(old) = old.qty /\ TwiceUnits(new) = 0
      BY <2>2, <3>1 DEF LiveUnits, TwiceUnits
    <3> QED BY <1>4, <3>2
  <2> QED BY <1>5, <2>1, <2>2
<1>9. LiveUnits(old) \in Int /\ TwiceUnits(new) \in Int
  BY <1>2, <1>4 DEF LiveUnits, TwiceUnits
<1>10. /\ LiveDebt(old) \in {0, old.remaining} /\ (~old.customer => LiveDebt(old) = 0)
       /\ LiveEarned(old) \in {0, old.earned} /\ (~old.customer => LiveEarned(old) = 0)
  BY <1>1 DEF LiveDebt, LiveEarned, Marked
<1>11. stock' + LiveUnits(new) - TwiceUnits(new) = stock + LiveUnits(old) - TwiceUnits(old)
  BY <1>2, <1>4, <1>7, <1>8, <1>9
<1>12. credit' <= AtLeast0(credit + LiveDebt(new) - LiveDebt(old))
  BY <1>3, <1>4, <1>7, <1>10 DEF AtLeast0
<1>13. points' <= AtLeast0(points + LiveEarned(new) - LiveEarned(old))
  BY <1>3, <1>4, <1>7, <1>10 DEF AtLeast0
<1> QED BY <1>6, <1>11, <1>12, <1>13 DEF MovesWith, old, new

LEMMA StepMoves ==
  ASSUME LedgerInv, RowsMarked, NEW i \in Invoices, Created(i) \/ Continued(i)
  PROVE  MovesWith(i)
BY SaleMoves, PayMoves, ReturnMoves, ReversalMoves DEF Continued
-----------------------------------------------------------------------------
\* The three sums, over the finitely many invoices that were issued.
SumsInv ==
  /\ IsFiniteSet(Issued) /\ RowsMarked
  /\ StockAccounted /\ CreditBacked /\ PointsBacked

\* The rows the sums are over are issued ones.
LEMMA SummedRows ==
  LedgerInv /\ IsFiniteSet(Issued) =>
    /\ IsFiniteSet(Live) /\ IsFiniteSet(RevokedTwice)
    /\ \A i \in Invoices :
         UnitsOut[i] \in Nat /\ Outstanding[i] \in Nat /\ Earned[i] \in Nat
<1> SUFFICES ASSUME LedgerInv, IsFiniteSet(Issued)
             PROVE  /\ IsFiniteSet(Live) /\ IsFiniteSet(RevokedTwice)
                    /\ \A i \in Invoices :
                         UnitsOut[i] \in Nat /\ Outstanding[i] \in Nat /\ Earned[i] \in Nat
  OBVIOUS
<1>1. Live \subseteq Issued /\ RevokedTwice \subseteq Issued
  BY DEF Live, RevokedTwice, Issued, LedgerInv, RowsOK, RowOK, Numbered, Invoice
<1>2. IsFiniteSet(Live) /\ IsFiniteSet(RevokedTwice)
  BY <1>1, FS_Subset
<1>3. \A i \in Invoices : UnitsOut[i] \in Nat /\ Outstanding[i] \in Nat /\ Earned[i] \in Nat
  BY DEF UnitsOut, Outstanding, Earned, LedgerInv, RowsOK, Invoice
<1> QED BY <1>2, <1>3

LEMMA SummedRowsNext ==
  (LedgerInv /\ IsFiniteSet(Issued) =>
    /\ IsFiniteSet(Live) /\ IsFiniteSet(RevokedTwice)
    /\ \A i \in Invoices :
         UnitsOut[i] \in Nat /\ Outstanding[i] \in Nat /\ Earned[i] \in Nat)'
BY SummedRows, PTL

\* A step changes one row, and so one term of each sum.
LEMMA SumsMove ==
  ASSUME LedgerInv, LedgerInv', IsFiniteSet(Issued), IsFiniteSet(Issued)',
         NEW i \in Invoices, Created(i) \/ Continued(i)
  PROVE  LET old == invoice[i]
             new == invoice'[i]
         IN
         /\ SumFunctionOnSet(UnitsOut, Live)'
              = SumFunctionOnSet(UnitsOut, Live) + LiveUnits(new) - LiveUnits(old)
         /\ SumFunctionOnSet(Outstanding, Live)'
              = SumFunctionOnSet(Outstanding, Live) + LiveDebt(new) - LiveDebt(old)
         /\ SumFunctionOnSet(Earned, Live)'
              = SumFunctionOnSet(Earned, Live) + LiveEarned(new) - LiveEarned(old)
         /\ SumFunctionOnSet(UnitsOut, RevokedTwice)'
              = SumFunctionOnSet(UnitsOut, RevokedTwice) + TwiceUnits(new) - TwiceUnits(old)
<1> DEFINE U == UnitsOut
           O == Outstanding
           E == Earned
           L == Live
           R == RevokedTwice
           U1 == UnitsOut'
           O1 == Outstanding'
           E1 == Earned'
           L1 == Live'
           R1 == RevokedTwice'
           old == invoice[i]
           new == invoice'[i]
<1>1. /\ IsFiniteSet(L) /\ IsFiniteSet(R) /\ IsFiniteSet(L1) /\ IsFiniteSet(R1)
      /\ \A j \in Invoices : U[j] \in Int /\ O[j] \in Int /\ E[j] \in Int
      /\ \A j \in Invoices : U1[j] \in Int /\ O1[j] \in Int /\ E1[j] \in Int
  BY SummedRows, SummedRowsNext
<1>2. L \subseteq Invoices /\ R \subseteq Invoices /\ L1 \subseteq Invoices /\ R1 \subseteq Invoices
  BY DEF Live, RevokedTwice
<1>3. \A j \in Invoices : j # i => invoice'[j] = invoice[j]
  BY OtherRows
<1>4. /\ \A j \in Invoices \ {i} : U[j] = U1[j] /\ O[j] = O1[j] /\ E[j] = E1[j]
      /\ L \ {i} = L1 \ {i} /\ R \ {i} = R1 \ {i}
  BY <1>3 DEF UnitsOut, Outstanding, Earned, Live, RevokedTwice
<1>5. /\ LiveUnits(old) = (IF i \in L THEN U[i] ELSE 0)
      /\ LiveUnits(new) = (IF i \in L1 THEN U1[i] ELSE 0)
      /\ LiveDebt(old) = (IF i \in L THEN O[i] ELSE 0)
      /\ LiveDebt(new) = (IF i \in L1 THEN O1[i] ELSE 0)
      /\ LiveEarned(old) = (IF i \in L THEN E[i] ELSE 0)
      /\ LiveEarned(new) = (IF i \in L1 THEN E1[i] ELSE 0)
      /\ TwiceUnits(old) = (IF i \in R THEN U[i] ELSE 0)
      /\ TwiceUnits(new) = (IF i \in R1 THEN U1[i] ELSE 0)
  BY DEF LiveUnits, LiveDebt, LiveEarned, TwiceUnits, LiveStatuses,
         UnitsOut, Outstanding, Earned, Live, RevokedTwice
<1> HIDE DEF U, O, E, L, R, U1, O1, E1, L1, R1
<1>6. SumFunctionOnSet(U1, L1) = SumFunctionOnSet(U, L) + (IF i \in L1 THEN U1[i] ELSE 0)
                                                       - (IF i \in L THEN U[i] ELSE 0)
  <2>1. \A j \in L : U[j] \in Int BY <1>1, <1>2
  <2>2. \A j \in L1 : U1[j] \in Int BY <1>1, <1>2
  <2>3. \A j \in L \ {i} : U[j] = U1[j] BY <1>2, <1>4
  <2> QED BY <1>1, <1>4, <2>1, <2>2, <2>3, SumOneTerm
<1>7. SumFunctionOnSet(O1, L1) = SumFunctionOnSet(O, L) + (IF i \in L1 THEN O1[i] ELSE 0)
                                                       - (IF i \in L THEN O[i] ELSE 0)
  <2>1. \A j \in L : O[j] \in Int BY <1>1, <1>2
  <2>2. \A j \in L1 : O1[j] \in Int BY <1>1, <1>2
  <2>3. \A j \in L \ {i} : O[j] = O1[j] BY <1>2, <1>4
  <2> QED BY <1>1, <1>4, <2>1, <2>2, <2>3, SumOneTerm
<1>8. SumFunctionOnSet(E1, L1) = SumFunctionOnSet(E, L) + (IF i \in L1 THEN E1[i] ELSE 0)
                                                       - (IF i \in L THEN E[i] ELSE 0)
  <2>1. \A j \in L : E[j] \in Int BY <1>1, <1>2
  <2>2. \A j \in L1 : E1[j] \in Int BY <1>1, <1>2
  <2>3. \A j \in L \ {i} : E[j] = E1[j] BY <1>2, <1>4
  <2> QED BY <1>1, <1>4, <2>1, <2>2, <2>3, SumOneTerm
<1>9. SumFunctionOnSet(U1, R1) = SumFunctionOnSet(U, R) + (IF i \in R1 THEN U1[i] ELSE 0)
                                                       - (IF i \in R THEN U[i] ELSE 0)
  <2>1. \A j \in R : U[j] \in Int BY <1>1, <1>2
  <2>2. \A j \in R1 : U1[j] \in Int BY <1>1, <1>2
  <2>3. \A j \in R \ {i} : U[j] = U1[j] BY <1>2, <1>4
  <2> QED BY <1>1, <1>4, <2>1, <2>2, <2>3, SumOneTerm
<1>10. /\ SumFunctionOnSet(UnitsOut, Live)' = SumFunctionOnSet(U1, L1)
       /\ SumFunctionOnSet(Outstanding, Live)' = SumFunctionOnSet(O1, L1)
       /\ SumFunctionOnSet(Earned, Live)' = SumFunctionOnSet(E1, L1)
       /\ SumFunctionOnSet(UnitsOut, RevokedTwice)' = SumFunctionOnSet(U1, R1)
  BY DEF U1, O1, E1, L1, R1
<1>11. /\ SumFunctionOnSet(UnitsOut, Live) = SumFunctionOnSet(U, L)
       /\ SumFunctionOnSet(Outstanding, Live) = SumFunctionOnSet(O, L)
       /\ SumFunctionOnSet(Earned, Live) = SumFunctionOnSet(E, L)
       /\ SumFunctionOnSet(UnitsOut, RevokedTwice) = SumFunctionOnSet(U, R)
  BY DEF U, O, E, L, R
<1> HIDE DEF old, new
<1>12. /\ SumFunctionOnSet(UnitsOut, Live)'
            = SumFunctionOnSet(UnitsOut, Live) + LiveUnits(new) - LiveUnits(old)
       /\ SumFunctionOnSet(Outstanding, Live)'
            = SumFunctionOnSet(Outstanding, Live) + LiveDebt(new) - LiveDebt(old)
       /\ SumFunctionOnSet(Earned, Live)'
            = SumFunctionOnSet(Earned, Live) + LiveEarned(new) - LiveEarned(old)
       /\ SumFunctionOnSet(UnitsOut, RevokedTwice)'
            = SumFunctionOnSet(UnitsOut, RevokedTwice) + TwiceUnits(new) - TwiceUnits(old)
  BY <1>5, <1>6, <1>7, <1>8, <1>9, <1>10, <1>11
<1> QED BY <1>12 DEF old, new

\* One sale issues one invoice.
LEMMA IssuedFinite ==
  ASSUME LedgerInv, IsFiniteSet(Issued), [Next]_vars
  PROVE  IsFiniteSet(Issued')
<1>1. CASE Quiet
  BY <1>1, QuietSteps DEF Issued
<1>2. ASSUME NEW i \in Invoices, Created(i) \/ Continued(i)
      PROVE  IsFiniteSet(Issued')
  <2>1. Issued' \subseteq Issued \cup {i}
    BY <1>2, OtherRows DEF Issued
  <2>2. IsFiniteSet(Issued \cup {i}) BY FS_AddElement
  <2> QED BY <2>1, <2>2, FS_Subset
<1> QED BY <1>1, <1>2, StepKinds

\* The customer routes lower credit and points, and touch no unit of stock.
LEMMA QuietSums ==
  ASSUME LedgerInv, SumsInv, IsFiniteSet(Issued'), Quiet
  PROVE  SumsInv'
<1>1. invoice' = invoice BY QuietSteps
<1>2. /\ UnitsOut' = UnitsOut /\ Outstanding' = Outstanding /\ Earned' = Earned
      /\ Live' = Live /\ RevokedTwice' = RevokedTwice
  BY <1>1 DEF UnitsOut, Outstanding, Earned, Live, RevokedTwice
<1>3. stock' = stock /\ credit' \in Int /\ credit' <= credit /\ points' \in Int /\ points' <= points
  BY QuietReleases
<1>4. RowsMarked' BY <1>1 DEF SumsInv, RowsMarked
<1>5. StockAccounted' BY <1>2, <1>3 DEF SumsInv, StockAccounted
<1>6. SumFunctionOnSet(Outstanding, Live) \in Int /\ SumFunctionOnSet(Earned, Live) \in Int
  <2>1. \A i \in Live : Outstanding[i] \in Int /\ Earned[i] \in Int
    BY SummedRows DEF SumsInv, Live
  <2>2. IsFiniteSet(Live) BY SummedRows DEF SumsInv
  <2> QED BY <2>1, <2>2, SumInt
<1>7. /\ SumFunctionOnSet(Outstanding, Live)' = SumFunctionOnSet(Outstanding, Live)
      /\ SumFunctionOnSet(Earned, Live)' = SumFunctionOnSet(Earned, Live)
  BY <1>2
<1>8. credit \in Int /\ points \in Int BY DEF LedgerInv, AccountOK
<1>9. CreditBacked' BY <1>3, <1>6, <1>7, <1>8 DEF SumsInv, CreditBacked
<1>10. PointsBacked' BY <1>3, <1>6, <1>7, <1>8 DEF SumsInv, PointsBacked
<1> QED BY <1>4, <1>5, <1>9, <1>10 DEF SumsInv

\* A step about an invoice moves both sides by the same, or the right one less.
LEMMA InvoiceSums ==
  ASSUME LedgerInv, LedgerInv', SumsInv, IsFiniteSet(Issued'),
         NEW i \in Invoices, Created(i) \/ Continued(i)
  PROVE  SumsInv'
<1> DEFINE old == invoice[i]
           new == invoice'[i]
           u  == SumFunctionOnSet(UnitsOut, Live)
           o  == SumFunctionOnSet(Outstanding, Live)
           e  == SumFunctionOnSet(Earned, Live)
           r  == SumFunctionOnSet(UnitsOut, RevokedTwice)
           u1 == SumFunctionOnSet(UnitsOut, Live)'
           o1 == SumFunctionOnSet(Outstanding, Live)'
           e1 == SumFunctionOnSet(Earned, Live)'
           r1 == SumFunctionOnSet(UnitsOut, RevokedTwice)'
<1>1. MovesWith(i) BY StepMoves DEF SumsInv
<1>2. IsFiniteSet(Issued) /\ RowsMarked BY DEF SumsInv
<1>3. RowsMarked'
  BY <1>1, <1>2, OtherRows DEF RowsMarked, MovesWith
<1>4. /\ u1 = u + LiveUnits(new) - LiveUnits(old)
      /\ o1 = o + LiveDebt(new) - LiveDebt(old)
      /\ e1 = e + LiveEarned(new) - LiveEarned(old)
      /\ r1 = r + TwiceUnits(new) - TwiceUnits(old)
  BY <1>2, SumsMove
<1>5. u \in Int /\ o \in Int /\ e \in Int /\ r \in Int
  <2>1. /\ \A j \in Live : UnitsOut[j] \in Int /\ Outstanding[j] \in Int /\ Earned[j] \in Int
        /\ \A j \in RevokedTwice : UnitsOut[j] \in Int
    BY <1>2, SummedRows DEF Live, RevokedTwice
  <2>2. IsFiniteSet(Live) /\ IsFiniteSet(RevokedTwice) BY <1>2, SummedRows
  <2> QED BY <2>1, <2>2, SumInt
<1>6. o1 \in Nat /\ e1 \in Nat
  <2> DEFINE O1 == Outstanding'
             E1 == Earned'
             L1 == Live'
  <2>1. IsFiniteSet(L1) /\ \A j \in L1 : O1[j] \in Nat /\ E1[j] \in Nat
    BY SummedRowsNext DEF Live
  <2>2. o1 = SumFunctionOnSet(O1, L1) /\ e1 = SumFunctionOnSet(E1, L1)
    OBVIOUS
  <2> HIDE DEF O1, E1, L1, o1, e1
  <2> QED BY <2>1, <2>2, SumNat
<1>7. /\ stock' + LiveUnits(new) - TwiceUnits(new) = stock + LiveUnits(old) - TwiceUnits(old)
      /\ credit' <= AtLeast0(credit + LiveDebt(new) - LiveDebt(old))
      /\ points' <= AtLeast0(points + LiveEarned(new) - LiveEarned(old))
  BY <1>1 DEF MovesWith
<1>8. /\ LiveUnits(old) \in Int /\ LiveDebt(old) \in Int /\ LiveEarned(old) \in Int
      /\ TwiceUnits(old) \in Int
      /\ LiveUnits(new) \in Int /\ LiveDebt(new) \in Int /\ LiveEarned(new) \in Int
      /\ TwiceUnits(new) \in Int
  <2>1. old \in Invoice /\ new \in Invoice BY DEF LedgerInv, RowsOK
  <2> QED BY <2>1 DEF LiveUnits, LiveDebt, LiveEarned, TwiceUnits, Invoice
<1>9. /\ stock \in Int /\ stock' \in Int /\ Stock0 \in Int
      /\ credit \in Int /\ credit' \in Int /\ points \in Int /\ points' \in Int
  BY LedgerAssumption DEF LedgerInv, AccountOK
<1>10. stock + u = Stock0 + r /\ credit <= o /\ points <= e
  BY DEF SumsInv, StockAccounted, CreditBacked, PointsBacked
<1> HIDE DEF old, new, u, o, e, r, u1, o1, e1, r1
<1>11. stock' + u1 = Stock0 + r1
  BY <1>4, <1>5, <1>7, <1>8, <1>9, <1>10
<1>12. credit' <= o1
  BY <1>4, <1>5, <1>6, <1>7, <1>8, <1>9, <1>10 DEF AtLeast0
<1>13. points' <= e1
  BY <1>4, <1>5, <1>6, <1>7, <1>8, <1>9, <1>10 DEF AtLeast0
<1>14. StockAccounted' BY <1>11 DEF StockAccounted, u1, r1
<1>15. CreditBacked' BY <1>12 DEF CreditBacked, o1
<1>16. PointsBacked' BY <1>13 DEF PointsBacked, e1
<1> QED BY <1>3, <1>14, <1>15, <1>16 DEF SumsInv

\* The sums hold together, whatever steps on whatever invoices led there.
THEOREM SumsInvariant == Spec => [](LedgerInv /\ SumsInv)
<1>1. Init => LedgerInv /\ SumsInv
  <2> SUFFICES ASSUME Init PROVE SumsInv
    BY InitLedger
  <2>1. Issued = {} /\ Live = {} /\ RevokedTwice = {}
    BY DEF Init, NoInvoice, Issued, Live, RevokedTwice
  <2>2. IsFiniteSet(Issued) BY <2>1, FS_EmptySet
  <2>3. RowsMarked BY DEF Init, NoInvoice, RowsMarked, Marked, LiveStatuses
  <2>4. \A f : SumFunctionOnSet(f, Live) = 0 /\ SumFunctionOnSet(f, RevokedTwice) = 0
    BY <2>1, SumEmpty
  <2>5. StockAccounted /\ CreditBacked /\ PointsBacked
    BY <2>4, LedgerAssumption DEF Init, StockAccounted, CreditBacked, PointsBacked
  <2> QED BY <2>2, <2>3, <2>5 DEF SumsInv
<1>2. ASSUME LedgerInv, SumsInv, [Next]_vars PROVE (LedgerInv /\ SumsInv)'
  <2>1. LedgerInv' BY <1>2, NextLedger
  <2>2. IsFiniteSet(Issued') BY <1>2, IssuedFinite DEF SumsInv
  <2> QED BY <1>2, <2>1, <2>2, QuietSums, InvoiceSums, StepKinds
<1> QED BY <1>1, <1>2, PTL DEF Spec

\* Every unit is on the shelf, on a live invoice, or on the shelf a second time
\* because an invoice was voided after its full return.
THEOREM StockIsAccounted == Spec => []StockAccounted
<1>1. SumsInv => StockAccounted BY DEF SumsInv
<1> QED BY <1>1, SumsInvariant, PTL

\* Credit in use never exceeds what the customer's live invoices leave unpaid.
THEOREM CreditIsBacked == Spec => []CreditBacked
<1>1. SumsInv => CreditBacked BY DEF SumsInv
<1> QED BY <1>1, SumsInvariant, PTL

\* Points the customer holds were earned by invoices that are still live.
THEOREM PointsAreBacked == Spec => []PointsBacked
<1>1. SumsInv => PointsBacked BY DEF SumsInv
<1> QED BY <1>1, SumsInvariant, PTL
=============================================================================
