--------------------------- MODULE InvoiceLedger ---------------------------
(***************************************************************************)
(* The invoice life cycle of the REST server (server/routes/invoices.js):  *)
(* sale, later payment, void, partial and full return, together with the   *)
(* customer account those handlers write (credit_used, wallet_balance,     *)
(* loyalty_points), the customer routes that write it too                  *)
(* (server/routes/customers.js) and the fiscal years that gate posting     *)
(* (server/routes/fiscal.js).                                              *)
(*                                                                         *)
(* Every handler runs to its end without awaiting and writes in one SQLite *)
(* transaction, so every handler is one action.  A request the code        *)
(* answers with an error changes nothing and is a stuttering step, and so  *)
(* is a sale whose idempotency key the handler's lookup knows.  What       *)
(* another server process on the same database file does between a         *)
(* handler's reads and its transaction is modelled for that lookup only    *)
(* (DuplicateSale).                                                        *)
(*                                                                         *)
(* Amounts are integers in minor units (0.01 of the currency), as in       *)
(* lib/money.js, and the handlers' 0.01 tolerances are Tolerance.          *)
(* Quantities and stock are integers in 1/Grain of a unit.  An invoice has *)
(* one line, of one product in one warehouse.                              *)
(***************************************************************************)
EXTENDS Integers, FiniteSetsExt

CONSTANTS
  Invoices,     \* the invoice rows a behaviour may create
  LastYear,     \* calendar years and fiscal year codes are 1..LastYear
  LastPeriod,   \* bound: the clock stops in this half year
  CustomYears,  \* <<first, last>> half years an admin may give a fiscal year
  Processes,    \* server processes with the database file open
  Grain,        \* quantities are counted in 1/Grain of a unit
  Quantities,   \* line quantities a sale may ask for
  Price,        \* unit price of the product
  LineDiscounts,\* line discounts a sale may ask for
  TaxRate,      \* tax rate of the line, in percent
  TaxInclusive, \* business setting tax_inclusive: prices contain the tax
  Discounts,    \* manual invoice discounts a sale may ask for
  Amounts,      \* amounts a tender, a payment or an adjustment may have
  StockMode,    \* business setting stock_control: "strict", "warn" or "off"
  Stock0,       \* stock_levels.qty at the start
  Reserved,     \* stock_levels.reserved_qty
  Wallet0,      \* the customer's opening wallet balance
  WalletCap,    \* bound: manual credits stop here
  CreditLimit,  \* customers.credit_limit, 0 = unlimited
  PointEvery,   \* units of sale that earn one loyalty point
  PointValue,   \* wallet units one redeemed point is worth
  CreditReturns \* values of creditToWallet: FALSE, and TRUE by the method router

ASSUME LedgerAssumption ==
  /\ LastYear \in Nat \ {0}
  /\ LastPeriod \in 1..(2 * LastYear)
  /\ CustomYears \subseteq {r \in (1..(2 * LastYear)) \X (1..(2 * LastYear)) : r[1] <= r[2]}
  /\ Processes \in Nat \ {0}
  /\ Grain \in Nat \ {0}
  /\ Quantities \subseteq Nat \ {0}
  /\ Price \in Nat \ {0}
  /\ LineDiscounts \subseteq Nat
  /\ TaxRate \in 0..100
  /\ TaxInclusive \in BOOLEAN
  /\ Discounts \subseteq Nat
  /\ Amounts \subseteq Nat
  /\ StockMode \in {"strict", "warn", "off"}
  /\ Stock0 \in Int
  /\ Reserved \in Nat
  /\ Wallet0 \in Nat
  /\ WalletCap \in Nat
  /\ CreditLimit \in Nat
  /\ PointEvery \in Nat \ {0}
  /\ PointValue \in Nat
  /\ CreditReturns \subseteq BOOLEAN

VARIABLES
  invoice,  \* invoices, invoice_items, payments and the ledger rows about them
  stock,    \* stock_levels.qty of the product
  credit,   \* customers.credit_used
  wallet,   \* customers.wallet_balance
  points,   \* customers.loyalty_points
  seq,      \* invoice_sequences.last_number, per fiscal year code
  burnt,    \* history: numbers that duplicates of an invoice's sale took
  years,    \* fiscal_years, by code
  now       \* the half year the server's clock is in

account == <<credit, wallet, points>>
numbers == <<seq, burnt>>
fiscal  == <<years, now>>
vars    == <<invoice, stock, account, numbers, fiscal>>

Tolerance == 1          \* 0.01 of the currency

(***************************************************************************)
(* Time is counted in half years, the grain at which a fiscal year that is *)
(* not a calendar year differs from one.                                   *)
(***************************************************************************)
Years            == 1..LastYear
Periods          == 1..(2 * LastYear)
CalendarYear(p)  == (p + 1) \div 2
CalendarRange(y) == <<2 * y - 1, 2 * y>>
FiscalYear       == [status: {"ABSENT", "OPEN", "CLOSED"}, from: Periods, to: Periods]

Statuses == {"NONE", "UNPAID", "PARTIAL", "PAID", "RETURNED", "VOIDED"}

(***************************************************************************)
(* One invoice.  "NONE" is a row not yet inserted.  lineDiscount is the    *)
(* discount of its line, gross is subtotal plus tax_amount, before the     *)
(* invoice's own discount.  cash, card, walletPaid                         *)
(* and refund are the sums of its payments rows by method (refund is the   *)
(* magnitude of the negative REFUND rows); debited and credited are the    *)
(* sums of its wallet_transactions rows by direction; earned is the sum of *)
(* its EARN and RETURN_PARTIAL loyalty rows; returned says returned_at is  *)
(* set; created is the period of created_at and year the fiscal year code  *)
(* in its number.                                                          *)
(***************************************************************************)
Invoice ==
  [ status: Statuses, customer: BOOLEAN,
    created: Periods, year: Years, number: Nat,
    qty: Nat, returnedQty: Nat, lineDiscount: Nat, gross: Nat, discount: Nat,
    total: Nat, paid: Nat, remaining: Nat,
    cash: Nat, card: Nat, walletPaid: Nat, refund: Nat,
    debited: Nat, credited: Nat, earned: Nat, returned: BOOLEAN ]

NoInvoice ==
  [ status |-> "NONE", customer |-> FALSE,
    created |-> 1, year |-> 1, number |-> 0,
    qty |-> 0, returnedQty |-> 0, lineDiscount |-> 0, gross |-> 0, discount |-> 0,
    total |-> 0, paid |-> 0, remaining |-> 0,
    cash |-> 0, card |-> 0, walletPaid |-> 0, refund |-> 0,
    debited |-> 0, credited |-> 0, earned |-> 0, returned |-> FALSE ]

Methods == {"CASH", "CARD", "WALLET"}
Tenders == [cash: Amounts, card: Amounts, wallet: Amounts]

TypeOK ==
  /\ invoice \in [Invoices -> Invoice]
  /\ stock \in Int
  /\ credit \in Nat
  /\ wallet \in Int /\ wallet >= -Tolerance
  /\ points \in Nat
  /\ seq \in [Years -> Nat]
  /\ burnt \in [Invoices -> SUBSET Nat]
  /\ years \in [Years -> FiscalYear]
  /\ now \in Periods

Init ==
  /\ invoice = [i \in Invoices |-> NoInvoice]
  /\ stock = Stock0
  /\ credit = 0
  /\ wallet = Wallet0
  /\ points = 0
  /\ seq = [y \in Years |-> 0]
  /\ burnt = [i \in Invoices |-> {}]
  /\ years = [y \in Years |-> [status |-> "ABSENT", from |-> 1, to |-> 1]]
  /\ now = 1
-----------------------------------------------------------------------------
Lesser(a, b)  == IF a <= b THEN a ELSE b
Unclamped(a)  == a                                                  \* mutant
AtLeast0(a)   == IF a < 0 THEN 0 ELSE a           \* SQL MAX(0, a)
RoundDiv(a, b) == (2 * a + b) \div (2 * b)        \* Math.round(a / b), a >= 0

\* The status a sale is stored with.
UnpaidFirst(paid, total) ==                                          \* mutant
  CASE paid <= Tolerance         -> "UNPAID"
    [] total - paid <= Tolerance -> "PAID"
    [] OTHER                     -> "PARTIAL"
Settlement(paid, total) ==
  CASE total - paid <= Tolerance -> "PAID"
    [] total - paid > Tolerance /\ paid <= Tolerance -> "UNPAID"
    [] OTHER                     -> "PARTIAL"

\* decrementStock: only strict mode can refuse a line.
StockAllows(q) ==
  StockMode = "strict" => stock >= 0 /\ stock - q >= Reserved

\* A sale on account, for which the customer's credit_used is charged.
OnAccount(customer, remaining) == customer /\ remaining > Tolerance

\* A sale on account must fit the limit, when the customer has one.
CreditIgnoresThisSale(customer, remaining) ==                        \* mutant
  OnAccount(customer, remaining) /\ CreditLimit > 0 => credit <= CreditLimit
CreditAllows(customer, remaining) ==
  OnAccount(customer, remaining) /\ CreditLimit > 0 =>
    credit + remaining - CreditLimit <= Tolerance

\* deductWallet: a wallet tender needs a customer and the whole amount.
WalletAllows(customer, a) == a > 0 => customer /\ wallet >= a - Tolerance

\* ensureOpenFiscalYear: the fiscal year named after the calendar year of
\* the invoice's created_at.
ClockYearOpen(inv) == years[CalendarYear(now)].status # "CLOSED"     \* mutant
YearOpen(inv)      == years[CalendarYear(inv.created)].status # "CLOSED"

\* Either gate inserts a year that is missing, OPEN with calendar dates.
Provisioned(y) ==
  IF years[y].status = "ABSENT"
    THEN [years EXCEPT ![y] = [status |-> "OPEN", from |-> CalendarRange(y)[1],
                                                  to   |-> CalendarRange(y)[2]]]
    ELSE years

\* ensureOpenFiscalPeriod: the year whose dates cover today, the latest to
\* start if several do, and else the one named after the calendar year.
Covering  == {y \in Years : /\ years[y].status # "ABSENT"
                            /\ years[y].from <= now /\ now <= years[y].to}
LatestCovering ==
  CHOOSE y \in Covering :
    \A z \in Covering : \/ years[z].from < years[y].from
                        \/ years[z].from = years[y].from /\ z <= y
PostingYear == IF Covering = {} THEN CalendarYear(now) ELSE LatestCovering
PeriodOpen  == Covering # {} => years[PostingYear].status = "OPEN"
PostingYears == IF Covering = {} THEN Provisioned(PostingYear) ELSE years

\* Which invoices a payment may still reach.
PayableUnlessPaid(inv) == inv.status \notin {"NONE", "PAID", "VOIDED"}  \* mutant
Payable(inv) == inv.status \notin {"NONE", "PAID", "VOIDED", "RETURNED"}

\* The sequence number a sale of year y takes.
NumberByCount(y) ==                                                  \* mutant
  1 + Cardinality({i \in Invoices : /\ invoice[i].status \notin {"NONE", "VOIDED"}
                                    /\ invoice[i].year = y})
NextNumber(y) == seq[y] + 1

\* The units a reversal puts back on the shelf: partial returns shrank qty.
SoldUnits(inv)     == inv.qty + inv.returnedQty                      \* mutant
RestoredUnits(inv) == inv.qty

\* The credit a payment releases: old outstanding minus new outstanding.
ReleasedWhenSettled(inv, remaining) ==                               \* mutant
  IF remaining = 0 THEN inv.remaining ELSE 0
Released(inv, remaining) == AtLeast0(inv.remaining - remaining)

\* Points left after reversing what the invoice's loyalty rows sum to.
PointsKept(inv)          == points                                   \* mutant
PointsAfterReversal(inv) == AtLeast0(points - inv.earned)

\* computeLineMinor: qty * price and the tax are rounded each on its own, and
\* the line discount is clamped to the rounded qty * price.
Rounded(q)      == RoundDiv(q * Price, Grain)
LineGross(q, d) == Rounded(q) - Lesser(d, Rounded(q))
WithTax(a)      == IF TaxInclusive THEN a ELSE a + RoundDiv(a * TaxRate, 100)
LineTotal(q, d) == WithTax(LineGross(q, d))

\* The line discount that stays on a line of which only q is left.
LineDiscountKept(inv, q) == RoundDiv(inv.lineDiscount * q, inv.qty)

\* The manual discount that stays on an invoice whose gross changes.
DiscountDropped(inv, gross) == 0                                     \* mutant
ProRated(inv, gross) ==
  IF inv.gross > 0 THEN Lesser(RoundDiv(inv.discount * gross, inv.gross), gross)
                   ELSE 0

\* What a partial return pays out as a REFUND row, after the wallet's share.
WholeOverpayment(overpaid, credited) == overpaid                     \* mutant
RefundRow(overpaid, credited)        == overpaid - credited
-----------------------------------------------------------------------------
(***************************************************************************)
(* POST /api/invoices.  t is what the payments list sums to by method; the *)
(* code walks the list and refuses a non-cash tender above what is still   *)
(* owed, so what any accepted list can sum to is exactly card + wallet at  *)
(* most the total.  An empty list is a cash tender of the total.           *)
(***************************************************************************)
Sale(i, q, ld, customer, d, t) ==
  LET line      == Lesser(ld, Rounded(q))
      gross     == LineTotal(q, line)
      discount  == Lesser(d, gross)
      total     == gross - discount
      paid      == Lesser(t.cash + t.card + t.wallet, total)
      remaining == total - paid
      status    == Settlement(paid, total)
      pts       == IF customer /\ status = "PAID" THEN total \div PointEvery ELSE 0
  IN
  /\ invoice[i].status = "NONE"
  /\ PeriodOpen
  /\ StockAllows(q)
  /\ t.card + t.wallet <= total
  /\ WalletAllows(customer, t.wallet)
  /\ CreditAllows(customer, remaining)
  /\ seq' = [seq EXCEPT ![PostingYear] = @ + 1]
  /\ invoice' = [invoice EXCEPT ![i] =
       [ status |-> status, customer |-> customer,
         created |-> now, year |-> PostingYear, number |-> NextNumber(PostingYear),
         qty |-> q, returnedQty |-> 0, lineDiscount |-> line,
         gross |-> gross, discount |-> discount,
         total |-> total, paid |-> paid, remaining |-> remaining,
         cash |-> t.cash, card |-> t.card, walletPaid |-> t.wallet, refund |-> 0,
         debited |-> t.wallet, credited |-> 0, earned |-> pts,
         returned |-> FALSE ]]
  /\ stock'  = stock - q
  /\ credit' = IF OnAccount(customer, remaining) THEN credit + remaining ELSE credit
  /\ wallet' = wallet - t.wallet
  /\ points' = points + pts
  /\ years'  = PostingYears
  /\ UNCHANGED <<burnt, now>>

(***************************************************************************)
(* POST /api/invoices, sent again while another process stores invoice i:  *)
(* the lookup of the idempotency key came before i was inserted and the    *)
(* transaction comes after.  The INSERT meets the unique index, the        *)
(* handler answers { deduped: true } from inside the transaction, and this *)
(* commits with the number taken, in the fiscal year both were posted to.  *)
(* A process holds one such request at a time, so there is at most one for *)
(* each process but the one that sold.                                     *)
(***************************************************************************)
DuplicateSale(i) ==
  LET y == invoice[i].year IN
  /\ invoice[i].status # "NONE"
  /\ Cardinality(burnt[i]) + 1 < Processes
  /\ seq'   = [seq EXCEPT ![y] = @ + 1]
  /\ burnt' = [burnt EXCEPT ![i] = @ \cup {NextNumber(y)}]
  /\ UNCHANGED <<invoice, stock, account, fiscal>>

(***************************************************************************)
(* POST /api/invoices/:id/pay.  A wallet payment is capped at what is      *)
(* owed, any other tender is recorded in full and the excess is change.    *)
(***************************************************************************)
Pay(i, method, a) ==
  LET inv       == invoice[i]
      recorded  == IF method = "WALLET" THEN Lesser(a, inv.total - inv.paid) ELSE a
      debit     == IF method = "WALLET" THEN recorded ELSE 0
      paid      == Lesser(inv.paid + recorded, inv.total)
      remaining == inv.total - paid
  IN
  /\ a > 0
  /\ Payable(inv)
  /\ YearOpen(inv)
  /\ WalletAllows(inv.customer, debit)
  /\ invoice' = [invoice EXCEPT ![i] =
       [inv EXCEPT
         !.status     = IF remaining <= Tolerance THEN "PAID" ELSE "PARTIAL",
         !.paid       = paid,
         !.remaining  = remaining,
         !.cash       = IF method = "CASH" THEN @ + recorded ELSE @,
         !.card       = IF method = "CARD" THEN @ + recorded ELSE @,
         !.walletPaid = @ + debit,
         !.debited    = @ + debit]]
  /\ credit' = IF inv.customer THEN AtLeast0(credit - Released(inv, remaining))
                               ELSE credit
  /\ wallet' = wallet - debit
  /\ years'  = Provisioned(CalendarYear(inv.created))
  /\ UNCHANGED <<stock, points, numbers, now>>

(***************************************************************************)
(* What void and full return share: the customer's loyalty, credit and     *)
(* wallet-paid money are reversed from the invoice's own ledger rows.      *)
(***************************************************************************)
ReverseAccount(inv) ==
  /\ points' = PointsAfterReversal(inv)
  /\ credit' = AtLeast0(credit - inv.remaining)
  /\ wallet' = wallet + inv.walletPaid

\* POST /api/invoices/:id/void.
Void(i) ==
  LET inv == invoice[i] IN
  /\ inv.status \notin {"NONE", "VOIDED"}
  /\ YearOpen(inv)
  /\ stock' = stock + RestoredUnits(inv)
  /\ IF inv.customer THEN ReverseAccount(inv) ELSE UNCHANGED account
  /\ invoice' = [invoice EXCEPT ![i] =
       [inv EXCEPT !.status   = "VOIDED",
                   !.credited = IF inv.customer THEN @ + inv.walletPaid ELSE @]]
  /\ years' = Provisioned(CalendarYear(inv.created))
  /\ UNCHANGED <<numbers, now>>

(***************************************************************************)
(* POST /api/invoices/:id/return without items.  The account is reversed   *)
(* for a settled invoice only.  No caller combines a full return with      *)
(* creditToWallet, so that branch is not reached.                          *)
(***************************************************************************)
FullReturn(i) ==
  LET inv      == invoice[i]
      reversed == inv.customer /\ inv.status \in {"PAID", "PARTIAL"}
  IN
  /\ inv.status \notin {"NONE", "VOIDED", "RETURNED", "UNPAID"}
  /\ YearOpen(inv)
  /\ stock' = stock + RestoredUnits(inv)
  /\ IF reversed THEN ReverseAccount(inv) ELSE UNCHANGED account
  /\ invoice' = [invoice EXCEPT ![i] =
       [inv EXCEPT !.status   = "RETURNED",
                   !.returned = TRUE,
                   !.credited = IF reversed THEN @ + inv.walletPaid ELSE @]]
  /\ years' = Provisioned(CalendarYear(inv.created))
  /\ UNCHANGED <<numbers, now>>

(***************************************************************************)
(* POST /api/invoices/:id/return with items: q comes back.  The line is    *)
(* computed anew for what is left, with the line discount pro-rated and    *)
(* rounded first, and the manual discount is pro-rated over the new gross; *)
(* what is then overpaid goes to the wallet up to the invoice's WALLET     *)
(* payments, and the rest to the wallet again (creditToWallet, method      *)
(* router only) or out as a REFUND row.  The line discount is stored as    *)
(* rounded, before the clamp that the computation applies to it.           *)
(***************************************************************************)
PartialReturn(i, q, creditToWallet) ==
  LET inv       == invoice[i]
      line      == LineDiscountKept(inv, inv.qty - q)
      gross     == LineTotal(inv.qty - q, line)
      discount  == ProRated(inv, gross)
      total     == gross - discount
      paid      == Lesser(inv.paid, total)
      remaining == total - paid
      overpaid  == inv.paid - paid
      toWallet  == IF inv.customer THEN Lesser(inv.walletPaid, overpaid) ELSE 0
      rest      == overpaid - toWallet
      credited  == toWallet + (IF creditToWallet /\ inv.customer THEN rest ELSE 0)
      lost      == IF inv.customer
                     THEN AtLeast0(inv.earned - total \div PointEvery) ELSE 0
  IN
  /\ inv.status \notin {"NONE", "VOIDED", "RETURNED", "UNPAID"}
  /\ YearOpen(inv)
  /\ q \in 1..inv.qty
  /\ stock' = stock + q
  /\ wallet' = wallet + credited
  /\ credit' = IF inv.customer THEN AtLeast0(credit + remaining - inv.remaining)
                               ELSE credit
  /\ points' = AtLeast0(points - lost)
  /\ invoice' = [invoice EXCEPT ![i] =
       [inv EXCEPT
         !.status      = IF remaining <= Tolerance THEN "PAID" ELSE "PARTIAL",
         !.qty         = @ - q,
         !.returnedQty = @ + q,
         !.lineDiscount = line,
         !.gross       = gross,
         !.discount    = discount,
         !.total       = total,
         !.paid        = paid,
         !.remaining   = remaining,
         !.refund      = @ + RefundRow(overpaid, credited),
         !.credited    = @ + credited,
         !.earned      = @ - lost]]
  /\ years' = Provisioned(CalendarYear(inv.created))
  /\ UNCHANGED <<numbers, now>>
-----------------------------------------------------------------------------
\* POST /api/customers/:id/wallet with direction credit (bounded by WalletCap).
WalletCredit(a) ==
  /\ a > 0 /\ wallet + a <= WalletCap
  /\ wallet' = wallet + a
  /\ UNCHANGED <<invoice, stock, credit, points, numbers, fiscal>>

\* POST /api/customers/:id/wallet with direction debit.
WalletDebit(a) ==
  /\ a > 0 /\ wallet - a >= -Tolerance
  /\ wallet' = wallet - a
  /\ UNCHANGED <<invoice, stock, credit, points, numbers, fiscal>>

\* POST /api/customers/:id/loyalty/redeem.
Redeem(p) ==
  /\ p > 0 /\ p <= points
  /\ points' = points - p
  /\ wallet' = wallet + p * PointValue
  /\ UNCHANGED <<invoice, stock, credit, numbers, fiscal>>

\* POST /api/customers/:id/credit/pay: settles the account, not an invoice.
CreditPay(a) ==
  /\ a > 0 /\ credit > Tolerance
  /\ credit' = credit - Lesser(a, credit)
  /\ UNCHANGED <<invoice, stock, wallet, points, numbers, fiscal>>

\* POST /api/fiscal-years: a new year, with calendar dates or its own.
OpenYear(y, range) ==
  /\ years[y].status = "ABSENT"
  /\ years' = [years EXCEPT ![y] =
       [status |-> "OPEN", from |-> range[1], to |-> range[2]]]
  /\ UNCHANGED <<invoice, stock, account, numbers, now>>

\* POST /api/fiscal-years/:code/close and /reopen.
CloseYear(y)  == /\ years[y].status = "OPEN"
                 /\ years' = [years EXCEPT ![y].status = "CLOSED"]
                 /\ UNCHANGED <<invoice, stock, account, numbers, now>>
ReopenYear(y) == /\ years[y].status = "CLOSED"
                 /\ years' = [years EXCEPT ![y].status = "OPEN"]
                 /\ UNCHANGED <<invoice, stock, account, numbers, now>>

\* The sale gate provisions before the sale's transaction, so a sale refused
\* later leaves the year behind.
RefusedSale   == /\ Covering = {}
                 /\ years' = PostingYears
                 /\ UNCHANGED <<invoice, stock, account, numbers, now>>

NewPeriod     == /\ now < LastPeriod
                 /\ now' = now + 1
                 /\ UNCHANGED <<invoice, stock, account, numbers, years>>
-----------------------------------------------------------------------------
SaleStep(i) ==
  \E q \in Quantities, ld \in LineDiscounts, customer \in BOOLEAN,
     d \in Discounts, t \in Tenders :
    Sale(i, q, ld, customer, d, t)

LaterStep(i) ==
  \/ \E method \in Methods, a \in Amounts : Pay(i, method, a)
  \/ Void(i)
  \/ FullReturn(i)
  \/ \E q \in 1..invoice[i].qty, c \in CreditReturns : PartialReturn(i, q, c)

InvoiceStep(i) == SaleStep(i) \/ LaterStep(i)

DuplicateStep == \E i \in Invoices : DuplicateSale(i)

AccountStep ==
  \/ \E a \in Amounts : WalletCredit(a) \/ WalletDebit(a) \/ CreditPay(a)
  \/ \E p \in 1..points : Redeem(p)

FiscalStep ==
  \/ \E y \in Years : \/ \E r \in {CalendarRange(y)} \cup CustomYears : OpenYear(y, r)
                      \/ CloseYear(y)
                      \/ ReopenYear(y)
  \/ RefusedSale
  \/ NewPeriod

Next ==
  \/ \E i \in Invoices : InvoiceStep(i)
  \/ DuplicateStep
  \/ AccountStep
  \/ FiscalStep

Spec == Init /\ [][Next]_vars
-----------------------------------------------------------------------------
Live   == {i \in Invoices : invoice[i].status \in {"UNPAID", "PARTIAL", "PAID"}}
Issued == {i \in Invoices : invoice[i].number > 0}

Outstanding == [i \in Invoices |-> IF invoice[i].customer THEN invoice[i].remaining ELSE 0]
UnitsOut    == [i \in Invoices |-> invoice[i].qty]
Earned      == [i \in Invoices |-> invoice[i].earned]

\* Units an invoice handed back twice: it was returned whole and then voided.
RevokedTwice == {i \in Invoices : invoice[i].status = "VOIDED" /\ invoice[i].returned}

\* What was tendered for an invoice, by payments rows, and what went back.
TenderedFor(inv) == inv.cash + inv.card + inv.walletPaid
ReturnedTo(inv)  == inv.refund + inv.credited

(* Every invoice splits its total into paid and remaining, and its status  *)
(* says which of the two is nil, whatever sequence of part payments and    *)
(* part returns with pro-rated discounts led there (routes/invoices.js     *)
(* recomputes the three amounts in create, pay and return separately).     *)
(* Only a part return leaves an invoice PARTIAL of which nothing is paid.  *)
SettlementAgrees ==
  \A i \in Invoices :
    LET inv == invoice[i] IN
    /\ inv.paid + inv.remaining = inv.total
    /\ inv.status = "PAID" => inv.remaining <= Tolerance
    /\ inv.status = "UNPAID" => inv.paid <= Tolerance /\ inv.remaining > Tolerance
    /\ inv.status = "PARTIAL" =>
         inv.remaining > Tolerance /\ (inv.paid > 0 \/ inv.returnedQty > 0)

(* While an invoice is live, what it still shows as paid and what its      *)
(* partial returns gave back, to the wallet or out of the drawer, never    *)
(* exceed what was tendered for it, however payments, change and partial   *)
(* returns alternate (routes/invoices.js:1177-1206 splits each refund).    *)
RefundsCovered ==
  \A i \in Live :
    invoice[i].paid + ReturnedTo(invoice[i]) <= TenderedFor(invoice[i])

\* What rounding may add to an invoice of which a part comes back: the line
\* discount and the line are rounded apart, and an exclusive tax once more.
RoundingSlack(inv) ==
  CASE inv.lineDiscount = 0 -> 0
    [] inv.lineDiscount > 0 /\ TaxInclusive -> 1
    [] OTHER -> 2

(* A return costs the customer no money but what rounding adds: whatever    *)
(* was discounted and however often parts came back before, it raises       *)
(* neither what the invoice comes to nor what is still owed on it, except   *)
(* by one minor unit on a line with a discount, and by one more if tax      *)
(* comes on top (routes/invoices.js:1156-1179 computes the line anew).      *)
ReturnRaisesDebtByRoundingOnly ==
  [][\A i \in Invoices :
       invoice'[i].returnedQty > invoice[i].returnedQty =>
         /\ invoice'[i].total <= invoice[i].total + RoundingSlack(invoice[i])
         /\ invoice'[i].remaining
              <= invoice[i].remaining + RoundingSlack(invoice[i])]_vars

(* Every unit is on the shelf or on a live invoice, except for the units   *)
(* of an invoice voided after its full return: those are on the shelf      *)
(* twice.  This is what void, full and partial return do to stock_levels   *)
(* together, each restoring the current line quantity.                     *)
StockAccounted ==
  stock + SumFunctionOnSet(UnitsOut, Live)
    = Stock0 + SumFunctionOnSet(UnitsOut, RevokedTwice)

(* The customer is never charged for more credit than its live invoices    *)
(* have outstanding: the clamped MAX(0, ...) updates of five handlers err  *)
(* in one direction only.                                                  *)
CreditBacked == credit <= SumFunctionOnSet(Outstanding, Live)

(* Nothing charges the customer beyond a positive credit_limit, although    *)
(* only the sale handler looks at it, except that a return may add what     *)
(* rounding adds to its invoice.                                            *)
CreditWithinLimit ==
  [][CreditLimit > 0 /\ credit' > credit =>
       \/ credit' <= CreditLimit + Tolerance
       \/ \E i \in Invoices : /\ invoice'[i].returnedQty > invoice[i].returnedQty
                              /\ credit' <= credit + RoundingSlack(invoice[i])]_vars

(* Loyalty points the customer holds were earned by live invoices: no      *)
(* interleaving of redemption, partial return and reversal leaves points   *)
(* that a reversed invoice earned.                                         *)
PointsBacked == points <= SumFunctionOnSet(Earned, Live)

(* Invoice numbers are unique per fiscal year, no reversal frees one, and   *)
(* the only gaps are numbers that duplicates of a sale took in a race with  *)
(* it: the numbers issued and those taken by duplicates are together 1 to   *)
(* the sequence's last number and none is both.  One invoice loses fewer    *)
(* numbers than there are processes, so one process leaves no gap           *)
(* (routes/invoices.js:274-288, 323-329).                                   *)
NumbersGapless ==
  LET In(y) == {i \in Issued : invoice[i].year = y}
      Own(i) == {invoice[i].number} \cup burnt[i]
  IN
  /\ \A y \in Years : UNION {Own(i) : i \in In(y)} = 1..seq[y]
  /\ \A y \in Years : \A i, j \in In(y) : i # j => Own(i) \cap Own(j) = {}
  /\ \A i \in Issued : invoice[i].number \notin burnt[i]
  /\ \A i \in Invoices : Cardinality(burnt[i]) < Processes

(* A voided invoice never changes again and a returned one can only be     *)
(* voided, with its amounts kept (the conditional update in pay: "can      *)
(* never resurrect a VOIDED/RETURNED invoice").                            *)
ReversalIsFinal ==
  [][\A i \in Invoices :
       /\ invoice[i].status = "VOIDED" => invoice'[i] = invoice[i]
       /\ invoice[i].status = "RETURNED" =>
            /\ invoice'[i].status \in {"RETURNED", "VOIDED"}
            /\ invoice'[i].paid = invoice[i].paid
            /\ invoice'[i].total = invoice[i].total]_vars

\* Every fiscal year has its calendar's dates: an administrator gave none others.
CalendarYears ==
  \A y \in Years : years[y].status # "ABSENT" =>
    years[y].from = CalendarRange(y)[1] /\ years[y].to = CalendarRange(y)[2]

(* Nothing is posted to a closed fiscal year: no invoice numbered in that  *)
(* year changes and none is added to it, whichever period the clock is in  *)
(* (routes/fiscal.js:9-12).  It holds while fiscal years are calendar      *)
(* years: later operations look at the calendar year of the invoice's date *)
(* and not at the year it was posted to (invoices.js:73).                  *)
ClosedYearImmutable ==
  [][CalendarYears => \A i \in Invoices :
       /\ invoice[i].status # "NONE" /\ years[invoice[i].year].status = "CLOSED"
            => invoice'[i] = invoice[i]
       /\ invoice[i].status = "NONE" /\ invoice'[i].status # "NONE"
            => years[invoice'[i].year].status # "CLOSED"]_vars
-----------------------------------------------------------------------------
(* A statement the sources make that the handlers together do not keep.    *)

(* routes/invoices.js:946-949 on void: "the current qty is exactly what    *)
(* remains to restore - no double counting possible".                      *)
NoDoubleRestock == stock + SumFunctionOnSet(UnitsOut, Live) <= Stock0
=============================================================================
