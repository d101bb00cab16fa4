------------------------- MODULE ShiftLedgerProofs -------------------------
(***************************************************************************)
(* Theorems about ShiftLedger for any number of shifts, tills and          *)
(* invoices.  The exclusive tills need of a shift's row only its shape.    *)
(* What a closing stores is a sum over the shift's invoices: what one      *)
(* invoice adds to it comes first (CashNetsToPaid), and that it is an      *)
(* amount, over finitely many invoices, last.                              *)
(***************************************************************************)
EXTENDS ShiftLedger, InvoiceLedgerProofs

\* A shift's row has its five fields, and a status.
RowShape(r) ==
  /\ r = [ status |-> r.status, terminal |-> r.terminal, opening |-> r.opening,
           expected |-> r.expected, counted |-> r.counted ]
  /\ r.status \in {"ABSENT", "OPEN", "CLOSED"}

ShiftsShaped ==
  /\ shift = [s \in Shifts |-> shift[s]]
  /\ \A s \in Shifts : RowShape(shift[s])
  /\ shiftOf \in [Invoices -> Shifts \cup {None}]

\* Of an invoice nothing came back of, what is paid is what was tendered, up
\* to its total.
TendersKept ==
  \A i \in Invoices :
    LET inv == invoice[i] IN
    Intact(i) =>
      inv.paid = Lesser(inv.cash + inv.card + inv.walletPaid, inv.total) /\ inv.refund = 0

ShiftInv == LedgerInv /\ TendersKept /\ ShiftsShaped /\ OneOpenPerTerminal
-----------------------------------------------------------------------------
(* Shifts take nothing from the ledger: what is proved of the invoices     *)
(* holds with cashiers opening and closing shifts around them.             *)
THEOREM ShiftsKeepLedger == ShiftSpec => Spec
<1>1. ShiftInit => Init BY DEF ShiftInit
<1>2. [ShiftNext]_shiftVars => [Next]_vars
  <2> SUFFICES ASSUME [ShiftNext]_shiftVars PROVE [Next]_vars OBVIOUS
  <2>1. CASE UNCHANGED shiftVars BY <2>1 DEF shiftVars
  <2>2. ASSUME NEW s \in Shifts, ShiftStep(s) PROVE UNCHANGED vars
    BY <2>2 DEF ShiftStep, OpenShift, CloseShift, Handover
  <2>3. ASSUME NEW i \in Invoices, NEW s, ShiftSale(i, s) PROVE Next
    BY <2>3 DEF ShiftSale, Next, InvoiceStep
  <2>4. CASE LedgerStep BY <2>4 DEF LedgerStep, Next, InvoiceStep
  <2>5. ASSUME NEW i \in Invoices, ShiftDuplicate(i) PROVE Next
    BY <2>5 DEF ShiftDuplicate, DuplicateStep, Next
  <2> QED BY <2>1, <2>2, <2>3, <2>4, <2>5 DEF ShiftNext
<1> QED BY <1>1, <1>2, PTL DEF ShiftSpec, Spec
-----------------------------------------------------------------------------
\* One row is replaced, by one whose tenders are kept.
LEMMA TendersReplaced ==
  ASSUME LedgerInv, TendersKept, NEW i \in Invoices, Created(i) \/ Continued(i),
         LET row == invoice'[i] IN row.returnedQty = 0 =>
           row.paid = Lesser(row.cash + row.card + row.walletPaid, row.total) /\ row.refund = 0
  PROVE  TendersKept'
<1>1. \A j \in Invoices : j # i => invoice'[j] = invoice[j]
  BY OtherRows
<1> QED BY <1>1 DEF TendersKept, Intact

(* A sale counts its tenders into paid, up to the total, ...               *)
LEMMA SaleTenders ==
  ASSUME LedgerInv, TendersKept, NEW i \in Invoices, Created(i)
  PROVE  TendersKept'
<1>1. PICK q \in Quantities, ld \in LineDiscounts, customer \in BOOLEAN,
           d \in Discounts, t \in Tenders :
        Sale(i, q, ld, customer, d, t)
  BY DEF Created
<1> DEFINE line      == Lesser(ld, Rounded(q))
           gross     == LineTotal(q, line)
           discount  == Lesser(d, gross)
           total     == gross - discount
           paid      == Lesser(t.cash + t.card + t.wallet, total)
           remaining == total - paid
           status    == Settlement(paid, total)
           pts       == IF customer /\ status = "PAID" THEN total \div PointEvery ELSE 0
           row       == [ status |-> status, customer |-> customer,
                          created |-> now, year |-> PostingYear,
                          number |-> NextNumber(PostingYear),
                          qty |-> q, returnedQty |-> 0, lineDiscount |-> line,
                          gross |-> gross, discount |-> discount,
                          total |-> total, paid |-> paid, remaining |-> remaining,
                          cash |-> t.cash, card |-> t.card,
                          walletPaid |-> t.wallet, refund |-> 0,
                          debited |-> t.wallet, credited |-> 0, earned |-> pts,
                          returned |-> FALSE ]
<1>2. invoice' = [invoice EXCEPT ![i] = row]
  BY <1>1 DEF Sale
<1>3. invoice'[i] = row
  <2> HIDE DEF row
  <2> QED BY <1>2 DEF LedgerInv, RowsOK
<1>4. row.paid = Lesser(row.cash + row.card + row.walletPaid, row.total) /\ row.refund = 0
  <2> HIDE DEF total, remaining, status, pts
  <2> QED OBVIOUS
<1> HIDE DEF row
<1> QED BY <1>3, <1>4, TendersReplaced

(* ... a payment does too, a reversal leaves both alone and a return in    *)
(* part marks the row.                                                     *)
LEMMA TendersStep ==
  ASSUME LedgerInv, TendersKept, [Next]_vars
  PROVE  TendersKept'
<1>2. ASSUME NEW i \in Invoices, NEW method \in Methods, NEW a \in Amounts, Pay(i, method, a)
      PROVE  TendersKept'
  <2> DEFINE inv == invoice[i]
             recorded == IF method = "WALLET" THEN Lesser(a, inv.total - inv.paid) ELSE a
             row == invoice'[i]
  <2>1. /\ inv.cash \in Nat /\ inv.card \in Nat /\ inv.walletPaid \in Nat
        /\ inv.total \in Nat /\ inv.paid \in Nat /\ inv.paid <= inv.total
        /\ a \in Nat /\ recorded \in Nat
    <3>1. RowOK(inv) BY DEF LedgerInv, RowsOK
    <3>2. /\ inv.cash \in Nat /\ inv.card \in Nat /\ inv.walletPaid \in Nat
          /\ inv.total \in Nat /\ inv.paid \in Nat /\ inv.paid <= inv.total
      BY <3>1 DEF RowOK, Settled, Invoice
    <3>3. a \in Nat BY LedgerAssumption
    <3> QED BY <3>2, <3>3 DEF Lesser
  <2>2. /\ row.returnedQty = inv.returnedQty /\ row.total = inv.total /\ row.refund = inv.refund
        /\ row.paid = Lesser(inv.paid + recorded, inv.total)
        /\ row.cash + row.card + row.walletPaid
             = inv.cash + inv.card + inv.walletPaid + recorded
    <3>1. inv \in Invoice /\ invoice \in [Invoices -> Invoice]
      BY DEF LedgerInv, RowsOK
    <3>2. /\ row = [inv EXCEPT
               !.status     = IF inv.total - Lesser(inv.paid + recorded, inv.total) <= Tolerance
                                THEN "PAID" ELSE "PARTIAL",
               !.paid       = Lesser(inv.paid + recorded, inv.total),
               !.remaining  = inv.total - Lesser(inv.paid + recorded, inv.total),
               !.cash       = IF method = "CASH" THEN @ + recorded ELSE @,
               !.card       = IF method = "CARD" THEN @ + recorded ELSE @,
               !.walletPaid = @ + (IF method = "WALLET" THEN recorded ELSE 0),
               !.debited    = @ + (IF method = "WALLET" THEN recorded ELSE 0)]
          /\ invoice' = [invoice EXCEPT ![i] = row]
      BY <1>2, <3>1 DEF Pay
    <3> HIDE DEF row, recorded
    <3>3. /\ row.returnedQty = inv.returnedQty /\ row.total = inv.total /\ row.refund = inv.refund
          /\ row.paid = Lesser(inv.paid + recorded, inv.total)
          /\ row.cash = IF method = "CASH" THEN inv.cash + recorded ELSE inv.cash
          /\ row.card = IF method = "CARD" THEN inv.card + recorded ELSE inv.card
          /\ row.walletPaid = inv.walletPaid + (IF method = "WALLET" THEN recorded ELSE 0)
      BY <3>1, <3>2 DEF Invoice
    <3>4. row.cash + row.card + row.walletPaid
            = inv.cash + inv.card + inv.walletPaid + recorded
      <4> HIDE DEF inv
      <4>1. CASE method = "CASH" BY <2>1, <3>3, <4>1
      <4>2. CASE method = "CARD" BY <2>1, <3>3, <4>2
      <4>3. CASE method = "WALLET" BY <2>1, <3>3, <4>3
      <4> QED BY <4>1, <4>2, <4>3 DEF Methods
    <3> QED BY <3>3, <3>4
  <2>3. Continued(i) BY <1>2 DEF Continued, Settling
  <2>4. row.returnedQty = 0 =>
          row.paid = Lesser(row.cash + row.card + row.walletPaid, row.total) /\ row.refund = 0
    <3>1. inv.returnedQty = 0 =>
            inv.paid = Lesser(inv.cash + inv.card + inv.walletPaid, inv.total) /\ inv.refund = 0
      BY DEF TendersKept, Intact
    <3>2. ASSUME NEW sum \in Nat, NEW total \in Nat, NEW more \in Nat
          PROVE  Lesser(Lesser(sum, total) + more, total) = Lesser(sum + more, total)
      BY DEF Lesser
    <3> HIDE DEF recorded, row, inv
    <3>3. inv.cash + inv.card + inv.walletPaid \in Nat BY <2>1
    <3> DEFINE sum == inv.cash + inv.card + inv.walletPaid
    <3>4. sum \in Nat /\ inv.total \in Nat /\ recorded \in Nat BY <2>1, <3>3
    <3> HIDE DEF sum
    <3>5. Lesser(Lesser(sum, inv.total) + recorded, inv.total) = Lesser(sum + recorded, inv.total)
      BY <3>2, <3>4
    <3>6. inv.returnedQty = 0 => inv.refund = 0 /\ row.paid = Lesser(sum + recorded, inv.total)
      <4>1. inv.returnedQty = 0 => inv.paid = Lesser(sum, inv.total) /\ inv.refund = 0
        BY <3>1 DEF sum
      <4> QED BY <2>2, <3>5, <4>1
    <3>7. row.cash + row.card + row.walletPaid = sum + recorded
      BY <2>2 DEF sum
    <3> QED BY <2>2, <3>6, <3>7
  <2> QED BY <2>3, <2>4, TendersReplaced
<1>3. ASSUME NEW i \in Invoices, Void(i) \/ FullReturn(i) PROVE TendersKept'
  <2> DEFINE inv == invoice[i]
             row == invoice'[i]
  <2>1. inv \in Invoice /\ invoice \in [Invoices -> Invoice] BY DEF LedgerInv, RowsOK
  <2>2. \E credited, status, returned :
          row = [inv EXCEPT !.status = status, !.credited = credited, !.returned = returned]
    <3>1. inv = [inv EXCEPT !.returned = inv.returned] BY <2>1 DEF Invoice
    <3>2. CASE Void(i)
      <4>1. row = [inv EXCEPT !.status   = "VOIDED",
                   !.credited = IF inv.customer THEN @ + inv.walletPaid ELSE @]
        BY <3>2, <2>1 DEF Void
      <4> HIDE DEF row, inv
      <4>2. row = [inv EXCEPT !.status = "VOIDED",
                   !.credited = IF inv.customer THEN inv.credited + inv.walletPaid
                                                ELSE inv.credited,
                   !.returned = inv.returned]
        BY <4>1, <2>1 DEF Invoice
      <4> QED BY <4>2
    <3>3. CASE FullReturn(i)
      <4>1. \E reversed : row = [inv EXCEPT !.status = "RETURNED", !.returned = TRUE,
                   !.credited = IF reversed THEN @ + inv.walletPaid ELSE @]
        BY <3>3, <2>1 DEF FullReturn
      <4> HIDE DEF row, inv
      <4>2. PICK reversed : row = [inv EXCEPT !.status = "RETURNED", !.returned = TRUE,
                   !.credited = IF reversed THEN @ + inv.walletPaid ELSE @]
        BY <4>1
      <4>3. row = [inv EXCEPT !.status = "RETURNED",
                   !.credited = IF reversed THEN inv.credited + inv.walletPaid
                                            ELSE inv.credited,
                   !.returned = TRUE]
        BY <4>2, <2>1 DEF Invoice
      <4> QED BY <4>3
    <3> QED BY <1>3, <3>2, <3>3
  <2>3. /\ row.returnedQty = inv.returnedQty /\ row.refund = inv.refund
        /\ row.paid = inv.paid /\ row.total = inv.total
        /\ row.cash = inv.cash /\ row.card = inv.card /\ row.walletPaid = inv.walletPaid
    <3> HIDE DEF row, inv
    <3> QED BY <2>1, <2>2 DEF Invoice
  <2>4. Continued(i) BY <1>3 DEF Continued
  <2> QED BY <2>3, <2>4, TendersReplaced DEF TendersKept, Intact
<1>4. ASSUME NEW i \in Invoices, Returning(i) PROVE TendersKept'
  <2>1. PICK q \in 1..invoice[i].qty, c \in CreditReturns : PartialReturn(i, q, c)
    BY <1>4 DEF Returning
  <2>2. invoice'[i].returnedQty = invoice[i].returnedQty + q
    BY <2>1 DEF PartialReturn, LedgerInv, RowsOK, Invoice
  <2>3. invoice[i].returnedQty \in Nat /\ q \in Nat /\ q > 0
    BY LedgerAssumption DEF LedgerInv, RowsOK, Invoice
  <2> QED BY <1>4, <2>2, <2>3, TendersReplaced DEF Continued
<1>5. ASSUME UNCHANGED invoice PROVE TendersKept'
  BY <1>5 DEF TendersKept, Intact
<1> QED
  BY <1>2, <1>3, <1>4, <1>5, SaleTenders, StepKinds, QuietSteps DEF Continued, Settling
-----------------------------------------------------------------------------
\* Rows that are opened or closed keep their shape, whatever is counted.
LEMMA OpenedShape ==
  ASSUME NEW t, NEW cash
  PROVE  /\ RowShape(Opened(t, cash))
         /\ Opened(t, cash).status = "OPEN" /\ Opened(t, cash).terminal = t
BY DEF Opened, RowShape

LEMMA ClosedShape ==
  ASSUME ShiftsShaped, NEW s \in Shifts, NEW cash
  PROVE  /\ RowShape(ClosedWith(s, cash)) /\ ClosedWith(s, cash).status = "CLOSED"
         /\ ClosedWith(s, cash).terminal = shift[s].terminal
         /\ ClosedWith(s, cash).opening = shift[s].opening
         /\ ClosedWith(s, cash).expected = ExpectedCash(s)
         /\ ClosedWith(s, cash).counted = cash
<1> DEFINE row == shift[s]
           expected == ExpectedCash(s)
<1>1. row = [ status |-> row.status, terminal |-> row.terminal, opening |-> row.opening,
              expected |-> row.expected, counted |-> row.counted ]
  BY DEF ShiftsShaped, RowShape
<1>2. ClosedWith(s, cash)
        = [row EXCEPT !.status = "CLOSED", !.expected = expected, !.counted = cash]
  BY DEF ClosedWith
<1> HIDE DEF row, expected
<1>3. PICK a, b, c, d, e : row = [ status |-> a, terminal |-> b, opening |-> c,
                                   expected |-> d, counted |-> e ]
  BY <1>1
<1> DEFINE closed == ClosedWith(s, cash)
<1>4. closed = [ status |-> "CLOSED", terminal |-> b, opening |-> c,
                 expected |-> expected, counted |-> cash ]
  BY <1>2, <1>3
<1> HIDE DEF closed
<1>5. /\ closed.status = "CLOSED" /\ closed.terminal = b /\ closed.opening = c
      /\ closed.expected = expected /\ closed.counted = cash
  BY <1>4
<1>6. RowShape(closed) BY <1>4, <1>5 DEF RowShape
<1>7. row.terminal = b /\ row.opening = c BY <1>3
<1> QED BY <1>5, <1>6, <1>7 DEF closed, row, expected

LEMMA ShiftStart == ShiftInit => ShiftInv
<1> SUFFICES ASSUME ShiftInit PROVE ShiftInv OBVIOUS
<1>1. LedgerInv BY InitLedger DEF ShiftInit
<1>2. TendersKept
  BY DEF ShiftInit, Init, TendersKept, Intact, NoInvoice, Lesser
<1>3. ShiftsShaped
  BY DEF ShiftInit, ShiftsShaped, NoRow, RowShape
<1>4. OneOpenPerTerminal
  BY DEF ShiftInit, OneOpenPerTerminal, IsOpen, NoRow
<1> QED BY <1>1, <1>2, <1>3, <1>4 DEF ShiftInv

(* Opening, closing and handing over keep the rows' shape and at most one  *)
(* open shift per till: the index lets no second one in, and a handover    *)
(* closes the one it replaces.                                             *)
LEMMA RowsStep ==
  ASSUME ShiftInv, NEW s \in Shifts, ShiftStep(s)
  PROVE  ShiftsShaped' /\ OneOpenPerTerminal'
<1>0. ShiftsShaped /\ OneOpenPerTerminal BY DEF ShiftInv
<1>1. ASSUME NEW t \in Terminals, NEW cash \in CashCounts, OpenShift(s, t, cash)
      PROVE  ShiftsShaped' /\ OneOpenPerTerminal'
  <2>1. /\ shift' = [shift EXCEPT ![s] = Opened(t, cash)] /\ shiftOf' = shiftOf
        /\ TerminalFree(t, Shifts)
    BY <1>1 DEF OpenShift
  <2>2. ShiftsShaped' BY <1>0, <2>1, OpenedShape DEF ShiftsShaped
  <2>3. OneOpenPerTerminal'
    BY <1>0, <2>1, OpenedShape DEF ShiftsShaped, OneOpenPerTerminal, IsOpen, TerminalFree
  <2> QED BY <2>2, <2>3
<1>2. ASSUME NEW cash, NEW approved \in BOOLEAN, CloseShift(s, cash, approved)
      PROVE  ShiftsShaped' /\ OneOpenPerTerminal'
  <2>1. shift' = [shift EXCEPT ![s] = ClosedWith(s, cash)] /\ shiftOf' = shiftOf
    BY <1>2 DEF CloseShift
  <2>2. ShiftsShaped' BY <1>0, <2>1, ClosedShape DEF ShiftsShaped
  <2>3. OneOpenPerTerminal'
    BY <1>0, <2>1, ClosedShape DEF ShiftsShaped, OneOpenPerTerminal, IsOpen
  <2> QED BY <2>2, <2>3
<1>3. ASSUME NEW cash, NEW approved \in BOOLEAN, NEW n \in Shifts, NEW t \in Terminals,
             NEW opening, Handover(s, n, t, cash, opening, approved)
      PROVE  ShiftsShaped' /\ OneOpenPerTerminal'
  <2>1. /\ shift' = [shift EXCEPT ![s] = ClosedWith(s, cash), ![n] = Opened(t, opening)]
        /\ shiftOf' = shiftOf /\ s # n
        /\ TerminalFree(t, Shifts \ {s})
    BY <1>3 DEF Handover, IsOpen
  <2>2. /\ shift'[s] = ClosedWith(s, cash) /\ shift'[n] = Opened(t, opening)
        /\ \A m \in Shifts \ {s, n} : shift'[m] = shift[m]
    BY <1>0, <2>1 DEF ShiftsShaped
  <2>3. ShiftsShaped' BY <1>0, <2>1, <2>2, OpenedShape, ClosedShape DEF ShiftsShaped
  <2>4. OneOpenPerTerminal'
    BY <1>0, <2>1, <2>2, OpenedShape, ClosedShape
    DEF OneOpenPerTerminal, IsOpen, TerminalFree
  <2> QED BY <2>3, <2>4
<1> QED BY <1>1, <1>2, <1>3 DEF ShiftStep

LEMMA ShiftKept == ShiftInv /\ [ShiftNext]_shiftVars => ShiftInv'
<1> SUFFICES ASSUME ShiftInv, [ShiftNext]_shiftVars PROVE ShiftInv' OBVIOUS
<1>0. [Next]_vars
  <2>1. ASSUME NEW s \in Shifts, ShiftStep(s) PROVE UNCHANGED vars
    BY <2>1 DEF ShiftStep, OpenShift, CloseShift, Handover
  <2> QED BY <2>1 DEF ShiftNext, shiftVars, ShiftSale, ShiftDuplicate, DuplicateStep,
                      LedgerStep, Next, InvoiceStep
<1>1. LedgerInv' /\ TendersKept'
  BY <1>0, NextLedger, TendersStep DEF ShiftInv
<1>2. CASE UNCHANGED shift /\ shiftOf' \in [Invoices -> Shifts \cup {None}]
  BY <1>1, <1>2 DEF ShiftInv, ShiftsShaped, OneOpenPerTerminal, IsOpen
<1>3. ASSUME NEW i \in Invoices, NEW s \in Shifts \cup {None}, ShiftSale(i, s)
      PROVE  UNCHANGED shift /\ shiftOf' \in [Invoices -> Shifts \cup {None}]
  BY <1>3 DEF ShiftSale, ShiftInv, ShiftsShaped
<1>4. CASE (\E i \in Invoices : ShiftDuplicate(i)) \/ LedgerStep \/ UNCHANGED shiftVars
  BY <1>2, <1>4 DEF ShiftDuplicate, LedgerStep, shiftVars, ShiftInv, ShiftsShaped
<1>5. ASSUME NEW s \in Shifts, ShiftStep(s) PROVE ShiftInv'
  BY <1>1, <1>5, RowsStep DEF ShiftInv
<1> QED BY <1>2, <1>3, <1>4, <1>5 DEF ShiftNext

THEOREM ShiftInvariant == ShiftSpec => []ShiftInv
<1> QED BY ShiftStart, ShiftKept, PTL DEF ShiftSpec

(* However opens, closings and handovers alternate, a till has at most one *)
(* open shift.                                                             *)
THEOREM TillsAreExclusive == ShiftSpec => []OneOpenPerTerminal
<1>1. ShiftInv => OneOpenPerTerminal BY DEF ShiftInv
<1> QED BY <1>1, ShiftInvariant, PTL

\* What one invoice adds to the cash shiftCashTotal counts.
LEMMA NetCashPaid == ASSUME ShiftInv PROVE CashNetsToPaid
<1> SUFFICES ASSUME NEW i \in Invoices, Intact(i)
             PROVE  NetCash(invoice[i]) = PaidInCash(i)
  BY DEF CashNetsToPaid
<1> DEFINE inv == invoice[i]
<1>1. /\ inv.cash \in Nat /\ inv.card \in Nat /\ inv.walletPaid \in Nat /\ inv.total \in Nat
      /\ inv.paid = Lesser(inv.cash + inv.card + inv.walletPaid, inv.total) /\ inv.refund = 0
  BY DEF ShiftInv, LedgerInv, RowsOK, Invoice, TendersKept
<1>2. /\ NetCash(inv) = AtLeast0(inv.cash - AtLeast0(Tendered(inv) - inv.total))
      /\ Tendered(inv) = inv.cash + inv.card + inv.walletPaid - inv.refund
      /\ PaidInCash(i) = AtLeast0(inv.paid - inv.card - inv.walletPaid)
  BY DEF NetCash, Tendered, PaidInCash
<1> HIDE DEF inv
<1>3. NetCash(inv) = PaidInCash(i)
  BY <1>1, <1>2 DEF AtLeast0, Lesser
<1> QED BY <1>3 DEF inv

(* The cash shiftCashTotal counts of an invoice of which nothing came back *)
(* in part is what was paid on it in cash, for any tenders, payments and   *)
(* change.  Of the others it says nothing.                                 *)
THEOREM NetCashIsPaidCash == ShiftSpec => []CashNetsToPaid
<1>1. ShiftInv => CashNetsToPaid BY NetCashPaid
<1> QED BY <1>1, ShiftInvariant, PTL

(* Nothing reopens a closed shift, changes its figures or adds a sale to   *)
(* it.                                                                     *)
THEOREM ClosedShiftsStay == ShiftSpec => ClosedShiftIsFinal
<1>1. ASSUME ShiftInv, [ShiftNext]_shiftVars, NEW s \in Shifts, shift[s].status = "CLOSED"
      PROVE  /\ shift'[s] = shift[s]
             /\ \A i \in Invoices : shiftOf'[i] = s => shiftOf[i] = s
  <2> USE <1>1 DEF ShiftInv, ShiftsShaped
  <2>1. CASE (\E i \in Invoices : ShiftDuplicate(i)) \/ LedgerStep \/ UNCHANGED shiftVars
    BY <2>1 DEF ShiftDuplicate, LedgerStep, shiftVars
  <2>2. ASSUME NEW i \in Invoices, NEW n \in Shifts \cup {None}, ShiftSale(i, n)
        PROVE  /\ shift'[s] = shift[s]
               /\ \A j \in Invoices : shiftOf'[j] = s => shiftOf[j] = s
    <3>1. n # s BY <2>2, ShiftAssumption DEF ShiftSale, Sellable, IsOpen
    <3> QED BY <2>2, <3>1 DEF ShiftSale
  <2>3. ASSUME NEW n \in Shifts, ShiftStep(n)
        PROVE  shift'[s] = shift[s] /\ shiftOf' = shiftOf
    BY <2>3 DEF ShiftStep, OpenShift, CloseShift, Handover, IsOpen
  <2> QED BY <2>1, <2>2, <2>3 DEF ShiftNext
<1>2. ShiftInv /\ [ShiftNext]_shiftVars =>
        [\A s \in Shifts : shift[s].status = "CLOSED" =>
           /\ shift'[s] = shift[s]
           /\ \A i \in Invoices : shiftOf'[i] = s => shiftOf[i] = s]_shiftVars
  BY <1>1
<1> QED BY <1>2, ShiftInvariant, PTL DEF ShiftSpec, ClosedShiftIsFinal
-----------------------------------------------------------------------------
\* What a shift's invoices net to is an amount: they are finitely many.
LEMMA ShiftCashNat ==
  ASSUME LedgerInv, IsFiniteSet(Issued), NEW s
  PROVE  /\ IsFiniteSet(Counted(s)) /\ Counted(s) \subseteq Invoices
         /\ ShiftCash(s) \in Nat
<1> DEFINE net == [i \in Invoices |-> NetCash(invoice[i])]
<1>1. Counted(s) \subseteq Live /\ Counted(s) \subseteq Invoices
  BY DEF Counted, Live
<1>2. IsFiniteSet(Counted(s)) BY <1>1, SummedRows, FS_Subset
<1>3. \A i \in Counted(s) : net[i] \in Nat
  <2> SUFFICES ASSUME NEW i \in Invoices PROVE NetCash(invoice[i]) \in Nat
    BY <1>1
  <2>1. /\ invoice[i].cash \in Nat /\ invoice[i].card \in Nat /\ invoice[i].walletPaid \in Nat
        /\ invoice[i].refund \in Nat /\ invoice[i].total \in Nat
    BY DEF LedgerInv, RowsOK, Invoice
  <2> QED BY <2>1 DEF NetCash, Tendered, AtLeast0
<1>4. ShiftCash(s) = SumFunctionOnSet(net, Counted(s)) BY DEF ShiftCash
<1> HIDE DEF net
<1>5. ShiftCash(s) \in Nat BY <1>2, <1>3, <1>4, SumNat
<1> QED BY <1>1, <1>2, <1>5

ShiftsTyped == shift \in [Shifts -> ShiftRow] /\ shiftOf \in [Invoices -> Shifts \cup {None}]

LEMMA ShiftsTypedStep ==
  ASSUME LedgerInv, IsFiniteSet(Issued), ShiftInv, ShiftsTyped, [ShiftNext]_shiftVars
  PROVE  ShiftsTyped'
<1>1. ASSUME NEW s \in Shifts PROVE shift[s] \in ShiftRow /\ ExpectedCash(s) \in Nat
  <2>1. shift[s] \in ShiftRow BY DEF ShiftsTyped
  <2>2. shift[s].opening \in Nat BY <2>1 DEF ShiftRow
  <2> QED BY <2>1, <2>2, ShiftCashNat DEF ExpectedCash
<1>2. ASSUME NEW s \in Shifts, NEW cash \in Nat PROVE ClosedWith(s, cash) \in ShiftRow
  <2>1. shift[s].terminal \in Terminals \cup {None} /\ shift[s].opening \in Nat
    BY <1>1 DEF ShiftRow
  <2> DEFINE row == ClosedWith(s, cash)
  <2>2. /\ row = [ status |-> row.status, terminal |-> row.terminal, opening |-> row.opening,
                   expected |-> row.expected, counted |-> row.counted ]
        /\ row.status = "CLOSED" /\ row.terminal = shift[s].terminal
        /\ row.opening = shift[s].opening /\ row.expected = ExpectedCash(s) /\ row.counted = cash
    BY ClosedShape DEF ShiftInv, RowShape
  <2> HIDE DEF row
  <2>3. row \in ShiftRow BY <1>1, <2>1, <2>2 DEF ShiftRow
  <2> QED BY <2>3 DEF row
<1>3. ASSUME NEW t \in Terminals, NEW cash \in Nat PROVE Opened(t, cash) \in ShiftRow
  BY DEF Opened, ShiftRow
<1>4. ASSUME NEW s \in Shifts, ShiftStep(s) PROVE ShiftsTyped'
  <2>1. \A cash \in Countable(s) : cash \in Nat
    BY <1>1, ShiftAssumption DEF Countable
  <2>2. ASSUME NEW t \in Terminals, NEW cash \in CashCounts, OpenShift(s, t, cash)
        PROVE  ShiftsTyped'
    <3>1. cash \in Nat BY ShiftAssumption
    <3> QED BY <1>3, <2>2, <3>1 DEF OpenShift, ShiftsTyped
  <2>3. ASSUME NEW cash \in Countable(s), NEW approved, CloseShift(s, cash, approved)
        PROVE  ShiftsTyped'
    BY <1>2, <2>1, <2>3 DEF CloseShift, ShiftsTyped
  <2>4. ASSUME NEW cash \in Countable(s), NEW approved, NEW n \in Shifts, NEW t \in Terminals,
               NEW opening \in CashCounts \cup {cash}, Handover(s, n, t, cash, opening, approved)
        PROVE  ShiftsTyped'
    <3>1. cash \in Nat /\ opening \in Nat BY <2>1, ShiftAssumption
    <3>2. ClosedWith(s, cash) \in ShiftRow /\ Opened(t, opening) \in ShiftRow
      BY <1>2, <1>3, <3>1
    <3> QED BY <2>4, <3>2 DEF Handover, ShiftsTyped
  <2> QED BY <1>4, <2>2, <2>3, <2>4 DEF ShiftStep
<1>5. ASSUME NEW i \in Invoices, NEW s \in Shifts \cup {None}, ShiftSale(i, s) PROVE ShiftsTyped'
  BY <1>5 DEF ShiftSale, ShiftsTyped
<1>6. CASE (\E i \in Invoices : ShiftDuplicate(i)) \/ LedgerStep \/ UNCHANGED shiftVars
  BY <1>6 DEF ShiftDuplicate, LedgerStep, shiftVars, ShiftsTyped
<1> QED BY <1>4, <1>5, <1>6 DEF ShiftNext

\* What the theorems about the figures of a closing rest on.
THEOREM ShiftsTypedInvariant == ShiftSpec => [](LedgerInv /\ SumsInv /\ ShiftInv /\ ShiftsTyped)
<1>1. ShiftInit => ShiftsTyped
  BY DEF ShiftInit, NoRow, ShiftsTyped, ShiftRow
<1>2. LedgerInv /\ SumsInv /\ ShiftInv /\ ShiftsTyped /\ [ShiftNext]_shiftVars => ShiftsTyped'
  BY ShiftsTypedStep DEF SumsInv
<1> QED BY <1>1, <1>2, ShiftsKeepLedger, SumsInvariant, ShiftInvariant, PTL DEF ShiftSpec

(* Whatever a shift is closed or handed over with, its figures are         *)
(* amounts, and expected cash never goes below zero.                       *)
THEOREM ShiftTypeCorrect == ShiftSpec => []ShiftTypeOK
<1>1. LedgerInv /\ ShiftsTyped => ShiftTypeOK
  BY DEF LedgerInv, RowsOK, AccountOK, FiscalOK, TypeOK, ShiftsTyped, ShiftTypeOK
<1> QED BY <1>1, ShiftsTypedInvariant, PTL
-----------------------------------------------------------------------------
\* An open shift that is closed by a step is closed with what it then expects.
LEMMA ClosingRow ==
  ASSUME ShiftInv, [ShiftNext]_shiftVars, NEW s \in Shifts, IsOpen(s),
         shift'[s].status = "CLOSED"
  PROVE  shift'[s].expected = ExpectedCash(s)
<1>1. ShiftsShaped /\ shift = [n \in Shifts |-> shift[n]] BY DEF ShiftInv, ShiftsShaped
<1>2. shift'[s] # shift[s] BY DEF IsOpen
<1>3. PICK n \in Shifts : ShiftStep(n)
  BY <1>2 DEF ShiftNext, ShiftSale, ShiftDuplicate, LedgerStep, shiftVars
<1>4. \E cash : shift'[s] = ClosedWith(s, cash)
  <2>1. ASSUME NEW t, NEW cash, OpenShift(n, t, cash) PROVE FALSE
    BY <1>1, <1>2, <2>1 DEF OpenShift, IsOpen
  <2>2. ASSUME NEW cash, NEW approved, CloseShift(n, cash, approved)
        PROVE  \E c : shift'[s] = ClosedWith(s, c)
    BY <1>1, <1>2, <2>2 DEF CloseShift
  <2>3. ASSUME NEW cash, NEW approved, NEW m \in Shifts, NEW t, NEW opening,
               Handover(n, m, t, cash, opening, approved)
        PROVE  \E c : shift'[s] = ClosedWith(s, c)
    <3>1. s # m BY <2>3 DEF Handover, IsOpen
    <3>2. s = n BY <1>1, <1>2, <2>3, <3>1 DEF Handover
    <3>3. shift' = [shift EXCEPT ![n] = ClosedWith(n, cash), ![m] = Opened(t, opening)]
      BY <2>3 DEF Handover
    <3>4. shift'[s] = ClosedWith(s, cash) BY <1>1, <3>1, <3>2, <3>3
    <3> QED BY <3>4
  <2> QED BY <1>3, <2>1, <2>2, <2>3 DEF ShiftStep
<1> QED BY <1>1, <1>4, ClosedShape

(* A closing expects, beyond its opening cash, exactly what the invoices   *)
(* it sold were paid in cash, when nothing of them came back in part.      *)
THEOREM ClosingsMatchBooks == ShiftSpec => ClosingMatchesBooks
<1> DEFINE Sold(s) == {i \in Invoices : shiftOf[i] = s}
           Paid(s) == {i \in Sold(s) : invoice[i].status \in {"PAID", "PARTIAL"}}
<1>1. ASSUME LedgerInv, SumsInv, ShiftInv, ShiftsTyped, [ShiftNext]_shiftVars, NEW s \in Shifts,
             IsOpen(s), shift'[s].status = "CLOSED", \A i \in Sold(s) : Intact(i)
      PROVE  shift'[s].expected - shift[s].opening
               = SumFunction([i \in Paid(s) |-> PaidInCash(i)])
  <2> DEFINE net  == [i \in Invoices |-> NetCash(invoice[i])]
             cash == [i \in Paid(s) |-> PaidInCash(i)]
  <2>1. shift'[s].expected = shift[s].opening + ShiftCash(s)
    BY <1>1, ClosingRow DEF ExpectedCash
  <2>2. shift[s].opening \in Nat BY <1>1 DEF ShiftsTyped, ShiftRow
  <2>3. IsFiniteSet(Counted(s)) /\ ShiftCash(s) \in Nat
    BY <1>1, ShiftCashNat DEF SumsInv
  <2>4. Counted(s) = Paid(s) /\ DOMAIN cash = Paid(s) BY DEF Counted
  <2>5. \A i \in Paid(s) : net[i] = cash[i]
    <3> SUFFICES ASSUME NEW i \in Paid(s) PROVE NetCash(invoice[i]) = PaidInCash(i)
      OBVIOUS
    <3>1. CashNetsToPaid BY <1>1, NetCashPaid
    <3> QED BY <1>1, <3>1 DEF CashNetsToPaid
  <2>6. ShiftCash(s) = SumFunctionOnSet(net, Paid(s)) BY <2>4 DEF ShiftCash
  <2>7. SumFunction(cash) = SumFunctionOnSet(cash, Paid(s))
    <3> HIDE DEF cash
    <3> QED BY <2>4 DEF SumFunction
  <2>8. SumFunctionOnSet(net, Paid(s)) = SumFunctionOnSet(cash, Paid(s))
    <3> HIDE DEF net, cash, Paid
    <3> QED BY <2>3, <2>4, <2>5, SumEqual
  <2>9. SumFunction(cash) = ShiftCash(s) BY <2>6, <2>7, <2>8
  <2> HIDE DEF cash
  <2>10. shift'[s].expected - shift[s].opening = SumFunction(cash)
    BY <2>1, <2>2, <2>3, <2>9
  <2> QED BY <2>10 DEF cash
<1>2. LedgerInv /\ SumsInv /\ ShiftInv /\ ShiftsTyped /\ [ShiftNext]_shiftVars =>
        [\A s \in Shifts :
           LET sold == {i \in Invoices : shiftOf[i] = s}
               paid == {i \in sold : invoice[i].status \in {"PAID", "PARTIAL"}}
           IN
           IsOpen(s) /\ shift'[s].status = "CLOSED" /\ (\A i \in sold : Intact(i)) =>
             shift'[s].expected - shift[s].opening
               = SumFunction([i \in paid |-> PaidInCash(i)])]_shiftVars
  BY <1>1
<1> QED BY <1>2, ShiftsTypedInvariant, PTL DEF ShiftSpec, ClosingMatchesBooks
=============================================================================
