---------------------------- MODULE ShiftLedger ----------------------------
(***************************************************************************)
(* Cashier shifts (server/routes/shifts.js) over the invoices they sell.   *)
(* A shift is opened on a terminal, closed with its cash counted, or       *)
(* handed over to a new shift; a sale may name an open shift, and what a   *)
(* shift should hold is computed from its invoices at that moment, by      *)
(* shiftCashTotal.  Payments, voids and returns do not look at shifts.     *)
(*                                                                         *)
(* Every action of InvoiceLedger is an action here.  One tenant is         *)
(* modelled.  Of the figures a closing stores, expected_cash and           *)
(* closing_cash are kept: variance and cash_sales are differences of them  *)
(* and the opening cash.                                                   *)
(***************************************************************************)
EXTENDS InvoiceLedger

CONSTANTS
  Shifts,        \* the shift rows a behaviour may create
  Terminals,     \* tills
  CashCounts,    \* opening and counted cash a request may name
  VarianceLimit, \* DYPOS_SHIFT_VARIANCE_LIMIT
  RequireShift   \* DYPOS_REQUIRE_SHIFT

None == "none"

ASSUME ShiftAssumption ==
  /\ None \notin Shifts
  /\ CashCounts \subseteq Nat
  /\ VarianceLimit \in Nat
  /\ RequireShift \in BOOLEAN

VARIABLES
  shift,   \* shifts, by id
  shiftOf  \* invoices.shift_id

shiftVars == <<vars, shift, shiftOf>>

ShiftRow ==
  [ status: {"ABSENT", "OPEN", "CLOSED"}, terminal: Terminals \cup {None},
    opening: Nat, expected: Nat, counted: Nat ]

NoRow == [ status |-> "ABSENT", terminal |-> None,
           opening |-> 0, expected |-> 0, counted |-> 0 ]

ShiftTypeOK ==
  /\ TypeOK
  /\ shift \in [Shifts -> ShiftRow]
  /\ shiftOf \in [Invoices -> Shifts \cup {None}]

ShiftInit ==
  /\ Init
  /\ shift = [s \in Shifts |-> NoRow]
  /\ shiftOf = [i \in Invoices |-> None]
-----------------------------------------------------------------------------
IsOpen(s) == shift[s].status = "OPEN"
OnceOpened(s) == shift[s].status # "ABSENT"                          \* mutant
Sellable(s) == IsOpen(s)

\* uq_shifts_open_terminal, and the handover's own check of its target.
UnlessSold(t, others) ==                                             \* mutant
  ~ \E s \in others : IsOpen(s) /\ shift[s].terminal = t /\ \E i \in Invoices : shiftOf[i] = s
TerminalFree(t, others) == ~ \E s \in others : IsOpen(s) /\ shift[s].terminal = t

\* shiftCashTotal: tenders in cash, less what all tenders exceed the total by.
Tendered(inv)    == inv.cash + inv.card + inv.walletPaid - inv.refund
RawCash(inv)     == inv.cash                                         \* mutant
NetCash(inv)     == AtLeast0(inv.cash - AtLeast0(Tendered(inv) - inv.total))
Counted(s)       == {i \in Invoices : shiftOf[i] = s /\ invoice[i].status \in {"PAID", "PARTIAL"}}
ShiftCash(s)     == SumFunctionOnSet([i \in Invoices |-> NetCash(invoice[i])], Counted(s))
SalesOnly(s)     == ShiftCash(s)                                     \* mutant
ExpectedCash(s)  == shift[s].opening + ShiftCash(s)

Opened(t, cash) == [ status |-> "OPEN", terminal |-> t, opening |-> cash,
                     expected |-> 0, counted |-> 0 ]
ClosedWith(s, cash) ==
  [shift[s] EXCEPT !.status = "CLOSED", !.expected = ExpectedCash(s), !.counted = cash]

\* Cash may be counted, or left out and taken to be what is expected; a large
\* difference needs an approval.
Countable(s) == CashCounts \cup {ExpectedCash(s)}
Approvable(s, cash, approved) ==
  cash - ExpectedCash(s) \in -VarianceLimit..VarianceLimit \/ approved
-----------------------------------------------------------------------------
\* POST /api/shifts/open.
OpenShift(s, t, cash) ==
  /\ shift[s].status = "ABSENT"
  /\ TerminalFree(t, Shifts)
  /\ shift' = [shift EXCEPT ![s] = Opened(t, cash)]
  /\ UNCHANGED <<vars, shiftOf>>

\* POST /api/shifts/:id/close.
CloseShift(s, cash, approved) ==
  /\ IsOpen(s)
  /\ Approvable(s, cash, approved)
  /\ shift' = [shift EXCEPT ![s] = ClosedWith(s, cash)]
  /\ UNCHANGED <<vars, shiftOf>>

\* POST /api/shifts/:id/handover: n is opened where s was, or elsewhere.
Handover(s, n, t, cash, opening, approved) ==
  /\ IsOpen(s)
  /\ shift[n].status = "ABSENT"
  /\ TerminalFree(t, Shifts \ {s})
  /\ Approvable(s, cash, approved)
  /\ shift' = [shift EXCEPT ![s] = ClosedWith(s, cash), ![n] = Opened(t, opening)]
  /\ UNCHANGED <<vars, shiftOf>>

\* POST /api/invoices with or without a shiftId.
ShiftSale(i, s) ==
  /\ SaleStep(i)
  /\ IF s = None THEN ~RequireShift ELSE Sellable(s)
  /\ shiftOf' = [shiftOf EXCEPT ![i] = s]
  /\ UNCHANGED shift

\* A duplicate of a sale in a race with it looks at the shift as the sale did.
ShiftDuplicate(i) ==
  /\ DuplicateSale(i)
  /\ shiftOf[i] # None => Sellable(shiftOf[i])
  /\ UNCHANGED <<shift, shiftOf>>

\* Everything else that happens to invoices, accounts and fiscal years.
LedgerStep ==
  /\ (\E i \in Invoices : LaterStep(i)) \/ AccountStep \/ FiscalStep
  /\ UNCHANGED <<shift, shiftOf>>

ShiftStep(s) ==
  \/ \E t \in Terminals, cash \in CashCounts : OpenShift(s, t, cash)
  \/ \E cash \in Countable(s), approved \in BOOLEAN :
       \/ CloseShift(s, cash, approved)
       \/ \E n \in Shifts, t \in Terminals, opening \in CashCounts \cup {cash} :
            Handover(s, n, t, cash, opening, approved)

ShiftNext ==
  \/ \E s \in Shifts : ShiftStep(s)
  \/ \E i \in Invoices, s \in Shifts \cup {None} : ShiftSale(i, s)
  \/ \E i \in Invoices : ShiftDuplicate(i)
  \/ LedgerStep

ShiftSpec == ShiftInit /\ [][ShiftNext]_shiftVars
-----------------------------------------------------------------------------
Intact(i)     == invoice[i].returnedQty = 0
PaidInCash(i) == AtLeast0(invoice[i].paid - invoice[i].card - invoice[i].walletPaid)

(* A till never has two open shifts, however opens, closings and handovers *)
(* to the same or another till alternate (routes/shifts.js:49-66, 240).    *)
OneOpenPerTerminal ==
  \A s, n \in Shifts :
    IsOpen(s) /\ IsOpen(n) /\ shift[s].terminal = shift[n].terminal => s = n

(* A closed shift is closed for good: its figures stay, whatever later     *)
(* happens to its invoices, and no invoice joins it.                       *)
ClosedShiftIsFinal ==
  [][\A s \in Shifts : shift[s].status = "CLOSED" =>
       /\ shift'[s] = shift[s]
       /\ \A i \in Invoices : shiftOf'[i] = s => shiftOf[i] = s]_shiftVars

(* What shiftCashTotal nets an invoice to, from the raw tenders, is what   *)
(* the invoice was paid in cash as routes/invoices.js counts it, over any  *)
(* mix and order of part payments and change, as long as nothing of the    *)
(* invoice came back in part.                                              *)
CashNetsToPaid ==
  \A i \in Invoices :
    invoice[i].status \in {"PAID", "PARTIAL"} /\ Intact(i) =>
      NetCash(invoice[i]) = PaidInCash(i)

(* ... so a closing or a handover expects its opening cash and what its    *)
(* live invoices were paid in cash by then.                                *)
ClosingMatchesBooks ==
  [][\A s \in Shifts :
       LET sold == {i \in Invoices : shiftOf[i] = s}
           paid == {i \in sold : invoice[i].status \in {"PAID", "PARTIAL"}}
       IN
       IsOpen(s) /\ shift'[s].status = "CLOSED" /\ (\A i \in sold : Intact(i)) =>
         shift'[s].expected - shift[s].opening
           = SumFunction([i \in paid |-> PaidInCash(i)])
    ]_shiftVars
=============================================================================
