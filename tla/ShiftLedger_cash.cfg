\* Three shifts on two tills, one invoice with mixed tenders and change.
CONSTANTS
  Invoices = {i1}
  LastYear = 1
  LastPeriod = 1
  CustomYears = {}
  Processes = 2
  Grain = 1
  Quantities = {1}
  Price = 100
  LineDiscounts = {0}
  TaxRate = 15
  TaxInclusive = TRUE
  Discounts = {0}
  Amounts = {0, 60, 150}
  StockMode = "off"
  Stock0 = 0
  Reserved = 0
  Wallet0 = 60
  WalletCap = 0
  CreditLimit = 0
  PointEvery = 1000
  PointValue = 0
  CreditReturns = {FALSE}
  Shifts = {s1, s2, s3}
  Terminals = {t1, t2}
  CashCounts = {0}
  VarianceLimit = 100
  RequireShift = FALSE
SPECIFICATION ShiftSpec
SYMMETRY ShiftSymmetry
INVARIANTS
  ShiftTypeOK
  OneOpenPerTerminal
  CashNetsToPaid
PROPERTIES
  ClosedShiftIsFinal
  ClosingMatchesBooks
