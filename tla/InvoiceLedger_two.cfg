\* Two invoices of one customer in one fiscal year, on two server processes.
CONSTANTS
  Invoices = {i1, i2}
  LastYear = 1
  LastPeriod = 1
  CustomYears = {}
  Processes = 2
  Grain = 1
  Quantities = {2}
  Price = 100
  LineDiscounts = {0}
  TaxRate = 0
  TaxInclusive = FALSE
  Discounts = {0}
  Amounts = {0, 100}
  StockMode = "warn"
  Stock0 = 1
  Reserved = 0
  Wallet0 = 0
  WalletCap = 0
  CreditLimit = 200
  PointEvery = 200
  PointValue = 100
  CreditReturns = {FALSE}
SYMMETRY InvoiceSymmetry
SPECIFICATION Spec
INVARIANTS
  StockAccounted
  CreditBacked
  PointsBacked
  NumbersGapless
PROPERTIES
  CreditWithinLimit
  ReversalIsFinal
