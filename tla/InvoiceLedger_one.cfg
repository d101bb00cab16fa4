\* One invoice of three quarters of a unit, its line discount, tax and manual
\* discount all rounded, and mixed tenders,
\* over three half years; one fiscal year may be given the dates July to June.
CONSTANTS
  Invoices = {i1}
  LastYear = 2
  LastPeriod = 3
  CustomYears <- JulyToJune
  Processes = 1
  Grain = 4
  Quantities = {3}
  Price = 43
  LineDiscounts = {0, 32}
  TaxRate = 50
  TaxInclusive = FALSE
  Discounts = {20}
  Amounts = {0, 20, 49}
  StockMode = "strict"
  Stock0 = 3
  Reserved = 0
  Wallet0 = 20
  WalletCap = 20
  CreditLimit = 100
  PointEvery = 1000
  PointValue = 50
  CreditReturns = {TRUE, FALSE}
SPECIFICATION Spec
INVARIANTS
  TypeOK
  SettlementAgrees
  RefundsCovered
PROPERTIES
  ReturnRaisesDebtByRoundingOnly
  ClosedYearImmutable
