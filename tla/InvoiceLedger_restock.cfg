\* One invoice; the claim on void that no unit is restored twice.
CONSTANTS
  Invoices = {i1}
  LastYear = 1
  LastPeriod = 1
  CustomYears = {}
  Processes = 1
  Grain = 1
  Quantities = {1, 2}
  Price = 100
  LineDiscounts = {0}
  TaxRate = 0
  TaxInclusive = FALSE
  Discounts = {0}
  Amounts = {0, 100, 200}
  StockMode = "strict"
  Stock0 = 3
  Reserved = 0
  Wallet0 = 100
  WalletCap = 0
  CreditLimit = 200
  PointEvery = 100
  PointValue = 50
  CreditReturns = {FALSE}
SPECIFICATION Spec
INVARIANT
  NoDoubleRestock
