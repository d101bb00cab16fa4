\* Two invoices for tea, one of them submitted twice; bags are not in stock rows.
CONSTANTS
  s1 = s1
  s2 = s2
  s3 = s3
  n1 = n1
  n2 = n2
  tea = tea
  bag = bag
  Invoices = {n1, n2}
  Calls = {s1, s2, s3}
  InvoiceOf <- MCInvoiceOf
  Items = {tea, bag}
  Known = {tea}
  Qty <- MCQty
  Stock0 <- MCStock0
  Levels = {1, 3}
  MaxPulls = 1
\* A till may sell nothing more: every call ends.
CHECK_DEADLOCK FALSE
SYMMETRY CallSymmetry
SPECIFICATION Spec
INVARIANTS
  TypeOK
  HoldsCovered
  StockExplained
  HoldLasts
