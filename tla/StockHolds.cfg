\* Three holds, four releases, one answer kept in memory, two faults.
CONSTANTS
  h1 = h1
  h2 = h2
  h3 = h3
  r1 = r1
  r2 = r2
  r3 = r3
  r4 = r4
  Keys = {h1, h2, h3}
  Requests = {r1, r2, r3, r4}
  KeyOf <- KeyOfRequest
  Units <- UnitsOfHold
  MemCap = 1
  MaxFaults = 2
  Quantities = {1}
  StockMode = "strict"
  Stock0 = 4
  MaxQty = 4
SPECIFICATION Spec
INVARIANTS
  TypeOK
  HoldsKept
PROPERTIES
  OnlyByHandUncovered
  ReleasesOnce
  EventuallyAnswered
