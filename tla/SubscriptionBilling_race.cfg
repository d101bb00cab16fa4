\* Two processes; a ceiling of two periods that short intervals reach.
CONSTANTS
  Procs = {p, q}
  Subs = {s}
  Plans = {basic}
  Horizon = 4
  Prices = {0, 1}
  Steps = {1, 2}
  MaxPeriods = 2
  Amounts = {2}
  WalletCap = 2
SYMMETRY ProcSymmetry
SPECIFICATION Spec
INVARIANTS
  TypeOK
  PeriodsPartition
  ReplayNeverCharges
