\* One process and a customer with two subscriptions.
CONSTANTS
  Procs = {p}
  Subs = {s, t}
  Plans = {basic, pro}
  Horizon = 1
  Prices = {2}
  Steps = {1}
  MaxPeriods = 2
  Amounts = {2}
  WalletCap = 2
SPECIFICATION Spec
INVARIANTS DebitsAreFunded
