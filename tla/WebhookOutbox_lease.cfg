CONSTANTS
  Procs = {p, q}
  Slots = {1, 2}
  Subs = {s}
  Jobs = {1, 2}
  Events = {"invoice.created"}
  EventOf <- MCOneEvent
  Configs <- MCConfigs
  BatchSize = 2
  MaxAttempts = 2
  Manual = FALSE
  MaxFaults = 1
  MaxRequeues = 0
  Nobody = Nobody
  Ended = Ended
SPECIFICATION FairSpec
INVARIANTS OneDispatcher
PROPERTIES EventuallySettled
