CONSTANTS
  Procs = {p}
  Slots = {1, 2}
  Subs = {s}
  Jobs = {1, 2}
  Events = {"invoice.created"}
  EventOf <- MCOneEvent
  Configs <- MCNoConfigs
  BatchSize = 2
  MaxAttempts = 2
  Manual = FALSE
  MaxFaults = 0
  MaxRequeues = 0
  Nobody = Nobody
  Ended = Ended
SPECIFICATION Spec
INVARIANTS NeverDoubleDelivered
