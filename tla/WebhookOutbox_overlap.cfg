CONSTANTS
  Procs = {p}
  Slots = {1, 2}
  Subs = {s}
  Jobs = {1, 2}
  Events = {"invoice.created"}
  EventOf <- MCOneEvent
  Configs <- MCConfigs
  BatchSize = 2
  MaxAttempts = 2
  Manual = TRUE
  MaxFaults = 0
  MaxRequeues = 1
  Nobody = Nobody
  Ended = Ended
SPECIFICATION Spec
INVARIANTS TypeOK OutcomeEarned
 
