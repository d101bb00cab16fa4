SPECIFICATION FairSpec
CONSTANTS
  invoice = invoice
  Docs = {invoice}
  Tabs = {t1, t2}
  Edits <- MCEdits
  MaxAttempts = 2
  MaxCrashes = 1
  MaxRetries = 1
INVARIANTS TypeOK NoEditLost
PROPERTY EventuallySettled
