SPECIFICATION RegistrySpec
CONSTANTS
  TriggerKeys = {"quote.sent", "invoice.paid"}
  TriggerNodes = {"t1", "t2"}
  MaxVersions = 2
  ListensTo <- MCListensTo
  Admins = {a1, a2}
  Firers = {f1, f2}
  MaxOps = 4
  MaxDead = 1
INVARIANTS OnlyActivatedRuns OneRunAfterStop
CHECK_DEADLOCK FALSE
