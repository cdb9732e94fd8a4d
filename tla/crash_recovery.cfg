SPECIFICATION FairSpec
CONSTANTS
  Group = {g1}
  MaxVersion = 1
  Slot = {1}
  Key = {k1}
  CreateRequest = {c1}
  RevalidateRequest = {}
  RequestId = {}
  MAX_ATTEMPTS = 1
  MaxUpdates = 4
  MaxAborts = 1
  NoKey = NoKey
  NoGroup = NoGroup
  NoPlan = NoPlan
  NoRequestId = NoRequestId
  NoAudit = NoAudit
CHECK_DEADLOCK FALSE
PROPERTY CrashIsRecovered
