SPECIFICATION FairSpec
CONSTANTS
  Group = {g1}
  MaxVersion = 2
  Slot = {1, 2}
  Key = {k1, k2}
  CreateRequest = {c1, c2, c3}
  RevalidateRequest = {}
  RequestId = {}
  MAX_ATTEMPTS = 2
  MaxUpdates = 6
  MaxAborts = 1
  NoKey = NoKey
  NoGroup = NoGroup
  NoPlan = NoPlan
  NoRequestId = NoRequestId
  NoAudit = NoAudit
CHECK_DEADLOCK FALSE
INVARIANTS
  OnlyLatestIsLive
  CreateIsIdempotent
  MappingsHaveEvents
  StatusTellsMappings
  SessionsFollowPlan
PROPERTIES
  CreateIsAtomic
  ImplementsLifecycle
  ApplySettlesEventually
