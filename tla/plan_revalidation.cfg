SPECIFICATION Spec
CONSTANTS
  Group = {g1, g2}
  MaxVersion = 1
  Slot = {1}
  Key = {k1, k2}
  CreateRequest = {c1, c2}
  RevalidateRequest = {r1, r2, r3}
  RequestId = {i1}
  MAX_ATTEMPTS = 1
  MaxUpdates = 4
  MaxAborts = 0
  NoKey = NoKey
  NoGroup = NoGroup
  NoPlan = NoPlan
  NoRequestId = NoRequestId
  NoAudit = NoAudit
CHECK_DEADLOCK FALSE
CONSTRAINT InFlightBound
SYMMETRY Symmetry
INVARIANTS SystemTypeOK TimestampCoversStatus StatusAgreesWithAudits
PROPERTIES AuditsAreTruthful StaleResultsAreDropped
