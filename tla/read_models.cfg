SPECIFICATION ReadModelSpec
CONSTANTS
  Group = {g1}
  MaxVersion = 1
  Slot = {1, 2}
  Key = {k1}
  CreateRequest = {c1}
  RevalidateRequest = {r1}
  RequestId = {}
  MAX_ATTEMPTS = 1
  MaxUpdates = 5
  MaxAborts = 1
  Calendar <- Calendars
  Destination <- WorkCalendar
  Day = {1, 2}
  Horizon = {2}
  NoCalendar = NoCalendar
  NoKey = NoKey
  NoGroup = NoGroup
  NoPlan = NoPlan
  NoRequestId = NoRequestId
  NoAudit = NoAudit
CHECK_DEADLOCK FALSE
INVARIANTS
  EachSessionOnce
  FreshMeansVerified
  PlannerNeverGoesBack
  ReadinessTellsMappings
