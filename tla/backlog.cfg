SPECIFICATION Spec
CONSTANTS
  Group = {g1, g2}
  MaxVersion = 1
  Slot = {1, 2}
  Client1 = client1
  Key <- ClientAndSelectionKeys
  CreateRequest = {}
  Entry = {e1, e2}
  FileRequest = {f1}
  MaxDuration = 2
  MaxAttempts = 1
  MAX_ATTEMPTS = 1
  MaxUpdates = 5
  MaxAborts = 0
  NoKey = noKey
  NoGroup = noGroup
  NoPlan = noPlan
  NoEntry = noEntry
CHECK_DEADLOCK FALSE
SYMMETRY Symmetry
PROPERTIES
  ImplementsBacklogLifecycle
  RemainderIsRecalculated
  OnlyOutsidersOverbook
