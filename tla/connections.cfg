SPECIFICATION FairConnectionSpec
CONSTANTS
  Request = {r1, r2, r3}
  State = {s1, s2}
  NoState = NoState
  NoRequest = NoRequest
INVARIANTS
  LockedRowIsCurrent
  StateGrantsOnce
PROPERTIES
  OnlyConsentActivates
  RequestsEnd
