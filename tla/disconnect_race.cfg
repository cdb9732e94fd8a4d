SPECIFICATION ConnectionSpec
CONSTANTS
  Request = {r1, r2}
  State = {s1}
  NoState = NoState
  NoRequest = NoRequest
INVARIANTS RevokedHasNoTokens
