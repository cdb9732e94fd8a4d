SPECIFICATION Spec
CONSTANTS
  Session = {1}
  Placement <- TwoPlacements
  Zone = {utc}
  PullRequest = {a1, a2}
  ProcessRequest = {b1, b2}
  MaxEdits = 2
  Deadline = {2}
  Window <- MorningWindow
  NoSession = noSession
  NoDeadline = noDeadline
  NoChange = noChange
SYMMETRY RequestSymmetry
INVARIANTS
  SyncSystemTypeOK
  DeletionsAreOnRecord
  SerialSyncConverges
PROPERTIES
  ChangesActOnce
  KnownDeadlinesHold
