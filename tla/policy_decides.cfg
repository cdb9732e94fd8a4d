SPECIFICATION Spec
CONSTANTS
  Session = {1}
  Placement <- TwoPlacements
  Zone = {utc}
  PullRequest = {a1}
  ProcessRequest = {b1}
  MaxEdits = 2
  Deadline = {}
  Window <- MorningWindow
  NoSession = noSession
  NoDeadline = noDeadline
  NoChange = noChange
INVARIANTS
  PolicyAlwaysDecides
