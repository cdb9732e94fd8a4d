SPECIFICATION PreviewSpec
CONSTANTS
  DayLength = 8
  Task = {1, 2}
  TaskInput <- NoTasks
  Preferences <- NoTasks
  FreeTime <- NoTasks
  NoTime = NoTime
  NoPreference = NoPreference
  None = None
  NoReview = NoReview
  BlankText = {"blank"}
  LongText = {"long", "huge"}
  HugeText = {"huge"}
  Text <- Texts
  StepAllowance = 2
  Request <- Requests
  WorkflowTask = 1
  Hours <- TwoDays
  TimeWindow <- TimeWindows
CHECK_DEADLOCK FALSE
INVARIANTS
  EstimatesAreDropped
  AuditExplainsTask
  PreviewHonoursReview
  RefusalsAreRight
PROPERTIES
  PreviewEnds
