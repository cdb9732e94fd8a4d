SPECIFICATION Spec
CONSTANTS
  DayLength = 8
  Task = {1, 2}
  TaskInput <- TaskInputs
  Preferences <- PreferencesInputs
  FreeTime <- FreeTimes
  PlanningWindow <- PlanningWindows
  WorkingHours <- Hours
  NoTime = noTime
  NoPreference = noPreference
CHECK_DEADLOCK FALSE
INVARIANTS
  BlocksAreFeasible
  NothingIsStranded
  UnscheduledMeansNoRoom
  SelectionIsUnique
  LoopsComputeAvailability
