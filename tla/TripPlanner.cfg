\* Three days, three places from the menu of MCTripPlanner.
CONSTANTS
  N = 3
  D = 3
  None = None
  Problems <- MCProblems
SPECIFICATION Spec
INVARIANTS
  ExactlyOneOutcome
  BudgetIsACeiling
  UnassignedHadNoRoom
  PreferencesAreKept
  RequestsAreValid
  DaysConnect
\* The computation ends.
CHECK_DEADLOCK FALSE
