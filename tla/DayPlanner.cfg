\* Every request of three places from the menu of MCDayPlanner.
CONSTANTS
  N = 3
  MaxSweeps = 100
  Problems <- MCProblems
SPECIFICATION Spec
INVARIANTS
  EveryPlaceAccounted
  PlanIsFeasible
  MustSeeGuarantee
  StopsWhenNothingFits
  TwoOptKeepsTheEnds
\* The computation ends.
CHECK_DEADLOCK FALSE
