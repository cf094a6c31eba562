SPECIFICATION Spec
CONSTANTS
  e1 = e1
  e2 = e2
  w1 = w1
  w2 = w2
  NoExpense = NoExpense
  Expenses <- MCOneExpense
  Contents <- MCContents
  Workers <- MCWorkers
  Faults <- MCDeaths
  MaxAttempts = 3
  MaxRuns = 2
  MaxCrashes = 1
CHECK_DEADLOCK FALSE
INVARIANTS
  FailNeedsOverride
