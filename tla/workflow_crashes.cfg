SPECIFICATION FairSpec
CONSTANTS
  e1 = e1
  e2 = e2
  w1 = w1
  w2 = w2
  NoExpense = NoExpense
  Expenses <- MCOneExpense
  Contents <- MCContents
  Workers <- MCWorkers
  Faults <- MCCrashes
  MaxAttempts = 3
  MaxRuns = 2
  MaxCrashes = 2
CHECK_DEADLOCK FALSE
INVARIANTS
  ExclusiveExecution
PROPERTIES
  SubmissionReviewed
