SPECIFICATION Spec
CONSTANTS
  e1 = e1
  e2 = e2
  w1 = w1
  w2 = w2
  NoExpense = NoExpense
  Expenses <- MCTwoExpenses
  Contents <- MCContents
  Workers <- MCWorkers
  Faults <- MCErrors
  MaxAttempts = 3
  MaxRuns = 3
  MaxCrashes = 0
CHECK_DEADLOCK FALSE
SYMMETRY MCSymmetry
INVARIANTS
  TypeOK
  WorkOutstanding
  DeletedStaysDraft
  ReviewShowsVerdict
  FailNeedsOverride
PROPERTIES
  DecisionFinal
  ImplementsLifecycle
