SPECIFICATION FairSpec
CONSTANTS
  e1 = e1
  e2 = e2
  m1 = m1
  m2 = m2
  labor = labor
  travel = travel
  NoExpense = NoExpense
  Expenses <- MCExpenses
  Categories <- MCCategories
  Budget <- MCBudget
  Managers <- MCManagers
  LateWorkers = TRUE
  MaxAmount = 2
  MaxReviews = 2
CHECK_DEADLOCK FALSE
INVARIANTS
  TypeOK
  NeverOverBudget
  OneDecisionPerReview
PROPERTIES
  ApprovalsEnd
  ImplementsLedger
