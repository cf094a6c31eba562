SPECIFICATION Spec
CONSTANTS
  e1 = e1
  e2 = e2
  m1 = m1
  m2 = m2
  Expenses <- MCExpenses
  LateExpenses <- MCLateExpenses
  Periods <- MCPeriods
  Managers <- MCManagers
  MaxReports = 2
CHECK_DEADLOCK FALSE
SYMMETRY MCSymmetry
INVARIANTS
  TypeOK
  OneReportPerMonth
  LockedInMonth
  CountedAreLocked
  CumulativeCoversMonth
PROPERTIES
  FinalFrozen
  ImplementsBooks
