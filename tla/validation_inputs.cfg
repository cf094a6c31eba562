SPECIFICATION MCSpec
CONSTANTS
  c1 = c1
  c2 = c2
  s1 = s1
  s2 = s2
  l1 = l1
  e1 = e1
  e2 = e2
  e3 = e3
  p = p
  q = q
  r = r
  Checks <- MCChecks
  Codes <- MCCodes
  CacheTTL = 2
  LastDay = 3
  Dates <- MCDates
  Weekend <- MCWeekend
  TwoNames <- MCWeekend
  Months = 2
  Syncs <- MCSyncs
  Lookups <- MCLookups
  FirstNumbers <- MCFirstNumbers
  SentNumbers <- MCSentNumbers
  MaxTypos = 2
  MaxEvidences = 2
  SpentDays <- MCSpentDays
  ProjectStart = 0
  ProjectEnd = 40
  Amount = 2
  Budgets <- MCBudgets
  ApprovedSums <- MCApprovedSums
  Replies <- MCReplies
  Claims <- MCClaims
  Purchases <- MCPurchases
  Unnamed <- MCUnnamed
SYMMETRY MCSymmetry
CHECK_DEADLOCK FALSE
INVARIANTS
  AnswersRecent
  CollideOnce
  SyncedHolidayFlagged
  QuietWasRead
  DoubleClaimNoticed
PROPERTIES
  VerifiedKept
  TypoDetected
