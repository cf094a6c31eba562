SPECIFICATION MCSpec
CONSTANTS
  u1 = u1
  u2 = u2
  e1 = e1
  e2 = e2
  a = a
  w1 = w1
  w2 = w2
  m1 = m1
  m2 = m2
  t1 = t1
  t2 = t2
  NoNumber = NoNumber
  Empty = Empty
  Unreadable = Unreadable
  Uploads <- MCUploads
  Sizes <- MCSizes
  MaxSize = 2
  Rows = 3
  Cells <- MCCells
  Expenses <- MCExpenses
  Records <- MCRecords
  NearDays = 2
  MaxRows = 3
  Drafters <- MCDrafters
  Writers <- MCWriters
  Texts <- MCTexts
  Tries = 3
  MaxDeaths = 1
  a1 = a1
  a2 = a2
  k1 = k1
  k2 = k2
  c1 = c1
  c2 = c2
  v = v
  NoCode = NoCode
  Codes <- MCCodes
  Categories <- MCCategories
  Admins <- MCAdmins
  LastDay = 2
  MaxProjects = 2
  Claims <- MCClaims
  LateClaims <- MCLateClaims
  Viewers <- MCViewers
  LastMonth = 2
  Shown = 1
CHECK_DEADLOCK FALSE
INVARIANTS
  RowsAndFiles
  OneToOne
  NoBetterPairMissed
  NarrativeTypeOK
  ProjectsSound
  DashboardAddsUp
PROPERTIES
  LateEvidenceWasInFlight
  DraftedOnce
  SomebodyTold
  FinalTextSettles
