SPECIFICATION Spec
CONSTANTS
  None = None
  Nil = Nil
  Cars = {c1}
  Callers = {k1, k2}
  Main = main
  MaxGrants = 2
  MaxUses = 2
  MaxCrashes = 2
  Saves = {s1, s2}
  Chains = {ca1}
  CAFile = None
  Empty = Empty
  Garbled = Garbled
  Grace = 1
  Stale = 1
  ReportAsleep = TRUE
  MaxMessages = 3
  Enrolments <- MCEnrolments
  f1 = f1
  f2 = f2
  n1 = n1
  n2 = n2
  n3 = n3
  Fleet = {f1, f2}
  Lists <- MCLists
  ByVIN = FALSE
  Titles <- MCTitles
  MaxPresses = 2
  MaxTime = 2
  MaxStarts = 2
INVARIANTS
  TypeOK
  CredentialKept
  StatusOkSurvivesRestart
  EnrollmentWhole
  CleanShutdownKeepsAll
  NoGhost
  ViewsAgree
  RightCarOnce
PROPERTY StateKept
CHECK_DEADLOCK FALSE
