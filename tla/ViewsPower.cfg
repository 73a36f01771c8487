SPECIFICATION Spec
CONSTANTS
  Nil = Nil
  Enrolments <- MCEnrolments
INVARIANT PowerPathsAgree
CHECK_DEADLOCK FALSE
