\* Two operations, so that a job is registered over the handle of an ended one, and
\* two size passes, so that one supersedes another; a list never does.
SPECIFICATION Spec
CONSTANTS
  NoResult = noresult
  MaxOps = 2
  MaxLists = 1
  MaxSizes = 2
INVARIANTS
  CleanupIsComplete
  LeftoversAreCancelled
  ExitIsHonest
\* The program ends.
CHECK_DEADLOCK FALSE
