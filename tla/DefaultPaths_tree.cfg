SPECIFICATION Spec
CONSTANTS
  here = here
  there = there
  BAD = BAD
  Dirs = {here, there}
  Here = here
  Own <- MCOwn
  Roots <- MCRoots
  HexWords = {"ab", "cd"}
  MaxResults = 5
CHECK_DEADLOCK FALSE
INVARIANTS
  TypeOK
  ResultsAreKept
