SPECIFICATION Spec
CONSTANTS
  MaxLength = 6
  Code <- MCCode
INVARIANT BlocksAreBasic
INVARIANT EdgesBehindTheFirst
CHECK_DEADLOCK FALSE
