SPECIFICATION Spec
CONSTANTS
  Hostnames <- MCHostnames
  Regex <- MCRegex
  Requests <- MCRequests
  Families <- MCFamilies
CHECK_DEADLOCK FALSE
INVARIANTS
  LowerIsMatchedFirst
