SPECIFICATION Spec
CONSTANTS
  Users = {u1}
  Turns = {t1, t2}
  MaxChats = 2
  MaxCalls = 1
  MaxSteps = 2
CHECK_DEADLOCK FALSE
SYMMETRY Interchangeable
INVARIANTS
  NeverToldBroken
