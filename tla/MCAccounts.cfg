SPECIFICATION Spec
CONSTANTS
  Handlers = {h1, h2}
  Passwords = {p1, p2}
  Weak = weak
  Roles = {"viewer"}
  Founders = 2
  MaxUsers = 3
  MaxSessions = 3
  MaxRequests = 3
  MaxFailedLogins = 2
CHECK_DEADLOCK FALSE
SYMMETRY Interchangeable
INVARIANTS
  TypeOK
  AdminRemains
  FailuresLock
  SessionsKnowPassword
PROPERTIES
  EndedForGood
