SPECIFICATION Spec
CONSTANTS
  Handlers = {h1, h2}
  a = a
  b = b
  Contents = {a, b}
  Valid = {a, b}
  page = page
  cert = cert
  Pages = {page}
  Certs = {cert}
  FilesOf <- MCFilesOf
  Nothing = nothing
  Operations = {"apply", "rollback", "restart"}
  Faults = TRUE
  EditsInFlight = TRUE
  BackupKeep = 1
  VersionKeep = 2
  MaxRequests = 3
CHECK_DEADLOCK FALSE
SYMMETRY HandlerSymmetry
INVARIANTS
  TypeOK
  OnlyCheckedIsLive
PROPERTIES
  SuccessWasLoaded
