SPECIFICATION Spec
CONSTANTS
  Handlers = {h1}
  a = a
  b = b
  c = c
  Contents = {a, b, c}
  Valid = {a, b}
  page = page
  cert = cert
  Pages = {page}
  Certs = {cert}
  FilesOf <- MCFilesOf
  Nothing = nothing
  Operations = {"apply", "rollback"}
  Faults = FALSE
  EditsInFlight = FALSE
  BackupKeep = 2
  VersionKeep = 2
  MaxRequests = 4
CHECK_DEADLOCK FALSE
INVARIANTS
  RestoredConfigLoads
