SPECIFICATION Spec
CONSTANTS
  Workers = {w1, w2}
  n1 = n1
  n2 = n2
  Names = {n1, n2}
  Start <- MCStart
  MaxId <- MCMaxId
  MaxEdits = 2
  MaxWork = 2
CHECK_DEADLOCK FALSE
SYMMETRY Interchangeable
INVARIANTS
  TypeOK
  EveryRouteLeads
  RenderedReferencesResolve
PROPERTIES
  NewOwnersStartEmpty
  MoveSwaps
  ToolKeepsFrontend
