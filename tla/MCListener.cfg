SPECIFICATION FairSpec
CONSTANTS
  Handlers = {h1, h2}
  Main = main
  Forms <- MCForms
  BindForms <- MCBindForms
  DefaultListener <- MCDefault
  EnvPorts <- MCEnvPorts
  MaxRequests = 2
  MaxBoots = 2
CHECK_DEADLOCK FALSE
INVARIANTS
  TypeOK
  RebindNotLost
  PanelKeepsPort
  FileIsWhole
PROPERTIES
  SecretStable
  PanelMoves
