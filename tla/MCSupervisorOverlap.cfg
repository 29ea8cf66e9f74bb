SPECIFICATION Spec
CONSTANTS
  Handlers = {h1, h2}
  Offered <- MCOffered
  h1 = h1
  h2 = h2
  Main = main
  NoOne = noone
  MaxStarts = 2
  MaxForks = 3
  SettlePolls = 1
  DeadlinePolls = 1
CHECK_DEADLOCK FALSE
PROPERTIES
  OneReloadAtATime
