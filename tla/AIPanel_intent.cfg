SPECIFICATION PanelSpec
CONSTANTS
  Inputs = {i1, i2}
  MaxPolls = 2
  MaxSubmits = 2
INVARIANT OneRunPerIntent
CHECK_DEADLOCK FALSE
