CONSTANTS
  NBanks = 2
  Rows = {r1, r2}
  Cols = {c1}
  Values = {v1}
  Contexts = {x1}
  None = None
  RefreshMax = 13
  PowerupMax = 3
  BootRefreshMax = 1
  tRAS = 3
  tRC = 3
  tRFC = 4
  tMRD = 2
  tWR = 2
SPECIFICATION PromptSpec
INVARIANTS SpacingLegal BootLegal
PROPERTIES NoRefreshLost
SYMMETRY Symmetry
