CONSTANTS
  NBanks = 1
  Rows = {r1, r2}
  Cols = {c1}
  Values = {v1, v2}
  Contexts = {x1}
  None = None
  RefreshMax = 7
  PowerupMax = 4
  BootRefreshMax = 1
  tRAS = 3
  tRC = 3
  tRFC = 4
  tMRD = 2
  tWR = 2
SPECIFICATION ResetSpec
INVARIANTS TypeOK NoReadDataLost BanksLegal SpacingLegal RowsAgree
SYMMETRY Symmetry
PROPERTY CommandsPerformed
