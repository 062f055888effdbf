CONSTANTS
  NBanks = 1
  Rows = {r1, r2}
  Cols = {c1}
  Values = {v1}
  Contexts = {x1}
  None = None
  RefreshMax = 9
  PowerupMax = 3
  BootRefreshMax = 0
  tRAS = 3
  tRC = 3
  tRFC = 4
  tMRD = 2
  tWR = 2
SPECIFICATION LiveSpec
PROPERTIES CommandsTaken ReadsAnswered RefreshesIssued
