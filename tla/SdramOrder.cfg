CONSTANTS
  NBanks = 1
  Rows = {r1}
  Cols = {c1}
  Values = {v1, v2}
  Contexts = {x1, x2}
  None = None
  RefreshMax = 7
  PowerupMax = 3
  BootRefreshMax = 0
  tRAS = 3
  tRC = 3
  tRFC = 4
  tMRD = 2
  tWR = 2
SPECIFICATION Spec
INVARIANTS BankInv
PROPERTIES RspStable ImplementsMemoryPort
SYMMETRY Symmetry
