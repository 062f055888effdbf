CONSTANTS
  PageSize = 128
  Words <- MCWords
  Values = {v1, v2}
  Ids <- MCIds
  ReadReqs <- MCReadReqs
  WriteReqs <- MCWriteReqs
  None = None
  MaxOutstanding = 2
  MaxWrites = 1
  Starts <- MCStarts
  Lens <- MCLens
SPECIFICATION Spec
INVARIANTS BeatWhereAxiSays DataBelongs ReadsAccounted WritesAccounted
PROPERTY ImplementsAxiMemory
SYMMETRY Symmetry
